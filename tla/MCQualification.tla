--------------------------- MODULE MCQualification ---------------------------
(* From delivery to closure.  Every id set is large enough for every       *)
(* question, and part bounds how much of it one behaviour uses: two        *)
(* handlers that race the reviews and closures of one delivery; two        *)
(* deliveries under a plan with two requirements and freely cited          *)
(* evidence; two deliveries with two reports and two reviews; and, on      *)
(* MemoryStore, two handlers and two deliveries, of one subject or of two. *)
EXTENDS MCWorkLifecycle, MemoryStore

VARIABLE part

(* How many rows there may be, and how many requests at a time; whether    *)
(* runs are paused and resumed, and whether evidence may fail.             *)
Limit(deliveries, reports, reviews, closures, requests, controls, failures) ==
  [deliveries |-> deliveries, reports |-> reports, reviews |-> reviews,
   closures |-> closures, requests |-> requests, controls |-> controls, failures |-> failures]

Limits ==
  [closure      |-> Limit(1, 2, 2, 2, 2, TRUE, FALSE),
   verification |-> Limit(2, 1, 1, 1, 1, FALSE, TRUE),
   deliveries   |-> Limit(2, 2, 2, 1, 1, FALSE, FALSE),
   memory       |-> Limit(2, 1, 2, 1, 2, FALSE, FALSE)]

AtMost(n, rows) == Cardinality({x \in DOMAIN rows : rows[x] # None}) <= n

Within(l) ==
  /\ AtMost(l.deliveries, delivery) /\ AtMost(l.reports, report)
  /\ AtMost(l.reviews, review) /\ AtMost(l.closures, closure)
  /\ Cardinality({h \in Handlers : ~Free(h)}) <= l.requests
  /\ l.controls \/ \A h \in Handlers : handler[h].op \notin Controls
  /\ l.failures \/ \A e \in evidence : e.result = "PASS"

MCInit == part \in DOMAIN Limits /\ Init

MCNext ==
  /\ UNCHANGED part
  /\ \/ part # "memory" /\ Next
     \/ part = "memory" /\ MemoryNext
  /\ Within(Limits[part])'

MCSpec == MCInit /\ [][MCNext]_<<part, vars>>

(* Ids are interchangeable; these permutations pay for themselves. *)
MCIds ==
  Permutations(Handlers) \cup Permutations(People) \cup Permutations(Deliveries)
    \cup Permutations(Reports) \cup Permutations(Contents)
=============================================================================
