------------------------- MODULE PublicationWitness -------------------------
(***************************************************************************)
(* What the independent Publisher service promises about one publication,  *)
(* as the control plane uses it: the abstract specification of the journal *)
(* of internal/githubpublish.                                              *)
(*                                                                         *)
(*   none       no slot for this operation (never asked, or refused)       *)
(*   requested  the control plane's publish call has reached the Publisher *)
(*   started    STARTED is durable, Publish has not been armed             *)
(*   armed      the intent to invoke is durable, Publish not yet entered   *)
(*   entered    Remote.Publish was entered; its effect may happen any time *)
(*   completed  COMPLETED is durable: the original call returned success   *)
(*   sealed     a durable certificate that Publish was never entered       *)
(*                                                                         *)
(* "held" is the slot's inode lock: the original handler still runs.       *)
(* "effect" is the external world: the pull request exists.                *)
(***************************************************************************)
EXTENDS Naturals

CONSTANT Ids    \* operation ids, one publication slot each

VARIABLE pub

Witnesses == {"none", "requested", "started", "armed", "entered",
              "completed", "sealed"}

PublicationType == pub \in [Ids -> [witness : Witnesses, held : BOOLEAN, effect : BOOLEAN]]

PubInit == pub = [i \in Ids |-> [witness |-> "none", held |-> FALSE, effect |-> FALSE]]

(* The control plane's HTTP request is on its way to the Publisher. *)
PublishRequested(i) ==
  /\ pub[i].witness = "none"
  /\ pub' = [pub EXCEPT ![i].witness = "requested"]

(* Plan not authorized, bundle rejected, or the slot cannot be opened. *)
RefusePublish(i) ==
  /\ pub[i].witness = "requested"
  /\ pub' = [pub EXCEPT ![i].witness = "none"]

(* journal.begin: new slot directory, inode lock, durable STARTED. *)
BeginSlot(i) ==
  /\ pub[i].witness = "requested"
  /\ pub' = [pub EXCEPT ![i].witness = "started", ![i].held = TRUE]

(* lease.arm: the intent is durable before Publish can be entered. *)
ArmInvocation(i) ==
  /\ pub[i].witness = "started" /\ pub[i].held
  /\ pub' = [pub EXCEPT ![i].witness = "armed"]

(* Cancelled after arming and before entry: the original writer, and only  *)
(* it, retains the certificate.                                            *)
RetainArmedCancellation(i) ==
  /\ pub[i].witness = "armed" /\ pub[i].held
  /\ pub' = [pub EXCEPT ![i].witness = "sealed", ![i].held = FALSE]

EnterPublish(i) ==
  /\ pub[i].witness = "armed" /\ pub[i].held
  /\ pub' = [pub EXCEPT ![i].witness = "entered"]

(* GitHub applies the request: possible as long as the call was entered,   *)
(* also after the Publisher process is gone.                               *)
ExternalEffect(i) ==
  /\ pub[i].witness = "entered" /\ ~pub[i].effect
  /\ pub' = [pub EXCEPT ![i].effect = TRUE]

CompletePublish(i) ==
  /\ pub[i].witness = "entered" /\ pub[i].held /\ pub[i].effect
  /\ pub' = [pub EXCEPT ![i].witness = "completed", ![i].held = FALSE]

(* The handler returns early, panics or is killed: the lock is released    *)
(* and the files stay as they are.                                         *)
ReleaseSlot(i) ==
  /\ pub[i].held
  /\ pub' = [pub EXCEPT ![i].held = FALSE]

(* journal.sealUninvoked: the slot lock is free, STARTED is readable and   *)
(* there is no intent.                                                     *)
SealUninvoked(i) ==
  /\ pub[i].witness = "started" /\ ~pub[i].held
  /\ pub' = [pub EXCEPT ![i].witness = "sealed"]

PublisherStep(i) ==
  \/ RefusePublish(i) \/ BeginSlot(i) \/ ArmInvocation(i)
  \/ RetainArmedCancellation(i) \/ EnterPublish(i) \/ ExternalEffect(i)
  \/ CompletePublish(i) \/ ReleaseSlot(i) \/ SealUninvoked(i)

PubNext == \E i \in Ids : PublishRequested(i) \/ PublisherStep(i)

PubSpec == PubInit /\ [][PubNext]_pub
=============================================================================
