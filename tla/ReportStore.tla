----------------------------- MODULE ReportStore -----------------------------
(***************************************************************************)
(* What one cache node promises about detection reports, without saying    *)
(* how: an acknowledged report waits in a queue; the report at the head    *)
(* either becomes, in one indivisible step, the list its slot serves, or   *)
(* is dropped.  A slot is a (vpn, game, region) triple.  DetectStore       *)
(* implements this with two Redis sorted sets per slot and a flag.         *)
(***************************************************************************)
EXTENDS Sequences

CONSTANTS
  Slots,   \* the slots of the node
  Data,    \* the lists a report can carry
  None     \* no list published

VARIABLES
  pending,   \* acknowledged reports not yet settled, oldest first
  snapshot   \* the list each slot serves

vars == <<pending, snapshot>>

Reports == [slot : Slots, data : Data]

TypeOK ==
  /\ pending \in Seq(Reports)
  /\ snapshot \in [Slots -> Data \cup {None}]

Init ==
  /\ pending = <<>>
  /\ snapshot = [s \in Slots |-> None]

Accept(report) ==
  /\ pending' = Append(pending, report)
  /\ UNCHANGED snapshot

Publish ==
  /\ pending # <<>>
  /\ pending' = Tail(pending)
  /\ snapshot' = [snapshot EXCEPT ![Head(pending).slot] = Head(pending).data]

Drop ==
  /\ pending # <<>>
  /\ pending' = Tail(pending)
  /\ UNCHANGED snapshot

\* The process that holds the queue stops: what it had acknowledged is lost.
Lose ==
  /\ pending' = <<>>
  /\ UNCHANGED snapshot

\* Redis is initialised again: nothing is served until the next report.
Reset ==
  /\ snapshot' = [s \in Slots |-> None]
  /\ UNCHANGED pending

Next ==
  \/ \E report \in Reports : Accept(report)
  \/ Publish
  \/ Drop
  \/ Lose
  \/ Reset

Spec == Init /\ [][Next]_vars
=============================================================================
