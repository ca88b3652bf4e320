----------------------------- MODULE UpdateMail -----------------------------
(***************************************************************************)
(* What the watcher's dispatcher promises the consumer of auth updates.    *)
(* Every auth has a mailbox of updates that were submitted and not yet     *)
(* handed over.  They are handed over in order; a newer one may take the   *)
(* place of the newest that waits; nothing else is dropped before the      *)
(* dispatcher is closed.  How updates of different auths interleave is     *)
(* left open.                                                              *)
(***************************************************************************)
EXTENDS Naturals, Sequences, SequencesExt

CONSTANTS Ids, States      \* auths, and what an update says of one

VARIABLES owed,            \* auth -> updates on their way, oldest first
          given,           \* auth -> the update the consumer has last been given
          closed

mailVars == <<owed, given, closed>>

MailInit ==
  /\ owed = [i \in Ids |-> <<>>]
  /\ given \in [Ids -> States]
  /\ closed = FALSE

\* What may become of a mailbox when updates are submitted.
Extended(box) ==
  {box} \cup {Append(box, s) : s \in States}
        \cup (IF box = <<>> THEN {} ELSE {Append(Front(box), s) : s \in States})

Submit ==
  /\ \A i \in Ids : owed'[i] \in Extended(owed[i])
  /\ UNCHANGED <<given, closed>>

Hand(i) ==
  /\ owed[i] # <<>>
  /\ owed' = [owed EXCEPT ![i] = Tail(@)]
  /\ given' = [given EXCEPT ![i] = Head(owed[i])]
  /\ UNCHANGED closed

Close == closed' = TRUE /\ UNCHANGED <<owed, given>>

\* Some updates of a mailbox, in its order.
PartOf(rest, box) ==
  \E at \in [DOMAIN rest -> DOMAIN box] :
    /\ \A j, k \in DOMAIN rest : j < k => at[j] < at[k]
    /\ \A k \in DOMAIN rest : rest[k] = box[at[k]]

\* A closed dispatcher may give up what it has not handed over.
Abandon ==
  /\ closed
  /\ \A i \in Ids : PartOf(owed'[i], owed[i])
  /\ UNCHANGED <<given, closed>>

MailNext == Submit \/ (\E i \in Ids : Hand(i)) \/ Close \/ Abandon

MailSpec == MailInit /\ [][MailNext]_mailVars

\* Nothing is stranded: whatever is on its way is handed over, or the
\* dispatcher is closed.
Delivered == \A i \in Ids : (owed[i] # <<>>) ~> (owed[i] = <<>> \/ closed)

FairMailSpec == MailSpec /\ Delivered
=============================================================================
