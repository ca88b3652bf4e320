------------------------------- MODULE Answers -------------------------------
(***************************************************************************)
(* What a model answers, whatever the format it travels in: items in       *)
(* order, each a run of thought, a run of text or a call of a tool.  An    *)
(* item arrives in pieces; the n-th piece of an answer is n, so that one   *)
(* lost, repeated or moved shows.  The first piece of a call is its name,  *)
(* the others are parts of its arguments.                                  *)
(***************************************************************************)
EXTENDS Integers, Sequences, SequencesExt

Item(kind, pieces) == [kind |-> kind, pieces |-> pieces]

EndsWith(items, kind) == items # <<>> /\ Last(items).kind = kind

\* A run goes on with the next piece of its kind; every call is an item.
AddPiece(items, kind, n) ==
  IF kind # "call" /\ EndsWith(items, kind)
  THEN [items EXCEPT ![Len(items)].pieces = Append(@, n)]
  ELSE Append(items, Item(kind, <<n>>))

\* The items that pass a test, in order: SelectSeq, as a fold.
Chosen(items, Test(_)) == FoldLeft(LAMBDA s, i : IF Test(i) THEN Append(s, i) ELSE s, <<>>, items)

IsCall(item) == item.kind = "call"
Calls(items) == Chosen(items, IsCall)
CallCount(items) == Len(Calls(items))
Filled(items) == Chosen(items, LAMBDA i : i.pieces # <<>>)

\* The position of the c-th call, and the items with an argument more in it.
CallAt(items, c) ==
  CHOOSE i \in DOMAIN items : IsCall(items[i]) /\ CallCount(SubSeq(items, 1, i)) = c
AddArgument(items, c, n) == [items EXCEPT ![CallAt(items, c)].pieces = Append(@, n)]

AddAll(items, kind, ns) == FoldLeft(LAMBDA s, n : AddPiece(s, kind, n), items, ns)

\* The items with neighbours of a kind made one run and empty runs dropped.
Joined(items) ==
  FoldLeft(LAMBDA s, i : IF IsCall(i) THEN Append(s, i) ELSE AddAll(s, i.kind, i.pieces),
           <<>>, items)

\* Everything of a kind, when a format keeps no order among kinds.
Run(items, kind) ==
  FoldLeft(LAMBDA s, i : IF i.kind = kind THEN s \o i.pieces ELSE s, <<>>, items)

\* Calls kept by their index, one piece after another, in the order they began.
TakeCall(calls, c) ==
  IF \E i \in DOMAIN calls : calls[i].index = c.index
  THEN [i \in DOMAIN calls |->
          IF calls[i].index = c.index THEN [calls[i] EXCEPT !.pieces = @ \o c.pieces] ELSE calls[i]]
  ELSE Append(calls, c)
=============================================================================
