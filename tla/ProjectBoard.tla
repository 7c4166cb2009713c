---------------------------- MODULE ProjectBoard ----------------------------
(***************************************************************************)
(* The boards of src/api/internal/pb: store.go, whose operations are one   *)
(* critical section of Store.mu each, and the handlers of handler.go, two  *)
(* of which use the store, or what it gave them, in a second step.         *)
(*                                                                         *)
(* Cards and edges are kept alike: a slice and a counter for the IDs.  The *)
(* items in use are the first count of the slice's array: a deletion       *)
(* shifts the rest of the array in place, where it is seen by who still    *)
(* holds the slice.  An item's text is the request that wrote it last.     *)
(***************************************************************************)
EXTENDS ApiRequests, SequencesExt

CONSTANTS Original      \* the text of the items of the demo board

VARIABLES
    boards,     \* the name of each board; its ID is its position
    array,      \* the cards and the edges of each board
    count,      \* how many of them are in use
    nextN,      \* nextCardN, nextEdgeN
    latest,     \* ghost: the last text written to each card or edge
    deleted,    \* ghost: the cards and edges deleted
    stale,      \* ghost: the sends whose copy is not what was written last
    undone      \* ghost: the cards of which the last send was such a one

boardVars == <<boards, array, count, nextN, latest, deleted, stale, undone>>

Sorts == {"card", "edge"}
Texts == Requests \cup {Original}
MaxId == 2 + Cardinality(Requests)
Item  == [id : 1 .. MaxId, text : Texts, status : {"todo", "active"}]

BoardTypeOK ==
    /\ boards \in Seq(Texts)
    /\ \A s \in Sorts :
           /\ array[s] \in Seq(Seq(Item)) /\ Len(array[s]) = Len(boards)
           /\ \A b \in DOMAIN boards : count[s][b] \in 0 .. Len(array[s][b])
           /\ nextN[s] \in 1 .. MaxId + 1
           /\ latest[s] \in [1 .. MaxId -> Texts \cup {Nothing}]
           /\ deleted[s] \subseteq 1 .. MaxId
    /\ stale \subseteq Requests /\ undone \subseteq 1 .. MaxId

Todo(i, text) == [id |-> i, text |-> text, status |-> "todo"]

BoardInit ==
    /\ boards = <<Original>>
    /\ array = [card |-> <<<<Todo(1, Original), Todo(2, Original)>>>>,
                edge |-> <<<<Todo(1, Original)>>>>]
    /\ count = [card |-> <<2>>, edge |-> <<1>>]
    /\ nextN = [card |-> 3, edge |-> 2]
    /\ latest = [s \in Sorts |-> [i \in 1 .. MaxId |-> IF i < nextN[s] THEN Original ELSE Nothing]]
    /\ deleted = [s \in Sorts |-> {}]
    /\ stale = {} /\ undone = {}

-----------------------------------------------------------------------------
(* The store.                                                              *)

Items(s, b) == IF b \in DOMAIN boards THEN SubSeq(array[s][b], 1, count[s][b]) ELSE <<>>

\* Where item i is among the first count of the array, 0 if it is not.
IndexOf(s, b, i) == SelectInSeq(Items(s, b), LAMBDA x : x.id = i)

\* A new board has the length of the slice plus one for its ID.
NewBoard(r) ==
    /\ boards' = Append(boards, r)
    /\ array' = [s \in Sorts |-> Append(array[s], <<>>)]
    /\ count' = [s \in Sorts |-> Append(count[s], 0)]
    /\ UNCHANGED <<nextN, latest, deleted, stale, undone>>

NameBoard(r, b) ==
    /\ boards' = [boards EXCEPT ![b] = r]
    /\ UNCHANGED <<array, count, nextN, latest, deleted, stale, undone>>

\* Mutant: an ID is the length of the slice plus one, as for projects.
NewId_Length(s) == count[s][1] + 1

NewId(s) == nextN[s]

\* Mutant: a new item is put in front of the others.
Create_InFront(r, s, b) ==
    LET i == NewId(s)
        n == count[s][b] + 1
    IN  /\ nextN' = [nextN EXCEPT ![s] = @ + 1]
        /\ array' = [array EXCEPT ![s][b] = <<Todo(i, r)>> \o SubSeq(@, 1, n - 1)]
        /\ count' = [count EXCEPT ![s][b] = n]
        /\ latest' = [latest EXCEPT ![s][i] = r]
        /\ UNCHANGED <<boards, deleted, stale, undone>>

Create(r, s, b) ==
    LET i == NewId(s)
        x == Todo(i, r)
        n == count[s][b] + 1
    IN  /\ nextN' = [nextN EXCEPT ![s] = @ + 1]
        /\ array' = [array EXCEPT ![s][b] =
                        IF n <= Len(@) THEN [@ EXCEPT ![n] = x] ELSE Append(@, x)]
        /\ count' = [count EXCEPT ![s][b] = n]
        /\ latest' = [latest EXCEPT ![s][i] = r]
        /\ UNCHANGED <<boards, deleted, stale, undone>>

Store(s, b, x) ==
    LET k == IndexOf(s, b, x.id)
    IN  /\ array' = IF k = 0 THEN array ELSE [array EXCEPT ![s][b][k] = x]
        /\ UNCHANGED <<boards, count, nextN, deleted>>

Delete(s, b, i) ==
    LET k == IndexOf(s, b, i)
        n == count[s][b]
    IN  /\ array' = [array EXCEPT ![s][b] =
                        [j \in DOMAIN @ |-> IF j \in k .. n - 1 THEN @[j + 1] ELSE @[j]]]
        /\ count' = [count EXCEPT ![s][b] = n - 1]
        /\ deleted' = [deleted EXCEPT ![s] = @ \cup {i}]
        /\ UNCHANGED <<boards, nextN, latest, stale, undone>>

-----------------------------------------------------------------------------
(* The handlers.  A request is about item item[2] of board item[1].        *)

BoardOps == {"createBoard", "renameBoard", "readBoard", "createCard", "updateCard",
             "deleteCard", "sendCard", "createEdge", "updateEdge", "deleteEdge"}

BoardRequest(r) ==
    /\ \E o \in workload : o.does \in BoardOps /\ Begin(r, o, o.does)
    /\ UNCHANGED <<boardVars, seen>>

Serves(r, does) == at[r] = does /\ UNCHANGED seen

HasBoard(r) == op[r].item[1] \in DOMAIN boards

boardMissing(r) ==
    /\ at[r] \in {"renameBoard", "readBoard", "createCard", "createEdge"} /\ ~HasBoard(r)
    /\ Proceed(r, "refused")
    /\ UNCHANGED <<boardVars, seen>>

createBoard(r) == Serves(r, "createBoard") /\ NewBoard(r) /\ Proceed(r, "done")

renameBoard(r) ==
    /\ Serves(r, "renameBoard") /\ HasBoard(r)
    /\ NameBoard(r, op[r].item[1])
    /\ Proceed(r, "done")

create(r, does, s) ==
    /\ Serves(r, does) /\ HasBoard(r)
    /\ Create(r, s, op[r].item[1])
    /\ Proceed(r, "done")

\* The sends that have a copy of a card and have not stored it yet.
Sending(i) == {q \in Requests : at[q] = "activate" /\ seen[q].id = i}

\* An update or a delete that finds no such board or item changes nothing.
update(r, does, s) ==
    LET b == op[r].item[1]
        i == op[r].item[2]
        found == IndexOf(s, b, i) # 0
        card  == found /\ s = "card"
    IN  /\ Serves(r, does)
        /\ Store(s, b, Todo(i, r))
        /\ latest' = IF found THEN [latest EXCEPT ![s][i] = r] ELSE latest
        /\ stale' = IF card THEN stale \cup Sending(i) ELSE stale
        /\ undone' = IF card THEN undone \ {i} ELSE undone
        /\ Proceed(r, IF found THEN "done" ELSE "refused")

\* Mutant: no look whether the item is there.
delete_Unchecked(r, does, s) ==
    /\ Serves(r, does)
    /\ Delete(s, op[r].item[1], op[r].item[2])
    /\ Proceed(r, "done")

delete(r, does, s) ==
    LET b == op[r].item[1]
        i == op[r].item[2]
    IN  /\ Serves(r, does)
        /\ \/ /\ IndexOf(s, b, i) # 0
              /\ Delete(s, b, i)
              /\ Proceed(r, "done")
           \/ /\ IndexOf(s, b, i) = 0
              /\ Proceed(r, "refused")
              /\ UNCHANGED boardVars

createCard(r) == create(r, "createCard", "card")
updateCard(r) == update(r, "updateCard", "card")
deleteCard(r) == delete(r, "deleteCard", "card")
createEdge(r) == create(r, "createEdge", "edge")
updateEdge(r) == update(r, "updateEdge", "edge")
deleteEdge(r) == delete(r, "deleteEdge", "edge")

\* send takes a copy of the card ...
sendCard(r) ==
    LET b == op[r].item[1]
        i == op[r].item[2]
        k == IndexOf("card", b, i)
    IN  /\ at[r] = "sendCard"
        /\ \/ /\ k # 0
              /\ Remember(r, array["card"][b][k])
              /\ Proceed(r, "activate")
              /\ stale' = IF i \in undone THEN stale \cup {r} ELSE stale
           \/ k = 0 /\ UNCHANGED <<seen, stale>> /\ Proceed(r, "refused")
        /\ UNCHANGED <<boards, array, count, nextN, latest, deleted, undone>>

\* Mutant: a new card is sent, with the ID only.
Activated_Blank(r) == [Todo(seen[r].id, Original) EXCEPT !.status = "active"]

Activated(r) == [seen[r] EXCEPT !.status = "active"]

\* ... and stores the copy, whatever the card is by then.
activate(r) ==
    LET b == op[r].item[1]
        i == seen[r].id
        written == IF IndexOf("card", b, i) = 0 THEN {} ELSE {i}
    IN  /\ Serves(r, "activate")
        /\ Store("card", b, Activated(r))
        /\ undone' = IF r \in stale THEN undone \cup written ELSE undone \ written
        /\ UNCHANGED <<latest, stale>>
        /\ Proceed(r, "done")

IdList(s, b) == [k \in 1 .. count[s][b] |-> array[s][b][k].id]

\* A read takes the slices, with what they list (ghost) ...
getBoard(r) ==
    LET b == op[r].item[1]
    IN  /\ at[r] = "readBoard" /\ HasBoard(r)
        /\ Remember(r, [listed |-> [s \in Sorts |-> IdList(s, b)], read |-> [s \in Sorts |-> <<>>]])
        /\ Proceed(r, "encode")
        /\ UNCHANGED boardVars

\* ... and encodes one item after the other, cards first, as they are in the
\* arrays by then, the mutex long released.
encode(r) ==
    LET b == op[r].item[1]
        left(s) == Len(seen[r].read[s]) < Len(seen[r].listed[s])
        s == IF left("card") THEN "card" ELSE "edge"
        k == Len(seen[r].read[s]) + 1
    IN  /\ at[r] = "encode"
        /\ \/ /\ left(s)
              /\ Remember(r, [seen[r] EXCEPT !.read[s] = Append(@, array[s][b][k].id)])
              /\ Proceed(r, "encode")
           \/ ~left(s) /\ UNCHANGED seen /\ Proceed(r, "done")
        /\ UNCHANGED boardVars

BoardHandlers(r) ==
    \/ BoardRequest(r) \/ boardMissing(r) \/ createBoard(r) \/ renameBoard(r)
    \/ createCard(r) \/ updateCard(r) \/ deleteCard(r) \/ sendCard(r) \/ activate(r)
    \/ createEdge(r) \/ updateEdge(r) \/ deleteEdge(r)
    \/ getBoard(r) \/ encode(r)

-----------------------------------------------------------------------------
(* Properties.                                                             *)

\* pb/store.go:148 and :175: what was deleted does not come back, as a new card
\* with its ID or because a send that took a copy before the delete stores it.
DeletedStaysDeleted ==
    \A s \in Sorts : \A b \in DOMAIN boards : \A x \in Range(Items(s, b)) :
        x.id \notin deleted[s]

\* pb/handler.go:133-139: a card holds what was written to it last, whatever
\* overlaps.  A send may undo an update, but only one that came between its two
\* steps, or that another send had undone when it took its copy; and the next
\* update, or the end of a send with a good copy, sets the card right.
EditsSurvive ==
    \A s \in Sorts : \A b \in DOMAIN boards : \A x \in Range(Items(s, b)) :
        x.text = latest[s][x.id] \/ (s = "card" /\ x.id \in undone)

\* pb/store.go:105: a reader gets the cards and the edges that the board had
\* when the handler took them, each of them once, whatever is created, updated
\* and sent while they are encoded.  Only the delete of one of them, before or
\* while they are encoded, shifts the slices under the reader.
ReadsOnce ==
    \A r \in Requests : at[r] = "done" /\ op[r].does = "readBoard" =>
        \A s \in Sorts :
            LET listed == seen[r].listed[s]
            IN  deleted[s] \cap Range(listed) = {} =>
                    seen[r].read[s] = listed /\ IsInjective(listed)
=============================================================================
