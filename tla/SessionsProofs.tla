---------------------------- MODULE SessionsProofs ----------------------------
(***************************************************************************)
(* Theorems about Sessions, for any sessions and any number of rows, names,   *)
(* stops and operations.                                                     *)
(***************************************************************************)
EXTENDS Sessions, FiniteSetTheorems, SequenceTheorems, TLAPS

-----------------------------------------------------------------------------
(* The inductive invariant, in parts.                                        *)

RowOps == {"health", "changes", "remove", "push", "pr", "store", "bridge"}

CallRecord ==
    [op : {"none", "create", "poll"} \cup RowOps, sess : Sess \cup {""}, row : 0..MaxRows,
     tree : {NoWorktree} \cup Trees, pr : BOOLEAN]

Ids == 1..Len(rows)

(* A suspended call is about a session or about a row; what it read of the   *)
(* row's session and tree still is in the row.                               *)
Fits(v) ==
    /\ v.op \in {"create", "poll"} => v.sess \in Sess
    /\ v.op \in RowOps => v.row \in Ids /\ v.sess = rows[v.row].sess /\ v.tree = rows[v.row].tree
    /\ v.op \in {"pr", "store", "bridge"} => v.tree # NoWorktree

CallsFit == \A c \in Calls : Fits(call[c])

(* A tree that has a row, deleted or not, is not a name git would take again, *)
(* so no two rows have the same one.                                         *)
TreesAreUsed ==
    /\ \A r \in Ids : rows[r].tree # NoWorktree => trees[rows[r].tree] # "free"
    /\ \A r, q \in Ids : r # q /\ rows[r].tree = rows[q].tree => rows[r].tree = NoWorktree

(* The unique index. *)
SessionsAreUnique == \A r, q \in Live : r # q => rows[r].sess # rows[q].sess

(* There is room for the rows of the calls that create one. *)
RoomIsKept == Len(rows) + Cardinality(Creating) <= MaxRows

SInv ==
    /\ SessionsTypeOK
    /\ CallsFit
    /\ TreesAreUsed
    /\ SessionsAreUnique
    /\ RoomIsKept
    /\ PrsAreLinked

-----------------------------------------------------------------------------
(* What the invariant says of the types, with the names used here. *)
LEMMA Typed ==
  ASSUME SessionsTypeOK
  PROVE  /\ rows \in Seq(Row) /\ Len(rows) \in Nat /\ Len(rows) <= MaxRows /\ MaxRows \in Nat
         /\ \A r \in Ids : rows[r] \in Row
         /\ trees \in [Trees -> {"free", "there", "gone", "removed"}]
         /\ pollers \subseteq Sess
         /\ call \in [Calls -> CallRecord]
         /\ advisory \in BOOLEAN /\ alive \in BOOLEAN
         /\ remotePrs \subseteq Trees /\ lostPrs \subseteq Trees
  <1>1. rows \in Seq(Row)
    BY DEF SessionsTypeOK, Row
  <1>2. Len(rows) \in Nat /\ \A r \in Ids : rows[r] \in Row
    BY <1>1, LenProperties, ElementOfSeq DEF Ids
  <1> QED BY <1>1, <1>2, SessionBounds DEF SessionsTypeOK, CallRecord, RowOps

LEMMA TypedBack ==
  ASSUME rows \in Seq(Row), Len(rows) <= MaxRows,
         trees \in [Trees -> {"free", "there", "gone", "removed"}],
         pollers \subseteq Sess, call \in [Calls -> CallRecord],
         advisory \in BOOLEAN, alive \in BOOLEAN, remotePrs \subseteq Trees, lostPrs \subseteq Trees
  PROVE  SessionsTypeOK
  BY DEF SessionsTypeOK, Row, CallRecord, RowOps

LEMMA NoCallTyped == NoCall \in CallRecord
  <1>1. 0 \in 0..MaxRows
    BY SessionBounds
  <1> QED BY <1>1 DEF NoCall, CallRecord

LEMMA SessionsStart == SessionsInit => SInv
  <1> SUFFICES ASSUME SessionsInit PROVE SInv
    OBVIOUS
  <1>1. rows = <<>> /\ Len(rows) = 0 /\ rows \in Seq(Row) /\ Live = {} /\ Ids = {} /\ remotePrs = {}
    BY EmptySeq DEF SessionsInit, Live, Ids
  <1>2. call \in [Calls -> CallRecord] /\ \A c \in Calls : call[c].op = "none"
    BY NoCallTyped DEF SessionsInit, NoCall
  <1>3. Creating = {}
    BY <1>2 DEF Creating
  <1>4. SessionsTypeOK
    <2>1. trees \in [Trees -> {"free", "there", "gone", "removed"}] /\ Len(rows) <= MaxRows
      BY <1>1, SessionBounds DEF SessionsInit
    <2> QED BY <1>1, <1>2, <2>1, TypedBack DEF SessionsInit
  <1>5. CallsFit
    BY <1>2 DEF CallsFit, Fits, RowOps
  <1>6. RoomIsKept
    BY <1>1, <1>3, FS_EmptySet, SessionBounds DEF RoomIsKept
  <1> QED BY <1>1, <1>4, <1>5, <1>6 DEF SInv, TreesAreUsed, SessionsAreUnique, PrsAreLinked

LEMMA CallsAreFinite == \A S \in SUBSET Calls : IsFiniteSet(S) /\ Cardinality(S) \in Nat
  <1>1. IsFiniteSet({1} \cup {2})
    BY FS_Singleton, FS_AddElement
  <1>2. Calls = {1} \cup {2}
    BY DEF Calls
  <1> QED BY <1>1, <1>2, FS_Subset, FS_CardinalityType

(* How the number of calls that create changes with one call. *)
LEMMA CreatingChanges ==
  ASSUME NEW c \in Calls, call \in [Calls -> CallRecord], NEW v \in CallRecord,
         call' = [call EXCEPT ![c] = v]
  PROVE  /\ Cardinality(Creating) \in Nat /\ Cardinality(Creating)' \in Nat
         /\ v.op # "create" => Cardinality(Creating)' <= Cardinality(Creating)
         /\ call[c].op = "create" => Cardinality(Creating)' <= Cardinality(Creating)
         /\ Cardinality(Creating)' <= Cardinality(Creating) + 1
         /\ call[c].op = "create" /\ v.op # "create" =>
                Cardinality(Creating)' + 1 <= Cardinality(Creating)
  <1>1. Creating \in SUBSET Calls /\ Creating' \in SUBSET Calls
    BY DEF Creating
  <1>2. \A d \in Calls : call'[d] = IF d = c THEN v ELSE call[d]
    OBVIOUS
  <1>3. CASE v.op = "create"
    <2>1. Creating' = Creating \cup {c}
      BY <1>2, <1>3 DEF Creating
    <2>2. call[c].op = "create" <=> c \in Creating
      BY DEF Creating
    <2> QED BY <1>1, <1>3, <2>1, <2>2, CallsAreFinite, FS_AddElement
  <1>4. CASE v.op # "create"
    <2>1. Creating' = Creating \ {c}
      BY <1>2, <1>4 DEF Creating
    <2>2. call[c].op = "create" <=> c \in Creating
      BY DEF Creating
    <2> QED BY <1>1, <1>4, <2>1, <2>2, CallsAreFinite, FS_RemoveElement
  <1> QED BY <1>3, <1>4

-----------------------------------------------------------------------------
(* A step of one call that at most updates rows.                             *)

(* The rows are those there were: their sessions and trees stay, none comes   *)
(* back to life, none loses its pull request.                                *)
RowsStay ==
    /\ rows' \in Seq(Row) /\ Len(rows') = Len(rows)
    /\ \A r \in Ids :
          /\ rows'[r].sess = rows[r].sess /\ rows'[r].tree = rows[r].tree
          /\ rows'[r].live => rows[r].live
          /\ rows[r].pr => rows'[r].pr

(* No tree's name becomes free. *)
TreesStay ==
    /\ trees' \in [Trees -> {"free", "there", "gone", "removed"}]
    /\ \A t \in Trees : trees[t] # "free" => trees'[t] # "free"

LEMMA RowsStayUsed ==
  ASSUME SInv, RowsStay, TreesStay
  PROVE  /\ TreesAreUsed' /\ SessionsAreUnique'
         /\ Ids' = Ids
         /\ \A v \in CallRecord : Fits(v) => Fits(v)'
  <1>1. Ids' = Ids
    BY DEF Ids, RowsStay
  <1>2. \A r \in Ids : rows[r] \in Row
    BY Typed DEF SInv
  <1>3. TreesAreUsed'
    BY <1>1, <1>2 DEF SInv, TreesAreUsed, RowsStay, TreesStay, Row
  <1>4. Live' \subseteq Live
    BY <1>1 DEF Live, RowsStay, Ids
  <1>5. Live \subseteq Ids
    BY DEF Live, Ids
  <1>6. SessionsAreUnique'
    BY <1>4, <1>5 DEF SInv, SessionsAreUnique, RowsStay
  <1>7. ASSUME NEW v \in CallRecord, Fits(v) PROVE Fits(v)'
    BY <1>1, <1>7 DEF Fits, RowsStay
  <1> QED BY <1>1, <1>3, <1>6, <1>7

LEMMA CallKeeps ==
  ASSUME SInv, NEW c \in Calls, NEW v \in CallRecord, call' = [call EXCEPT ![c] = v],
         RowsStay, TreesStay, Fits(v),
         pollers' \subseteq Sess, advisory' \in BOOLEAN, alive' \in BOOLEAN,
         lostPrs' \subseteq Trees, lostPrs \subseteq lostPrs',
         remotePrs' \subseteq Trees,
         \A t \in remotePrs' \ remotePrs : v.op = "store" /\ v.tree = t,
         call[c].op = "store" =>
             \/ v.op = "store" /\ v.tree = call[c].tree
             \/ call[c].tree \in lostPrs'
             \/ rows'[call[c].row].pr,
         v.op = "create" => call[c].op = "create" \/ RoomForRow
  PROVE  SInv'
  <1>1. /\ call \in [Calls -> CallRecord] /\ call' \in [Calls -> CallRecord]
        /\ \A d \in Calls : call'[d] = IF d = c THEN v ELSE call[d]
        /\ Len(rows) \in Nat /\ Len(rows) <= MaxRows /\ MaxRows \in Nat
    BY Typed DEF SInv
  <1>2. SessionsTypeOK'
    BY <1>1 DEF RowsStay, TreesStay, SessionsTypeOK, Row, CallRecord, RowOps
  <1>3. CallsFit'
    BY <1>1, RowsStayUsed DEF SInv, CallsFit
  <1>4. RoomIsKept'
    <2>1. Len(rows) + Cardinality(Creating) <= MaxRows /\ Len(rows') = Len(rows)
      BY DEF SInv, RoomIsKept, RowsStay
    <2>2. v.op = "create" => call[c].op = "create" \/ Len(rows) + Cardinality(Creating) < MaxRows
      BY DEF RoomForRow
    <2>3. Len(rows') + Cardinality(Creating)' <= MaxRows
      <3>1. /\ Cardinality(Creating) \in Nat /\ Cardinality(Creating)' \in Nat
            /\ v.op # "create" => Cardinality(Creating)' <= Cardinality(Creating)
            /\ call[c].op = "create" => Cardinality(Creating)' <= Cardinality(Creating)
            /\ Cardinality(Creating)' <= Cardinality(Creating) + 1
        BY <1>1, CreatingChanges
      <3> QED BY <1>1, <2>1, <2>2, <3>1
    <2> QED BY <2>3 DEF RoomIsKept
  <1>5. PrsAreLinked'
    <2> SUFFICES ASSUME NEW t \in remotePrs' \ lostPrs'
                 PROVE  \/ \E d \in Calls : call'[d].op = "store" /\ call'[d].tree = t
                        \/ \E r \in Ids' : rows'[r].tree = t /\ rows'[r].pr
      BY DEF PrsAreLinked, Ids
    <2>1. CASE t \notin remotePrs
      BY <1>1, <2>1
    <2>2. CASE t \in remotePrs /\ \E r \in Ids : rows[r].tree = t /\ rows[r].pr
      BY <2>2, RowsStayUsed DEF RowsStay
    <2>3. CASE \E d \in Calls : call[d].op = "store" /\ call[d].tree = t
      <3>1. PICK d \in Calls : call[d].op = "store" /\ call[d].tree = t
        BY <2>3
      <3>2. CASE d # c
        BY <1>1, <3>1, <3>2
      <3>3. CASE d = c /\ rows'[call[c].row].pr
        <4>1. call[c].row \in Ids /\ rows[call[c].row].tree = t
          BY <3>1, <3>3 DEF SInv, CallsFit, Fits, RowOps
        <4> QED BY <3>3, <4>1, RowsStayUsed DEF RowsStay
      <3>4. CASE d = c /\ v.op = "store" /\ v.tree = call[c].tree
        BY <1>1, <3>1, <3>4
      <3> QED BY <3>1, <3>2, <3>3, <3>4
    <2> QED BY <2>1, <2>2, <2>3 DEF SInv, PrsAreLinked, Ids
  <1> QED BY <1>2, <1>3, <1>4, <1>5, RowsStayUsed DEF SInv

-----------------------------------------------------------------------------
(* A row is added for a session that has none, with a tree whose name was     *)
(* free, or with none.                                                       *)
LEMMA InsertKeeps ==
  ASSUME SInv, NEW c \in Calls, call[c].op = "create", ~Taken(call[c].sess),
         NEW t \in {NoWorktree} \cup Trees, NEW s \in {"active", "broken"},
         Insert(call[c].sess, t, s), Return(c), TreesStay,
         t # NoWorktree => trees[t] = "free" /\ trees'[t] # "free",
         pollers' \subseteq Sess, UNCHANGED <<advisory, alive, remotePrs, lostPrs>>
  PROVE  SInv'
  <1> DEFINE row == [sess |-> call[c].sess, tree |-> t, status |-> s, live |-> TRUE, pr |-> FALSE]
  <1>1. /\ rows \in Seq(Row) /\ Len(rows) \in Nat /\ MaxRows \in Nat
        /\ \A r \in Ids : rows[r] \in Row
        /\ call \in [Calls -> CallRecord]
    BY Typed DEF SInv
  <1>2. call[c].sess \in Sess
    BY DEF SInv, CallsFit, Fits
  <1>3. row \in Row /\ row.sess = call[c].sess /\ row.tree = t /\ rows' = Append(rows, row)
    BY <1>2 DEF Row, Insert
  <1> HIDE DEF row
  <1>4. /\ rows' \in Seq(Row) /\ Len(rows') = Len(rows) + 1
        /\ \A i \in Ids : rows'[i] = rows[i]
        /\ rows'[Len(rows) + 1] = row
    BY <1>1, <1>3, AppendProperties DEF Ids
  <1>5. Ids' = Ids \cup {Len(rows) + 1} /\ Len(rows) + 1 \notin Ids
    BY <1>1, <1>4 DEF Ids
  <1>6. /\ call' \in [Calls -> CallRecord] /\ call' = [call EXCEPT ![c] = NoCall] /\ NoCall.op = "none"
        /\ \A d \in Calls : call'[d] = IF d = c THEN NoCall ELSE call[d]
    BY <1>1, NoCallTyped DEF Return, NoCall
  <1>7. RoomIsKept'
    <2>1. /\ Cardinality(Creating) \in Nat /\ Cardinality(Creating)' \in Nat
          /\ Cardinality(Creating)' + 1 <= Cardinality(Creating)
      BY <1>1, <1>6, NoCallTyped, CreatingChanges
    <2>2. Len(rows') + Cardinality(Creating)' <= MaxRows
      BY <1>1, <1>4, <2>1 DEF SInv, RoomIsKept
    <2> QED BY <2>2 DEF RoomIsKept
  <1>8. SessionsTypeOK'
    <2>1. Len(rows') <= MaxRows
      <3>1. Cardinality(Creating)' \in Nat
        BY <1>1, <1>6, NoCallTyped, CreatingChanges
      <3> QED BY <1>1, <1>4, <1>7, <3>1 DEF RoomIsKept
    <2>2. advisory \in BOOLEAN /\ alive \in BOOLEAN /\ remotePrs \subseteq Trees /\ lostPrs \subseteq Trees
      BY Typed DEF SInv
    <2> QED BY <1>4, <1>6, <2>1, <2>2 DEF TreesStay, SessionsTypeOK, Row, CallRecord, RowOps
  <1>9. CallsFit'
    <2> SUFFICES ASSUME NEW d \in Calls PROVE Fits(call[d])'
      BY DEF CallsFit
    <2>1. CASE d = c
      BY <1>6, <2>1 DEF Fits, RowOps
    <2>2. CASE d # c
      <3>1. call'[d] = call[d] /\ Fits(call[d])
        BY <1>6, <2>2 DEF SInv, CallsFit
      <3> QED BY <1>4, <1>5, <3>1 DEF Fits
    <2> QED BY <2>1, <2>2
  <1>10. TreesAreUsed'
    <2>1. \A r \in Ids : rows[r].tree # NoWorktree => rows[r].tree \in Trees /\ trees[rows[r].tree] # "free"
      BY <1>1 DEF SInv, TreesAreUsed, Row
    <2>2. \A r \in Ids' : rows'[r].tree # NoWorktree => trees'[rows'[r].tree] # "free"
      BY <1>3, <1>4, <1>5, <2>1 DEF TreesStay
    <2>3. \A r, q \in Ids' : r # q /\ rows'[r].tree = rows'[q].tree => rows'[r].tree = NoWorktree
      <3>1. \A r \in Ids : rows[r].tree = t => t = NoWorktree
        BY <2>1
      <3>2. \A r, q \in Ids : r # q /\ rows[r].tree = rows[q].tree => rows[r].tree = NoWorktree
        BY DEF SInv, TreesAreUsed
      <3> SUFFICES ASSUME NEW r \in Ids', NEW q \in Ids', r # q, rows'[r].tree = rows'[q].tree
                   PROVE  rows'[r].tree = NoWorktree
        OBVIOUS
      <3>3. CASE r \in Ids /\ q \in Ids
        BY <1>4, <3>2, <3>3
      <3>4. CASE r \in Ids /\ q = Len(rows) + 1
        BY <1>3, <1>4, <3>1, <3>4
      <3>5. CASE q \in Ids /\ r = Len(rows) + 1
        BY <1>3, <1>4, <3>1, <3>5
      <3> QED BY <1>5, <3>3, <3>4, <3>5
    <2> QED BY <2>2, <2>3 DEF TreesAreUsed
  <1>11. SessionsAreUnique'
    <2>1. /\ Live' \subseteq Live \cup {Len(rows) + 1} /\ Live \subseteq Ids
      BY <1>4, <1>5 DEF Live, Ids
    <2>2. \A r \in Live : rows[r].sess # call[c].sess
      BY DEF Taken, RowOf
    <2> SUFFICES ASSUME NEW r \in Live', NEW q \in Live', r # q PROVE rows'[r].sess # rows'[q].sess
      BY DEF SessionsAreUnique
    <2>3. CASE r \in Live /\ q \in Live
      BY <1>4, <2>1, <2>3 DEF SInv, SessionsAreUnique
    <2>4. CASE r \in Live /\ q = Len(rows) + 1
      BY <1>3, <1>4, <2>1, <2>2, <2>4
    <2>5. CASE q \in Live /\ r = Len(rows) + 1
      BY <1>3, <1>4, <2>1, <2>2, <2>5
    <2> QED BY <2>1, <2>3, <2>4, <2>5
  <1>12. PrsAreLinked'
    BY <1>4, <1>5, <1>6 DEF SInv, PrsAreLinked, Ids
  <1> QED BY <1>7, <1>8, <1>9, <1>10, <1>11, <1>12 DEF SInv

(* The process ends and takes its calls along. *)
LEMMA FatalKeeps ==
  ASSUME SInv, Fatal, TreesStay, UNCHANGED <<rows, remotePrs>>, advisory' \in BOOLEAN
  PROVE  SInv'
  <1>1. /\ rows \in Seq(Row) /\ Len(rows) \in Nat /\ Len(rows) <= MaxRows /\ MaxRows \in Nat
        /\ call \in [Calls -> CallRecord]
        /\ remotePrs \subseteq Trees /\ lostPrs \subseteq Trees
    BY Typed DEF SInv
  <1>2. RowsStay
    BY <1>1 DEF RowsStay
  <1>3. /\ call' \in [Calls -> CallRecord] /\ \A c \in Calls : call'[c] = NoCall
        /\ NoCall.op = "none"
    BY NoCallTyped DEF Fatal, NoCall
  <1>4. lostPrs' \subseteq Trees
    <2>1. \A c \in Calls : call[c].op = "store" => call[c].tree \in Trees
      BY <1>1 DEF SInv, CallsFit, Fits, CallRecord
    <2> QED BY <1>1, <2>1 DEF Fatal
  <1>5. SessionsTypeOK'
    BY <1>1, <1>3, <1>4 DEF Fatal, TreesStay, SessionsTypeOK, Row, CallRecord, RowOps
  <1>6. CallsFit'
    BY <1>3 DEF CallsFit, Fits, RowOps
  <1>7. RoomIsKept'
    <2>1. Creating' = {}
      BY <1>3 DEF Creating
    <2> QED BY <1>1, <2>1, FS_EmptySet DEF RoomIsKept
  <1>8. PrsAreLinked'
    BY DEF SInv, PrsAreLinked, Fatal
  <1> QED BY <1>2, <1>5, <1>6, <1>7, <1>8, RowsStayUsed DEF SInv

-----------------------------------------------------------------------------
(* The steps.                                                                *)
LEMMA NothingMoves ==
  ASSUME SInv
  PROVE  /\ UNCHANGED rows => RowsStay
         /\ UNCHANGED trees => TreesStay
  BY Typed DEF SInv, RowsStay, TreesStay

(* A call ends; the tree of a pull request whose number is not stored is noted. *)
LEMMA ReturnKeeps ==
  ASSUME SInv, NEW c \in Calls, Return(c), UNCHANGED <<rows, trees, pollers, advisory, alive, remotePrs>>,
         lostPrs' \subseteq Trees, lostPrs \subseteq lostPrs', call[c].op = "store" => call[c].tree \in lostPrs'
  PROVE  SInv'
  <1>1. NoCall \in CallRecord /\ call' = [call EXCEPT ![c] = NoCall] /\ NoCall.op = "none"
    BY NoCallTyped DEF Return, NoCall
  <1>2. Fits(NoCall)
    BY <1>1 DEF Fits, RowOps
  <1>3. RowsStay /\ TreesStay
    BY NothingMoves
  <1>4. pollers \subseteq Sess /\ advisory \in BOOLEAN /\ alive \in BOOLEAN /\ remotePrs \subseteq Trees
    BY Typed DEF SInv
  <1> QED BY <1>1, <1>2, <1>3, <1>4, CallKeeps

(* A call goes on to wait for something else. *)
LEMMA SuspendKeeps ==
  ASSUME SInv, NEW c \in Calls, NEW v \in CallRecord, call' = [call EXCEPT ![c] = v],
         call[c].op # "store", UNCHANGED <<rows, trees, pollers, advisory, alive, lostPrs>>,
         Fits(v), v.op = "create" => RoomForRow,
         remotePrs' \subseteq Trees,
         \A u \in remotePrs' \ remotePrs : v.op = "store" /\ v.tree = u
  PROVE  SInv'
  <1>1. RowsStay /\ TreesStay
    BY NothingMoves
  <1>2. pollers \subseteq Sess /\ advisory \in BOOLEAN /\ alive \in BOOLEAN /\ lostPrs \subseteq Trees
    BY Typed DEF SInv
  <1> QED BY <1>1, <1>2, CallKeeps

(* What the invariant says of a call about a row. *)
LEMMA RowCall ==
  ASSUME SInv, NEW c \in Calls
  PROVE  /\ call[c] \in CallRecord
         /\ call[c].row \in 0..MaxRows /\ call[c].tree \in {NoWorktree} \cup Trees
         /\ call[c].op \in RowOps =>
                /\ call[c].row \in Ids /\ rows[call[c].row] \in Row /\ call[c].sess \in Sess
                /\ call[c].sess = rows[call[c].row].sess /\ call[c].tree = rows[call[c].row].tree
         /\ call[c].op \in {"create", "poll"} => call[c].sess \in Sess
         /\ call[c].op \in {"pr", "store", "bridge"} => call[c].tree # NoWorktree
  <1>1. call[c] \in CallRecord /\ Fits(call[c]) /\ \A r \in Ids : rows[r] \in Row
    BY Typed DEF SInv, CallsFit
  <1> QED BY <1>1 DEF Fits, CallRecord, Row

LEMMA EventsKeep ==
  ASSUME SInv, NEW c \in Calls, NEW s \in Sess, FileEvent(s, c) \/ PollFires(s, c)
  PROVE  SInv'
  <1>1. /\ 0 \in 0..MaxRows /\ remotePrs \subseteq Trees
    BY Typed DEF SInv
  <1>2. UNCHANGED <<rows, trees, pollers, advisory, alive, lostPrs, remotePrs>> /\ call[c].op # "store"
    <2>1. call[c] = NoCall /\ NoCall.op = "none"
      BY DEF FileEvent, PollFires, NoCall
    <2>2. UNCHANGED <<rows, trees, pollers, advisory, alive, lostPrs, remotePrs>>
      BY DEF FileEvent, PollFires
    <2> QED BY <2>1, <2>2
  <1>3. CASE FileEvent(s, c)
    <2>1. Suspend(c, "create", s, 0, NoWorktree, FALSE) /\ RoomForRow
      BY <1>3 DEF FileEvent
    <2> DEFINE v == [op |-> "create", sess |-> s, row |-> 0, tree |-> NoWorktree, pr |-> FALSE]
    <2>2. /\ v \in CallRecord /\ call' = [call EXCEPT ![c] = v]
          /\ v.op = "create" /\ v.sess = s /\ v.row = 0 /\ v.tree = NoWorktree
      BY <1>1, <2>1 DEF Suspend, CallRecord, RowOps
    <2> HIDE DEF v
    <2>3. Fits(v)
      BY <2>2 DEF Fits, RowOps
    <2> QED BY <1>1, <1>2, <2>1, <2>2, <2>3, SuspendKeeps
  <1>4. CASE PollFires(s, c)
    <2>1. Suspend(c, "poll", s, 0, NoWorktree, FALSE)
      BY <1>4 DEF PollFires
    <2> DEFINE v == [op |-> "poll", sess |-> s, row |-> 0, tree |-> NoWorktree, pr |-> FALSE]
    <2>2. /\ v \in CallRecord /\ call' = [call EXCEPT ![c] = v]
          /\ v.op = "poll" /\ v.sess = s /\ v.row = 0 /\ v.tree = NoWorktree
      BY <1>1, <2>1 DEF Suspend, CallRecord, RowOps
    <2> HIDE DEF v
    <2>3. Fits(v)
      BY <2>2 DEF Fits, RowOps
    <2> QED BY <1>1, <1>2, <2>2, <2>3, SuspendKeeps
  <1> QED BY <1>3, <1>4

LEMMA OperationsKeep ==
  ASSUME SInv, NEW c \in Calls, NEW r \in 1..MaxRows,
         ResumeStarts(r, c) \/ DeleteStarts(r, c) \/ CloseStarts(r, c)
  PROVE  SInv'
  <1>1. r \in Live /\ r \in Ids /\ r \in 0..MaxRows /\ rows[r] \in Row /\ remotePrs \subseteq Trees
    <2>1. r \in Live
      BY DEF ResumeStarts, DeleteStarts, CloseStarts
    <2>2. r \in Ids /\ r \in 0..MaxRows
      BY <2>1 DEF Live, Ids
    <2> QED BY <2>1, <2>2, Typed DEF SInv
  <1>2. rows[r].sess \in Sess /\ rows[r].tree \in {NoWorktree} \cup Trees /\ rows[r].pr \in BOOLEAN
    BY <1>1 DEF Row
  <1>3. UNCHANGED <<rows, trees, pollers, advisory, alive, lostPrs, remotePrs>> /\ call[c].op # "store"
    <2>1. call[c] = NoCall /\ NoCall.op = "none"
      BY DEF ResumeStarts, DeleteStarts, CloseStarts, Operation, NoCall
    <2>2. UNCHANGED <<rows, trees, pollers, advisory, alive, lostPrs, remotePrs>>
      BY DEF ResumeStarts, DeleteStarts, CloseStarts
    <2> QED BY <2>1, <2>2
  <1>4. \E op \in {"health", "changes", "remove", "push"}, pr \in BOOLEAN :
           Suspend(c, op, rows[r].sess, r, rows[r].tree, pr)
    BY <1>2 DEF ResumeStarts, DeleteStarts, CloseStarts
  <1>5. PICK op \in {"health", "changes", "remove", "push"}, pr \in BOOLEAN :
           Suspend(c, op, rows[r].sess, r, rows[r].tree, pr)
    BY <1>4
  <1> DEFINE v == [op |-> op, sess |-> rows[r].sess, row |-> r, tree |-> rows[r].tree, pr |-> pr]
  <1>6. /\ v \in CallRecord /\ call' = [call EXCEPT ![c] = v]
        /\ v.op = op /\ v.sess = rows[r].sess /\ v.row = r /\ v.tree = rows[r].tree
    BY <1>1, <1>2, <1>5 DEF Suspend, CallRecord, RowOps
  <1> HIDE DEF v
  <1>7. Fits(v)
    BY <1>1, <1>5, <1>6 DEF Fits
  <1> QED BY <1>1, <1>3, <1>5, <1>6, <1>7, SuspendKeeps

LEMMA MiddleStepsKeep ==
  ASSUME SInv, NEW c \in Calls,
         ChangesPolled(c) \/ ChangesChecked(c) \/ Pushed(c) \/ PrMade(c) \/ AnswerLost(c) \/ CloseEnds(c)
  PROVE  SInv'
  <1>1. remotePrs \subseteq Trees /\ lostPrs \subseteq Trees /\ 0 \in 0..MaxRows
    BY Typed DEF SInv
  <1>2. UNCHANGED <<rows, trees, pollers, advisory, alive>>
    BY DEF ChangesPolled, ChangesChecked, Pushed, PrMade, AnswerLost, CloseEnds
  <1>3. CASE ChangesPolled(c)
    <2>1. call[c].op = "poll" /\ UNCHANGED <<remotePrs, lostPrs>> /\ call[c].sess \in Sess
      BY <1>3, RowCall DEF ChangesPolled
    <2>2. CASE Return(c)
      BY <1>1, <1>2, <2>1, <2>2, ReturnKeeps
    <2>3. CASE RoomForRow /\ Suspend(c, "create", call[c].sess, 0, NoWorktree, FALSE)
      <3> DEFINE v == [op |-> "create", sess |-> call[c].sess, row |-> 0, tree |-> NoWorktree, pr |-> FALSE]
      <3>1. /\ v \in CallRecord /\ call' = [call EXCEPT ![c] = v]
            /\ v.op = "create" /\ v.sess = call[c].sess /\ v.row = 0 /\ v.tree = NoWorktree
        BY <1>1, <2>1, <2>3 DEF Suspend, CallRecord, RowOps
      <3> HIDE DEF v
      <3>2. Fits(v)
        BY <2>1, <3>1 DEF Fits, RowOps
      <3> QED BY <1>1, <1>2, <2>1, <2>3, <3>1, <3>2, SuspendKeeps
    <2> QED BY <1>3, <2>2, <2>3 DEF ChangesPolled
  <1>4. CASE ChangesChecked(c)
    <2>1. call[c].op = "changes" /\ UNCHANGED <<remotePrs, lostPrs>>
      BY <1>4 DEF ChangesChecked
    <2>2. CASE Return(c)
      BY <1>1, <1>2, <2>1, <2>2, ReturnKeeps
    <2>3. CASE Suspend(c, "remove", call[c].sess, call[c].row, call[c].tree, FALSE)
      <3>1. /\ call[c].row \in Ids /\ call[c].row \in 0..MaxRows /\ call[c].sess \in Sess
            /\ call[c].tree \in {NoWorktree} \cup Trees
            /\ call[c].sess = rows[call[c].row].sess /\ call[c].tree = rows[call[c].row].tree
        BY <2>1, RowCall DEF RowOps
      <3> DEFINE v == [op |-> "remove", sess |-> call[c].sess, row |-> call[c].row, tree |-> call[c].tree, pr |-> FALSE]
      <3>2. /\ v \in CallRecord /\ call' = [call EXCEPT ![c] = v]
            /\ v.op = "remove" /\ v.sess = call[c].sess /\ v.row = call[c].row /\ v.tree = call[c].tree
        BY <2>3, <3>1 DEF Suspend, CallRecord, RowOps
      <3> HIDE DEF v
      <3>3. Fits(v)
        BY <2>1, <3>1, <3>2 DEF Fits
      <3> QED BY <1>1, <1>2, <2>1, <3>2, <3>3, SuspendKeeps
    <2> QED BY <1>4, <2>2, <2>3 DEF ChangesChecked
  <1>5. CASE Pushed(c)
    <2>1. call[c].op = "push" /\ UNCHANGED <<remotePrs, lostPrs>>
      BY <1>5 DEF Pushed
    <2>2. CASE Return(c)
      BY <1>1, <1>2, <2>1, <2>2, ReturnKeeps
    <2>3. CASE call[c].tree # NoWorktree /\ Suspend(c, "pr", call[c].sess, call[c].row, call[c].tree, FALSE)
      <3>1. /\ call[c].row \in Ids /\ call[c].row \in 0..MaxRows /\ call[c].sess \in Sess
            /\ call[c].tree \in {NoWorktree} \cup Trees
            /\ call[c].sess = rows[call[c].row].sess /\ call[c].tree = rows[call[c].row].tree
        BY <2>1, RowCall DEF RowOps
      <3> DEFINE v == [op |-> "pr", sess |-> call[c].sess, row |-> call[c].row, tree |-> call[c].tree, pr |-> FALSE]
      <3>2. /\ v \in CallRecord /\ call' = [call EXCEPT ![c] = v]
            /\ v.op = "pr" /\ v.sess = call[c].sess /\ v.row = call[c].row /\ v.tree = call[c].tree
        BY <2>3, <3>1 DEF Suspend, CallRecord, RowOps
      <3> HIDE DEF v
      <3>3. Fits(v)
        BY <2>1, <2>3, <3>1, <3>2 DEF Fits
      <3> QED BY <1>1, <1>2, <2>1, <3>2, <3>3, SuspendKeeps
    <2> QED BY <1>5, <2>2, <2>3 DEF Pushed
  <1>6. CASE PrMade(c)
    <2>1. /\ call[c].op = "pr" /\ UNCHANGED lostPrs /\ call[c].tree \in Trees
          /\ remotePrs' = remotePrs \cup {call[c].tree}
          /\ Suspend(c, "store", call[c].sess, call[c].row, call[c].tree, FALSE)
      BY <1>6, RowCall DEF PrMade
    <2>2. remotePrs' \subseteq Trees /\ \A u \in remotePrs' \ remotePrs : u = call[c].tree
      BY <1>1, <2>1
    <2>3. /\ call[c].row \in Ids /\ call[c].row \in 0..MaxRows /\ call[c].sess \in Sess
          /\ call[c].tree \in {NoWorktree} \cup Trees /\ call[c].tree # NoWorktree
          /\ call[c].sess = rows[call[c].row].sess /\ call[c].tree = rows[call[c].row].tree
      BY <2>1, RowCall DEF RowOps
    <2> DEFINE v == [op |-> "store", sess |-> call[c].sess, row |-> call[c].row, tree |-> call[c].tree, pr |-> FALSE]
    <2>4. /\ v \in CallRecord /\ call' = [call EXCEPT ![c] = v]
          /\ v.op = "store" /\ v.sess = call[c].sess /\ v.row = call[c].row /\ v.tree = call[c].tree
      BY <2>1, <2>3 DEF Suspend, CallRecord, RowOps
    <2> HIDE DEF v
    <2>5. Fits(v)
      BY <2>3, <2>4 DEF Fits
    <2> QED BY <1>2, <2>1, <2>2, <2>4, <2>5, SuspendKeeps
  <1>7. CASE AnswerLost(c)
    <2>1. /\ call[c].op = "store" /\ lostPrs' = lostPrs \cup {call[c].tree} /\ UNCHANGED remotePrs
          /\ Return(c) /\ call[c].tree \in Trees
      BY <1>7, RowCall DEF AnswerLost
    <2> QED BY <1>1, <1>2, <2>1, ReturnKeeps
  <1>8. CASE CloseEnds(c)
    BY <1>1, <1>2, <1>8, ReturnKeeps DEF CloseEnds
  <1> QED BY <1>3, <1>4, <1>5, <1>6, <1>7, <1>8

LEMMA RowSet ==
  ASSUME SInv, NEW r \in Ids, NEW w \in Row, rows' = [rows EXCEPT ![r] = w],
         w.sess = rows[r].sess, w.tree = rows[r].tree, w.live => rows[r].live, rows[r].pr => w.pr
  PROVE  RowsStay /\ rows'[r] = w
  <1>1. rows \in Seq(Row) /\ Len(rows) \in Nat
    BY Typed DEF SInv
  <1>2. /\ rows' \in Seq(Row) /\ Len(rows') = Len(rows)
        /\ \A i \in Ids : rows'[i] = IF i = r THEN w ELSE rows[i]
    BY <1>1, ExceptSeq DEF Ids
  <1> QED BY <1>2 DEF RowsStay

LEMMA CreationsKeep ==
  ASSUME SInv, NEW c \in Calls, WorktreeCreated(c) \/ WorktreeFails(c)
  PROVE  SInv'
  <1>1. /\ trees \in [Trees -> {"free", "there", "gone", "removed"}] /\ pollers \subseteq Sess
        /\ advisory \in BOOLEAN
    BY Typed DEF SInv
  <1>2. call[c].op = "create" /\ call[c].sess \in Sess /\ UNCHANGED <<advisory, remotePrs>>
    BY RowCall DEF WorktreeCreated, WorktreeFails
  <1>3. CASE WorktreeCreated(c)
    <2>1. PICK t \in Trees :
             /\ trees[t] = "free" /\ trees' = [trees EXCEPT ![t] = "there"]
             /\ IF Taken(call[c].sess)
                THEN Fatal /\ UNCHANGED rows
                ELSE /\ Insert(call[c].sess, t, "active")
                     /\ pollers' = pollers \cup {call[c].sess}
                     /\ Return(c)
                     /\ UNCHANGED <<alive, lostPrs>>
      BY <1>3 DEF WorktreeCreated
    <2>2. TreesStay /\ trees'[t] # "free"
      BY <1>1, <2>1 DEF TreesStay
    <2>3. CASE Taken(call[c].sess)
      BY <1>1, <1>2, <2>1, <2>2, <2>3, FatalKeeps
    <2>4. CASE ~Taken(call[c].sess)
      BY <1>1, <1>2, <2>1, <2>2, <2>4, InsertKeeps
    <2> QED BY <2>3, <2>4
  <1>4. CASE WorktreeFails(c)
    <2>1. TreesStay
      BY <1>4, NothingMoves DEF WorktreeFails
    <2>2. CASE Taken(call[c].sess)
      BY <1>1, <1>2, <1>4, <2>1, <2>2, FatalKeeps DEF WorktreeFails
    <2>3. CASE ~Taken(call[c].sess)
      BY <1>1, <1>2, <1>4, <2>1, <2>3, InsertKeeps DEF WorktreeFails
    <2> QED BY <2>2, <2>3
  <1> QED BY <1>3, <1>4

(* The steps that update the row a call is about. *)
LEMMA UpdatesKeep ==
  ASSUME SInv, NEW c \in Calls, Resumed(c) \/ Deleted(c) \/ PrStored(c)
  PROVE  SInv'
  <1> DEFINE r == call[c].row
  <1>1. call[c].op \in {"health", "remove", "store"}
    BY DEF Resumed, Deleted, PrStored
  <1>2. /\ r \in Ids /\ r \in 0..MaxRows /\ rows[r] \in Row /\ call[c].sess \in Sess
        /\ call[c].tree \in {NoWorktree} \cup Trees
        /\ call[c].sess = rows[r].sess /\ call[c].tree = rows[r].tree
        /\ call[c].op = "store" => call[c].tree # NoWorktree
    BY <1>1, RowCall DEF RowOps
  <1> HIDE DEF r
  <1>3. /\ trees \in [Trees -> {"free", "there", "gone", "removed"}]
        /\ pollers \subseteq Sess /\ advisory \in BOOLEAN /\ alive \in BOOLEAN
        /\ remotePrs \subseteq Trees /\ lostPrs \subseteq Trees
    BY Typed DEF SInv
  <1>4. UNCHANGED <<advisory, alive, remotePrs, lostPrs>>
    BY DEF Resumed, Deleted, PrStored
  <1>5. NoCall \in CallRecord /\ NoCall.op = "none" /\ Fits(NoCall)
    BY NoCallTyped DEF NoCall, Fits, RowOps
  <1>6. CASE Resumed(c)
    <2>1. PICK status \in {"active", "broken"} : rows' = [rows EXCEPT ![r].status = status]
      BY <1>6 DEF Resumed, r
    <2> DEFINE w == [rows[r] EXCEPT !.status = status]
    <2>2. /\ w \in Row /\ rows' = [rows EXCEPT ![r] = w]
          /\ w.sess = rows[r].sess /\ w.tree = rows[r].tree /\ w.live = rows[r].live /\ w.pr = rows[r].pr
      BY <1>2, <2>1 DEF Row
    <2> HIDE DEF w
    <2>3. RowsStay
      BY <1>2, <2>2, RowSet
    <2>4. TreesStay /\ call' = [call EXCEPT ![c] = NoCall] /\ call[c].op # "store"
      BY <1>6, NothingMoves DEF Resumed, Return
    <2>5. pollers' \subseteq Sess
      BY <1>2, <1>3, <1>6 DEF Resumed
    <2> QED BY <1>3, <1>4, <1>5, <2>3, <2>4, <2>5, CallKeeps
  <1>7. CASE Deleted(c)
    <2> DEFINE w == [rows[r] EXCEPT !.live = FALSE]
    <2>1. rows' = [rows EXCEPT ![r].live = FALSE]
      BY <1>7 DEF Deleted, r
    <2>2. /\ w \in Row /\ rows' = [rows EXCEPT ![r] = w]
          /\ w.sess = rows[r].sess /\ w.tree = rows[r].tree /\ ~w.live /\ w.pr = rows[r].pr
      BY <1>2, <2>1 DEF Row
    <2> HIDE DEF w
    <2>3. RowsStay
      BY <1>2, <2>2, RowSet
    <2>4. TreesStay
      BY <1>2, <1>3, <1>7 DEF Deleted, TreesStay
    <2>5. /\ call' = [call EXCEPT ![c] = NoCall] /\ call[c].op # "store"
          /\ pollers' \subseteq Sess
      BY <1>3, <1>7 DEF Deleted, Return
    <2> QED BY <1>3, <1>4, <1>5, <2>3, <2>4, <2>5, CallKeeps
  <1>8. CASE PrStored(c)
    <2> DEFINE w == [rows[r] EXCEPT !.pr = TRUE]
               v == [op |-> "bridge", sess |-> call[c].sess, row |-> r, tree |-> call[c].tree, pr |-> TRUE]
    <2>1. /\ rows' = [rows EXCEPT ![r].pr = TRUE] /\ call' = [call EXCEPT ![c] = v]
          /\ call[c].op = "store" /\ UNCHANGED <<trees, pollers>>
      BY <1>8 DEF PrStored, Suspend, r
    <2>2. /\ w \in Row /\ rows' = [rows EXCEPT ![r] = w]
          /\ w.sess = rows[r].sess /\ w.tree = rows[r].tree /\ w.live = rows[r].live /\ w.pr
      BY <1>2, <2>1 DEF Row
    <2>3. /\ v \in CallRecord /\ v.op = "bridge" /\ v.sess = call[c].sess /\ v.row = r
          /\ v.tree = call[c].tree
      BY <1>2 DEF CallRecord, RowOps
    <2> HIDE DEF w, v
    <2>4. RowsStay /\ rows'[r] = w
      BY <1>2, <2>2, RowSet
    <2>5. TreesStay
      BY <2>1, NothingMoves
    <2>6. Fits(v)
      BY <1>2, <2>1, <2>3 DEF Fits
    <2>7. rows'[call[c].row].pr
      BY <2>2, <2>4 DEF r
    <2> QED BY <1>3, <1>4, <2>1, <2>3, <2>4, <2>5, <2>6, <2>7, CallKeeps
  <1> QED BY <1>6, <1>7, <1>8

(* The steps of no call: 1 stands for any call, which stays what it is. *)
LEMMA OthersKeep ==
  ASSUME SInv, SetMode \/ (\E t \in Trees : TreeVanishes(t)) \/ SidecarRestarts
  PROVE  SInv'
  <1>1. /\ rows \in Seq(Row) /\ Len(rows) \in Nat /\ (\A r \in Ids : rows[r] \in Row)
        /\ trees \in [Trees -> {"free", "there", "gone", "removed"}]
        /\ pollers \subseteq Sess /\ advisory \in BOOLEAN /\ alive \in BOOLEAN
        /\ remotePrs \subseteq Trees /\ lostPrs \subseteq Trees
        /\ call \in [Calls -> CallRecord] /\ 1 \in Calls
    BY Typed DEF SInv, Calls
  <1>2. /\ UNCHANGED <<pollers, remotePrs, lostPrs>> /\ call' = call
        /\ advisory' \in BOOLEAN /\ alive' \in BOOLEAN
    BY <1>1 DEF SetMode, TreeVanishes, SidecarRestarts
  <1>3. call' = [call EXCEPT ![1] = call[1]] /\ call[1] \in CallRecord /\ Fits(call[1])
    BY <1>1, <1>2 DEF SInv, CallsFit
  <1>4. TreesStay
    <2>1. CASE \E t \in Trees : TreeVanishes(t)
      BY <1>1, <2>1 DEF TreeVanishes, TreesStay
    <2>2. CASE SetMode \/ SidecarRestarts
      BY <2>2, NothingMoves DEF SetMode, SidecarRestarts
    <2> QED BY <2>1, <2>2
  <1>5. RowsStay
    <2>1. CASE SidecarRestarts
      <3>1. PICK status \in [Ids -> {"active", "stale", "merged", "broken"}] :
               rows' = [r \in Ids |-> [rows[r] EXCEPT !.status = status[r]]]
        <4>1. PICK old, merged, failing \in SUBSET Live :
                 rows' = [r \in Ids |-> [rows[r] EXCEPT !.status =
                     Checked(rows[r], rows[r].tree # NoWorktree /\ r \notin failing /\ trees[rows[r].tree] = "there",
                             r \in old, r \in merged)]]
          BY <2>1 DEF SidecarRestarts, Ids
        <4> DEFINE status == [r \in Ids |->
                     Checked(rows[r], rows[r].tree # NoWorktree /\ r \notin failing /\ trees[rows[r].tree] = "there",
                             r \in old, r \in merged)]
        <4>2. status \in [Ids -> {"active", "stale", "merged", "broken"}]
          BY <1>1 DEF Checked, Row
        <4>3. rows' = [r \in Ids |-> [rows[r] EXCEPT !.status = status[r]]]
          BY <4>1
        <4> QED BY <4>2, <4>3
      <3>2. \A r \in Ids : /\ rows'[r] = [rows[r] EXCEPT !.status = status[r]]
                           /\ rows'[r] \in Row
        BY <1>1, <3>1 DEF Row
      <3>3. rows' \in Seq(Row) /\ Len(rows') = Len(rows)
        BY <1>1, <3>1, <3>2 DEF Ids
      <3> QED BY <1>1, <3>2, <3>3 DEF RowsStay, Row
    <2>2. CASE SetMode \/ \E t \in Trees : TreeVanishes(t)
      BY <2>2, NothingMoves DEF SetMode, TreeVanishes
    <2> QED BY <2>1, <2>2
  <1> QED BY <1>1, <1>2, <1>3, <1>4, <1>5, CallKeeps

LEMMA StopKeeps ==
  ASSUME SInv, SidecarStops
  PROVE  SInv'
  <1>1. trees \in [Trees -> {"free", "there", "gone", "removed"}] /\ advisory \in BOOLEAN
    BY Typed DEF SInv
  <1>2. TreesStay
    BY <1>1 DEF SidecarStops, TreesStay
  <1> QED BY <1>1, <1>2, FatalKeeps DEF SidecarStops

LEMMA SessionsStep == SInv /\ [SessionsNext]_sessionVars => SInv'
  <1> SUFFICES ASSUME SInv, [SessionsNext]_sessionVars PROVE SInv'
    OBVIOUS
  <1>1. CASE UNCHANGED sessionVars
    <2>1. /\ UNCHANGED <<rows, trees, pollers, call, advisory, alive, remotePrs, lostPrs>>
      BY <1>1 DEF sessionVars
    <2>2. /\ SessionsTypeOK' /\ CallsFit' /\ TreesAreUsed'
      BY <2>1 DEF SInv, SessionsTypeOK, CallsFit, Fits, TreesAreUsed, Ids
    <2>3. SessionsAreUnique' /\ RoomIsKept' /\ PrsAreLinked'
      BY <2>1 DEF SInv, SessionsAreUnique, RoomIsKept, PrsAreLinked, Live, Creating
    <2> QED BY <2>2, <2>3 DEF SInv
  <1>2. ASSUME NEW c \in Calls, CallProceeds(c) PROVE SInv'
    BY <1>2, CreationsKeep, MiddleStepsKeep, UpdatesKeep DEF CallProceeds
  <1>3. CASE SessionsNext
    BY <1>2, <1>3, EventsKeep, OperationsKeep, OthersKeep, StopKeeps DEF SessionsNext
  <1> QED BY <1>1, <1>3

-----------------------------------------------------------------------------
(* Every reachable state of the session manager is typed; in particular the   *)
(* table never has more rows than the bound on events allows.                *)
THEOREM SessionsTypeCorrect == SessionsSpec => []SessionsTypeOK
  <1>1. SInv => SessionsTypeOK
    BY DEF SInv
  <1> QED BY <1>1, SessionsStart, SessionsStep, PTL DEF SessionsSpec

(* However file events, polls, deletions, stops and restarts interleave, the   *)
(* rows that are not deleted are one per session and one per worktree, for any *)
(* number of sessions (sessionManager.ts:58-118, taskBranchStore.ts:118-140). *)
THEOREM BranchesAreUnique == SessionsSpec => []OneBranchPerSession
  <1>1. SInv => OneBranchPerSession
    BY DEF SInv, SessionsAreUnique, TreesAreUsed, OneBranchPerSession, Live, Ids
  <1> QED BY <1>1, SessionsStart, SessionsStep, PTL DEF SessionsSpec

(* A pull request that GitHub has is in the row of its branch or on its way    *)
(* there, unless the answer that names it was lost (sessionCloser.ts:98-147). *)
THEOREM NoPrIsForgotten == SessionsSpec => []PrsAreLinked
  <1>1. SInv => PrsAreLinked
    BY DEF SInv
  <1> QED BY <1>1, SessionsStart, SessionsStep, PTL DEF SessionsSpec
=============================================================================
