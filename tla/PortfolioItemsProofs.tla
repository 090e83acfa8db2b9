------------------------- MODULE PortfolioItemsProofs -------------------------
(***************************************************************************)
(* The rows of two users never mix, and no key has two rows, although      *)
(* requests check first and write later: what protects them is the unique  *)
(* key, the sequence of ids, and that an UPDATE names a row by its id and  *)
(* no column of its key.                                                   *)
(***************************************************************************)
EXTENDS PortfolioItems, TLAPS

\* What the module assumes of its constants.
ConstantsAssumption == UsersAssumption /\ TablesAssumption /\ BoundsAssumption

Phases == {"waiting", "user", "new_user", "list", "find", "insert", "load", "update", "delete",
           "refresh", "done"}
Statuses == {0, 200, 201, 204, 404, 409, 503}

\* A column that must not be null never is.
Item == [id : Nat \ {0}, table : Tables, user : Users, code : Codes,
         note : {"old", "new"}, cost : {"old", "new", Null}]
Changes == Patches \cup {<<>>}
RequestState ==
    [pc : Phases, op : {"list", "create", "update", "delete"}, table : {"holdings", "watchlist"},
     user : Users \cup {Null}, code : Codes \cup {Null}, id : Nat, changes : Changes,
     row : Item \cup {NoRow}, status : Statuses]

TypeInv ==
    /\ KnownUsers \subseteq users /\ users \subseteq Users
    /\ items \in SUBSET Item /\ lastId \in Nat /\ faults \in 0..MaxFaults
    /\ req \in [Requests -> RequestState]

\* Rows belong to profiles, are numbered by the sequence, and differ in number and key.
RowsInv ==
    /\ \A i \in items : i.id \in 1..lastId /\ i.user \in users
    /\ \A i, j \in items : i.id = j.id => i = j
    /\ \A i, j \in items : i.table = j.table /\ i.user = j.user /\ i.code = j.code => i = j

\* The request has inserted the row it answers with.
Made(r) == req[r].op = "create" /\ (req[r].pc = "refresh" \/ req[r].status = 201)

\* What a request has read is still true when it is used: a profile is not deleted, and
\* the row it loaded, if it is there, is of the same user.
GoodRequest(r) ==
    /\ req[r].pc # "waiting" => req[r].user \in Users /\ req[r].table \in Tables
                                /\ (req[r].op = "create" => req[r].code \in Codes)
    /\ req[r].pc \in {"list", "find", "insert", "load", "update", "delete", "refresh"} =>
           req[r].user \in users
    /\ req[r].pc \in {"find", "insert"} => req[r].op = "create"
    /\ req[r].pc = "load" => req[r].op \in {"update", "delete"}
    /\ req[r].pc \in {"update", "delete"} =>
           /\ req[r].op = req[r].pc /\ req[r].id \in 1..lastId /\ req[r].row \in Item
           /\ \A i \in items : i.id = req[r].id => i.user = req[r].user
    /\ req[r].pc = "refresh" => req[r].op \in {"create", "update"}
    /\ req[r].pc # "done" => req[r].status = 0
    /\ req[r].status = 201 => req[r].op = "create"
    /\ Made(r) => req[r].id \in 1..lastId

\* No two creations answer with the same row.
MadeApart == \A r, s \in Requests : r # s /\ Made(r) /\ Made(s) => req[r].id # req[s].id

\* The inductive invariant.
ItemInv == TypeInv /\ RowsInv /\ (\A r \in Requests : GoodRequest(r)) /\ MadeApart

-----------------------------------------------------------------------------
(***************************************************************************)
(* One request moves.                                                      *)
(***************************************************************************)
\* A request that does not move keeps what it knows, while rows are added, deleted and
\* changed but stay with their user.
LEMMA KeepsRequest ==
    ASSUME TypeInv, lastId' \in Nat, NEW q \in Requests, GoodRequest(q), req'[q] = req[q],
           users \subseteq users', lastId <= lastId',
           \A i \in items' : i.id <= lastId => \E j \in items : j.id = i.id /\ j.user = i.user
    PROVE  GoodRequest(q)' /\ (Made(q)' <=> Made(q))
<1>1. lastId \in Nat /\ \A n \in 1..lastId : n \in 1..lastId'
  BY DEF TypeInv
<1>2. Made(q)' <=> Made(q)
  BY DEF Made
<1>3. ASSUME req[q].pc \in {"update", "delete"}
      PROVE  /\ req[q].op = req[q].pc /\ req[q].id \in 1..lastId' /\ req[q].row \in Item
             /\ \A i \in items' : i.id = req[q].id => i.user = req[q].user
  <2>1. /\ req[q].op = req[q].pc /\ req[q].id \in 1..lastId /\ req[q].row \in Item
        /\ \A i \in items : i.id = req[q].id => i.user = req[q].user
    BY <1>3 DEF GoodRequest
  <2>2. ASSUME NEW i \in items', i.id = req[q].id PROVE i.user = req[q].user
    <3>1. PICK j \in items : j.id = i.id /\ j.user = i.user
      BY <1>1, <2>1, <2>2
    <3> QED BY <2>1, <2>2, <3>1
  <2> QED BY <1>1, <2>1, <2>2
<1>4. Made(q) => req[q].id \in 1..lastId'
  BY <1>1 DEF GoodRequest
<1>5. req[q].pc \in {"list", "find", "insert", "load", "update", "delete", "refresh"} =>
          req[q].user \in users'
  BY DEF GoodRequest
<1> QED BY <1>2, <1>3, <1>4, <1>5 DEF GoodRequest

\* What a step of one request must show: the tables it leaves, and what it knows then.
LEMMA StepKeeps ==
    ASSUME ItemInv, NEW r \in Requests, NEW x \in RequestState, req' = [req EXCEPT ![r] = x],
           users \subseteq users', users' \subseteq Users, faults' \in 0..MaxFaults,
           lastId' \in Nat, lastId <= lastId', items' \in SUBSET Item, RowsInv',
           \A i \in items' : i.id <= lastId => \E j \in items : j.id = i.id /\ j.user = i.user,
           GoodRequest(r)', Made(r)' => (Made(r) /\ x.id = req[r].id) \/ x.id = lastId + 1
    PROVE  ItemInv'
<1>1. TypeInv /\ (\A q \in Requests : GoodRequest(q)) /\ MadeApart
  BY DEF ItemInv
<1>2. req \in [Requests -> RequestState] /\ req'[r] = x
  BY <1>1 DEF TypeInv
<1>3. TypeInv'
  BY <1>1, <1>2 DEF TypeInv
<1>4. ASSUME NEW q \in Requests, q # r
      PROVE  GoodRequest(q)' /\ (Made(q)' <=> Made(q)) /\ req'[q] = req[q]
  <2>1. req'[q] = req[q] /\ GoodRequest(q)
    BY <1>1, <1>2, <1>4
  <2> QED BY <1>1, <2>1, KeepsRequest
<1>5. ASSUME NEW q \in Requests, q # r, Made(q)', Made(r)' PROVE req'[q].id # req'[r].id
  <2>1. Made(q) /\ req'[q] = req[q] /\ GoodRequest(q)
    BY <1>1, <1>4, <1>5
  <2>2. req[q].id \in 1..lastId /\ lastId \in Nat
    BY <1>1, <2>1 DEF GoodRequest, TypeInv
  <2>3. CASE Made(r) /\ x.id = req[r].id
    BY <1>1, <1>2, <1>5, <2>1, <2>3 DEF MadeApart
  <2>4. CASE x.id = lastId + 1
    BY <1>2, <2>1, <2>2, <2>4
  <2> QED BY <1>5, <2>3, <2>4
<1>6. MadeApart'
  <2> SUFFICES ASSUME NEW p \in Requests, NEW q \in Requests, p # q, Made(p)', Made(q)'
               PROVE  req'[p].id # req'[q].id
    BY DEF MadeApart
  <2>1. CASE p = r
    BY <1>5, <2>1
  <2>2. CASE q = r
    BY <1>5, <2>2
  <2>3. CASE p # r /\ q # r
    BY <1>1, <1>4, <2>3 DEF MadeApart
  <2> QED BY <2>1, <2>2, <2>3
<1>7. \A q \in Requests : GoodRequest(q)'
  BY <1>4
<1> QED BY <1>3, <1>6, <1>7 DEF ItemInv

\* A request moves, and the tables stay as they are, but for a profile more.
LEMMA LocalStep ==
    ASSUME ItemInv, NEW r \in Requests, NEW x \in RequestState, req' = [req EXCEPT ![r] = x],
           users \subseteq users', users' \subseteq Users, faults' \in 0..MaxFaults,
           UNCHANGED <<items, lastId>>, GoodRequest(r)',
           Made(r)' => Made(r) /\ x.id = req[r].id
    PROVE  ItemInv'
<1>1. TypeInv /\ RowsInv
  BY DEF ItemInv
<1>2. lastId' \in Nat /\ lastId <= lastId' /\ items' \in SUBSET Item
  BY <1>1 DEF TypeInv
<1>3. RowsInv'
  BY <1>1 DEF RowsInv
<1> QED BY <1>2, <1>3, StepKeeps

\* A request goes on to its next statement, or is answered.
LEMMA MoveTyped ==
    ASSUME TypeInv, NEW r \in Requests, NEW pc \in Phases, NEW status \in Statuses
    PROVE  /\ [req[r] EXCEPT !.pc = pc] \in RequestState
           /\ [req[r] EXCEPT !.pc = pc, !.status = status] \in RequestState
<1>1. req[r] \in RequestState
  BY DEF TypeInv
<1> QED BY <1>1 DEF RequestState

\* A request that is answered, with 201 only for the row it has made.
LEMMA ReplyKeeps ==
    ASSUME ItemInv, NEW r \in Requests, NEW status \in Statuses, Reply(r, status),
           req[r].pc # "waiting", status = 201 => Made(r),
           users \subseteq users', users' \subseteq Users, faults' \in 0..MaxFaults,
           UNCHANGED <<items, lastId>>
    PROVE  ItemInv'
<1>1. TypeInv /\ GoodRequest(r) /\ req[r] \in RequestState /\ req \in [Requests -> RequestState]
  BY DEF ItemInv, TypeInv
<1>2. PICK x : x = [req[r] EXCEPT !.pc = "done", !.status = status]
  OBVIOUS
<1>3. x \in RequestState
  BY <1>1, <1>2, MoveTyped DEF Phases
<1>4. /\ x.pc = "done" /\ x.status = status /\ x.op = req[r].op /\ x.id = req[r].id
      /\ x.user = req[r].user /\ x.table = req[r].table /\ x.code = req[r].code
  BY <1>1, <1>2 DEF RequestState
<1>5. req' = [req EXCEPT ![r] = x] /\ req'[r] = x
  BY <1>1, <1>2 DEF Reply, Set
<1>6. Made(r)' => Made(r) /\ x.id = req[r].id
  BY <1>4, <1>5 DEF Made
<1>7. GoodRequest(r)'
  <2>1. status = 201 => req[r].op = "create"
    BY DEF Made
  <2>2. Made(r)' => x.id \in 1..lastId'
    BY <1>1, <1>4, <1>6 DEF GoodRequest
  <2> QED BY <1>1, <1>4, <1>5, <2>1, <2>2 DEF GoodRequest
<1> QED BY <1>3, <1>5, <1>6, <1>7, LocalStep

\* A request that goes on, with the fields of its next statement in order.
LEMMA GoOnKeeps ==
    ASSUME ItemInv, NEW r \in Requests, NEW pc \in Phases, GoTo(r, pc),
           req[r].pc \notin {"waiting", "done"},
           pc \in {"new_user", "list", "find", "insert", "load", "refresh"},
           pc # "new_user" => req[r].user \in users',
           pc \in {"find", "insert"} => req[r].op = "create",
           pc = "load" => req[r].op \in {"update", "delete"},
           pc = "refresh" => req[r].op = "update",
           users \subseteq users', users' \subseteq Users, UNCHANGED <<items, lastId, faults>>
    PROVE  ItemInv'
<1>1. TypeInv /\ GoodRequest(r) /\ req[r] \in RequestState /\ req \in [Requests -> RequestState]
  BY DEF ItemInv, TypeInv
<1>2. PICK x : x = [req[r] EXCEPT !.pc = pc]
  OBVIOUS
<1>3. x \in RequestState
  <2>1. 0 \in Statuses
    BY DEF Statuses
  <2> QED BY <1>1, <1>2, <2>1, MoveTyped
<1>4. /\ x.pc = pc /\ x.status = req[r].status /\ x.op = req[r].op /\ x.id = req[r].id
      /\ x.user = req[r].user /\ x.table = req[r].table /\ x.code = req[r].code
  BY <1>1, <1>2 DEF RequestState
<1>5. req' = [req EXCEPT ![r] = x] /\ req'[r] = x
  BY <1>1, <1>2 DEF GoTo, Set
<1>6. x.status = 0
  BY <1>1, <1>4 DEF GoodRequest
<1>7. ~Made(r)'
  BY <1>4, <1>5, <1>6 DEF Made
<1>8. GoodRequest(r)'
  BY <1>1, <1>4, <1>5, <1>6, <1>7 DEF GoodRequest
<1>9. faults' \in 0..MaxFaults
  BY <1>1 DEF TypeInv
<1> QED BY <1>3, <1>5, <1>7, <1>8, <1>9, LocalStep

-----------------------------------------------------------------------------
(***************************************************************************)
(* The statements of a request.                                            *)
(***************************************************************************)
\* A request that has not come in.
LEMMA WaitingTyped ==
    /\ Waiting \in RequestState /\ Waiting.pc = "waiting" /\ Waiting.status = 0
    /\ Waiting.op = "list"
<1>1. NoRow \in Item \cup {NoRow} /\ <<>> \in Changes
  BY DEF Changes
<1> HIDE DEF NoRow, Item
<1> QED BY <1>1 DEF Waiting, RequestState, Phases, Statuses

\* A request has come in and names what it must.
LEMMA ArriveKeeps ==
    ASSUME ItemInv, NEW r \in Requests, NEW x \in RequestState, Set(r, x), x.pc = "user",
           x.status = 0, x.user \in Users, x.table \in Tables, x.op = "create" => x.code \in Codes,
           UNCHANGED <<users, items, lastId, faults>>
    PROVE  ItemInv'
<1>1. TypeInv /\ req' = [req EXCEPT ![r] = x] /\ req'[r] = x
  BY DEF ItemInv, TypeInv, Set
<1>2. ~Made(r)'
  BY <1>1 DEF Made
<1>3. GoodRequest(r)'
  BY <1>1, <1>2 DEF GoodRequest
<1>4. users \subseteq Users /\ faults \in 0..MaxFaults
  BY <1>1 DEF TypeInv
<1> QED BY <1>1, <1>2, <1>3, <1>4, LocalStep

\* A request comes in.
LEMMA ReceiveKeeps ==
    ASSUME ConstantsAssumption, ItemInv, NEW r \in Requests, Receive(r)
    PROVE  ItemInv'
<1>1. PICK u \in Users, t \in Tables :
        \/ Set(r, [Waiting EXCEPT !.pc = "user", !.user = u, !.table = t])
        \/ \E c \in Codes :
            Set(r, [Waiting EXCEPT !.pc = "user", !.user = u, !.table = t,
                                   !.op = "create", !.code = c])
        \/ \E i \in Ids :
            \/ Set(r, [Waiting EXCEPT !.pc = "user", !.user = u, !.table = t,
                                      !.op = "delete", !.id = i])
            \/ \E p \in Patches :
                Set(r, [Waiting EXCEPT !.pc = "user", !.user = u, !.table = t,
                                       !.op = "update", !.id = i, !.changes = p])
  BY DEF Receive
<1>2. /\ UNCHANGED <<users, items, lastId, faults>>
      /\ Ids \subseteq Nat /\ Patches \subseteq Changes /\ t \in {"holdings", "watchlist"}
  BY DEF Receive, ConstantsAssumption, BoundsAssumption, TablesAssumption, Changes
<1>3. CASE Set(r, [Waiting EXCEPT !.pc = "user", !.user = u, !.table = t])
  <2> DEFINE x == [Waiting EXCEPT !.pc = "user", !.user = u, !.table = t]
  <2>1. x \in RequestState
    BY <1>2, WaitingTyped DEF RequestState, Phases
  <2>2. x.pc = "user" /\ x.status = 0 /\ x.user = u /\ x.table = t /\ x.op = "list"
    BY DEF Waiting
  <2>3. Set(r, x)
    BY <1>3
  <2> HIDE DEF x
  <2> QED BY <1>2, <2>1, <2>2, <2>3, ArriveKeeps
<1>4. ASSUME NEW c \in Codes,
             Set(r, [Waiting EXCEPT !.pc = "user", !.user = u, !.table = t,
                                    !.op = "create", !.code = c])
      PROVE  ItemInv'
  <2> DEFINE x == [Waiting EXCEPT !.pc = "user", !.user = u, !.table = t,
                                  !.op = "create", !.code = c]
  <2>1. x \in RequestState
    BY <1>2, WaitingTyped DEF RequestState, Phases
  <2>2. x.pc = "user" /\ x.status = 0 /\ x.user = u /\ x.table = t /\ x.code = c
    BY DEF Waiting
  <2>3. Set(r, x)
    BY <1>4
  <2> HIDE DEF x
  <2> QED BY <1>2, <2>1, <2>2, <2>3, ArriveKeeps
<1>5. ASSUME NEW i \in Ids,
             Set(r, [Waiting EXCEPT !.pc = "user", !.user = u, !.table = t,
                                    !.op = "delete", !.id = i])
      PROVE  ItemInv'
  <2> DEFINE x == [Waiting EXCEPT !.pc = "user", !.user = u, !.table = t,
                                  !.op = "delete", !.id = i]
  <2>1. x \in RequestState
    BY <1>2, WaitingTyped DEF RequestState, Phases
  <2>2. x.pc = "user" /\ x.status = 0 /\ x.user = u /\ x.table = t /\ x.op = "delete"
    BY DEF Waiting
  <2>3. Set(r, x)
    BY <1>5
  <2> HIDE DEF x
  <2> QED BY <1>2, <2>1, <2>2, <2>3, ArriveKeeps
<1>6. ASSUME NEW i \in Ids, NEW p \in Patches,
             Set(r, [Waiting EXCEPT !.pc = "user", !.user = u, !.table = t,
                                    !.op = "update", !.id = i, !.changes = p])
      PROVE  ItemInv'
  <2> DEFINE x == [Waiting EXCEPT !.pc = "user", !.user = u, !.table = t,
                                  !.op = "update", !.id = i, !.changes = p]
  <2>1. x \in RequestState
    BY <1>2, WaitingTyped DEF RequestState, Phases
  <2>2. x.pc = "user" /\ x.status = 0 /\ x.user = u /\ x.table = t /\ x.op = "update"
    BY DEF Waiting
  <2>3. Set(r, x)
    BY <1>6
  <2> HIDE DEF x
  <2> QED BY <1>2, <2>1, <2>2, <2>3, ArriveKeeps
<1> QED BY <1>1, <1>3, <1>4, <1>5, <1>6

\* After its user a request looks for a row, lists, or loads.
LEMMA AfterUserKeeps ==
    ASSUME ItemInv, NEW r \in Requests, req[r].pc \in {"user", "new_user"},
           GoTo(r, AfterUser(req[r].op)), req[r].user \in users',
           users \subseteq users', users' \subseteq Users, UNCHANGED <<items, lastId, faults>>
    PROVE  ItemInv'
<1>1. req[r].op \in {"list", "create", "update", "delete"}
  BY DEF ItemInv, TypeInv, RequestState
<1>2. PICK pc : pc = AfterUser(req[r].op)
  OBVIOUS
<1>3. /\ pc \in {"list", "find", "load"} /\ (pc = "find" => req[r].op = "create")
      /\ (pc = "load" => req[r].op \in {"update", "delete"})
  BY <1>1, <1>2 DEF AfterUser
<1>4. GoTo(r, pc)
  BY <1>2
<1> QED BY <1>3, <1>4, GoOnKeeps DEF Phases

\* The profile is read, and created if there is none.
LEMMA UserKeeps ==
    ASSUME ItemInv, NEW r \in Requests, GetUser(r) \/ CreateUser(r)
    PROVE  ItemInv'
<1>1. TypeInv /\ GoodRequest(r) /\ users \subseteq Users /\ faults \in 0..MaxFaults
  BY DEF ItemInv, TypeInv
<1>2. CASE GetUser(r)
  <2>1. req[r].pc = "user" /\ UNCHANGED <<users, items, lastId, faults>>
    BY <1>2 DEF GetUser, At
  <2>2. CASE req[r].user \in users
    <3>1. GoTo(r, AfterUser(req[r].op))
      BY <1>2, <2>2 DEF GetUser
    <3> QED BY <1>1, <2>1, <2>2, <3>1, AfterUserKeeps
  <2>3. CASE req[r].user \notin users
    <3>1. GoTo(r, "new_user")
      BY <1>2, <2>3 DEF GetUser
    <3> QED BY <1>1, <2>1, <3>1, GoOnKeeps DEF Phases
  <2> QED BY <2>2, <2>3
<1>3. CASE CreateUser(r)
  <2>1. req[r].pc = "new_user" /\ UNCHANGED <<items, lastId, faults>>
        /\ users' = users \cup {req[r].user}
    BY <1>3 DEF CreateUser, At
  <2>2. req[r].user \in Users
    BY <1>1, <2>1 DEF GoodRequest
  <2>3. users \subseteq users' /\ users' \subseteq Users /\ req[r].user \in users'
    BY <1>1, <2>1, <2>2
  <2>4. CASE req[r].user \in users
    <3>1. Reply(r, 503)
      BY <1>3, <2>4 DEF CreateUser
    <3> QED BY <1>1, <2>1, <2>3, <3>1, ReplyKeeps DEF Statuses
  <2>5. CASE req[r].user \notin users
    <3>1. GoTo(r, AfterUser(req[r].op))
      BY <1>3, <2>5 DEF CreateUser
    <3> QED BY <2>1, <2>3, <3>1, AfterUserKeeps
  <2> QED BY <2>4, <2>5
<1> QED BY <1>2, <1>3

\* A list, a search for the key, the answer read back, and a statement that fails.
LEMMA ReadKeeps ==
    ASSUME ConstantsAssumption, ItemInv, NEW r \in Requests,
           ListItems(r) \/ FindItem(r) \/ RefreshItem(r) \/ DatabaseError(r)
    PROVE  ItemInv'
<1>1. /\ TypeInv /\ GoodRequest(r) /\ users \subseteq Users /\ faults \in 0..MaxFaults
  BY DEF ItemInv, TypeInv
<1>2. CASE ListItems(r)
  <2>1. req[r].pc = "list" /\ Reply(r, 200) /\ UNCHANGED <<users, items, lastId, faults>>
    BY <1>2 DEF ListItems, At
  <2> QED BY <1>1, <2>1, ReplyKeeps DEF Statuses
<1>3. CASE FindItem(r)
  <2>1. req[r].pc = "find" /\ UNCHANGED <<users, items, lastId, faults>>
    BY <1>3 DEF FindItem, At
  <2>2. req[r].op = "create" /\ req[r].user \in users
    BY <1>1, <2>1 DEF GoodRequest
  <2>3. Reply(r, 409) \/ GoTo(r, "insert")
    BY <1>3 DEF FindItem
  <2>4. CASE Reply(r, 409)
    BY <1>1, <2>1, <2>4, ReplyKeeps DEF Statuses
  <2>5. CASE GoTo(r, "insert")
    BY <1>1, <2>1, <2>2, <2>5, GoOnKeeps DEF Phases
  <2> QED BY <2>3, <2>4, <2>5
<1>4. CASE RefreshItem(r)
  <2>1. req[r].pc = "refresh" /\ UNCHANGED <<users, items, lastId, faults>>
    BY <1>4 DEF RefreshItem, At
  <2>2. PICK status : status = (IF ById(req[r]) = {} THEN 503
                                ELSE IF req[r].op = "create" THEN 201 ELSE 200)
    OBVIOUS
  <2>3. status \in Statuses /\ (status = 201 => Made(r))
    BY <2>1, <2>2 DEF Statuses, Made
  <2>4. Reply(r, status)
    BY <1>4, <2>2 DEF RefreshItem
  <2> QED BY <1>1, <2>1, <2>3, <2>4, ReplyKeeps
<1>5. CASE DatabaseError(r)
  <2>1. /\ req[r].pc # "waiting" /\ Reply(r, 503) /\ UNCHANGED <<users, items, lastId>>
        /\ faults < MaxFaults /\ faults' = faults + 1
    BY <1>5 DEF DatabaseError
  <2>2. faults' \in 0..MaxFaults
    BY <1>1, <2>1 DEF ConstantsAssumption, BoundsAssumption
  <2> QED BY <1>1, <2>1, <2>2, ReplyKeeps DEF Statuses
<1> QED BY <1>2, <1>3, <1>4, <1>5

\* The row of an update or a delete is loaded, if the user has it.
LEMMA LoadKeeps ==
    ASSUME ItemInv, NEW r \in Requests, LoadItem(r)
    PROVE  ItemInv'
<1>1. /\ TypeInv /\ GoodRequest(r) /\ RowsInv /\ users \subseteq Users /\ faults \in 0..MaxFaults
      /\ items \in SUBSET Item
  BY DEF ItemInv, TypeInv
<1>2. req[r].pc = "load" /\ UNCHANGED <<users, items, lastId, faults>>
  BY DEF LoadItem, At
<1>3. req[r].op \in {"update", "delete"} /\ req[r].user \in users
  BY <1>1, <1>2 DEF GoodRequest
<1>4. CASE Reply(r, 404)
  BY <1>1, <1>2, <1>4, ReplyKeeps DEF Statuses
<1>5. CASE ~Reply(r, 404)
  <2>1. PICK row \in items : /\ row.table = req[r].table /\ row.id = req[r].id
                             /\ row.user = req[r].user
                             /\ Set(r, [req[r] EXCEPT !.pc = req[r].op, !.row = row])
    BY <1>5 DEF LoadItem, ById
  <2>2. PICK x : x = [req[r] EXCEPT !.pc = req[r].op, !.row = row]
    OBVIOUS
  <2>3. req[r] \in RequestState /\ req \in [Requests -> RequestState] /\ row \in Item
    BY <1>1 DEF TypeInv
  <2>4. x \in RequestState
    BY <1>3, <2>2, <2>3 DEF RequestState, Phases
  <2>5. /\ x.pc = req[r].op /\ x.status = req[r].status /\ x.op = req[r].op /\ x.id = req[r].id
        /\ x.user = req[r].user /\ x.table = req[r].table /\ x.code = req[r].code /\ x.row = row
    BY <2>2, <2>3 DEF RequestState
  <2>6. req' = [req EXCEPT ![r] = x] /\ req'[r] = x
    BY <2>1, <2>2, <2>3 DEF Set
  <2>7. x.status = 0
    BY <1>1, <1>2, <2>5 DEF GoodRequest
  <2>8. ~Made(r)'
    BY <1>3, <2>5, <2>6 DEF Made
  <2>9. /\ req[r].id \in 1..lastId
        /\ \A i \in items : i.id = req[r].id => i.user = req[r].user
    BY <1>1, <2>1 DEF RowsInv
  <2>10. GoodRequest(r)'
    BY <1>1, <1>2, <1>3, <2>3, <2>5, <2>6, <2>7, <2>8, <2>9 DEF GoodRequest
  <2> QED BY <1>1, <1>2, <2>4, <2>6, <2>8, <2>10, LocalStep
<1> QED BY <1>4, <1>5

-----------------------------------------------------------------------------
(***************************************************************************)
(* The statements that write a row.                                        *)
(***************************************************************************)
\* A row is inserted with the next number, unless its key is taken.
LEMMA InsertKeeps ==
    ASSUME ConstantsAssumption, ItemInv, NEW r \in Requests, InsertItem(r)
    PROVE  ItemInv' /\ \A j \in items' : j \in items \/ j.id = lastId + 1
<1> DEFINE q == req[r]
           row == NewItem(q, lastId + 1)
<1>1. /\ TypeInv /\ GoodRequest(r) /\ RowsInv /\ users \subseteq Users /\ faults \in 0..MaxFaults
      /\ items \in SUBSET Item /\ lastId \in Nat
  BY DEF ItemInv, TypeInv
<1>2. q.pc = "insert" /\ UNCHANGED <<users, faults>> /\ lastId' = lastId + 1
  BY DEF InsertItem, At
<1>3. /\ q.user \in users /\ q.user \in Users /\ q.table \in Tables /\ q.code \in Codes
      /\ q.op = "create" /\ q.status = 0
  BY <1>1, <1>2 DEF GoodRequest
<1>4. q \in RequestState /\ req \in [Requests -> RequestState]
  BY <1>1 DEF TypeInv
<1>5. CASE \E i \in items : SameKey(i, q)
  <2>1. Reply(r, 503) /\ UNCHANGED items
    BY <1>5 DEF InsertItem
  <2>2. PICK x : x = [req[r] EXCEPT !.pc = "done", !.status = 503]
    OBVIOUS
  <2>3. x \in RequestState
    <3>1. "done" \in Phases /\ 503 \in Statuses /\ TypeInv
      BY <1>1 DEF Phases, Statuses
    <3>2. PICK status \in Statuses, pc \in Phases : status = 503 /\ pc = "done"
      BY <3>1
    <3>3. [req[r] EXCEPT !.pc = pc, !.status = status] \in RequestState
      BY <3>1, MoveTyped
    <3> QED BY <2>2, <3>2, <3>3
  <2>4. /\ x.pc = "done" /\ x.status = 503 /\ x.op = q.op /\ x.id = q.id
        /\ x.user = q.user /\ x.table = q.table /\ x.code = q.code
    BY <1>4, <2>2 DEF RequestState
  <2>5. req' = [req EXCEPT ![r] = x] /\ req'[r] = x
    BY <1>4, <2>1, <2>2 DEF Reply, Set
  <2>6. ~Made(r)' /\ GoodRequest(r)'
    <3>1. ~Made(r)'
      BY <2>4, <2>5 DEF Made
    <3> QED BY <1>3, <2>4, <2>5, <3>1 DEF GoodRequest
  <2>7. RowsInv'
    BY <1>1, <1>2, <2>1 DEF RowsInv
  <2>8. lastId' \in Nat /\ lastId <= lastId'
    BY <1>1, <1>2
  <2> QED BY <1>1, <1>2, <2>1, <2>3, <2>5, <2>6, <2>7, <2>8, StepKeeps
<1>6. CASE ~\E i \in items : SameKey(i, q)
  <2>1. /\ items' = items \cup {row}
        /\ Set(r, [q EXCEPT !.pc = "refresh", !.id = lastId + 1])
    BY <1>2, <1>6 DEF InsertItem
  <2>2. PICK x : x = [q EXCEPT !.pc = "refresh", !.id = lastId + 1]
    OBVIOUS
  <2>3. x \in RequestState
    <3>1. lastId + 1 \in Nat /\ "refresh" \in Phases
      BY <1>1 DEF Phases
    <3> QED BY <1>4, <2>2, <3>1 DEF RequestState
  <2>4. /\ x.pc = "refresh" /\ x.status = 0 /\ x.op = "create" /\ x.id = lastId + 1
        /\ x.user = q.user /\ x.table = q.table /\ x.code = q.code
    BY <1>3, <1>4, <2>2 DEF RequestState
  <2>5. req' = [req EXCEPT ![r] = x] /\ req'[r] = x
    BY <1>4, <2>1, <2>2 DEF Set
  <2>6. /\ row \in Item /\ row.id = lastId + 1 /\ row.user = q.user /\ row.table = q.table
        /\ row.code = q.code
    BY <1>1, <1>3 DEF NewItem, Item
  <2>7. \A i \in items : ~(i.table = row.table /\ i.user = row.user /\ i.code = row.code)
    BY <1>6, <2>6 DEF SameKey
  <2> HIDE DEF row
  <2>8. \A i \in items : i.id \in 1..lastId /\ i.id # lastId + 1 /\ i.user \in users
    BY <1>1 DEF RowsInv
  <2>9. \A i \in items' : i.id \in 1..lastId' /\ i.user \in users'
    BY <1>1, <1>2, <1>3, <2>1, <2>6, <2>8
  <2>10. \A i, j \in items' : i.id = j.id => i = j
    BY <1>1, <2>1, <2>6, <2>8 DEF RowsInv
  <2>11. \A i, j \in items' :
             i.table = j.table /\ i.user = j.user /\ i.code = j.code => i = j
    BY <1>1, <2>1, <2>7 DEF RowsInv
  <2>12. RowsInv'
    BY <2>9, <2>10, <2>11 DEF RowsInv
  <2>13. GoodRequest(r)'
    <3>1. x.id \in 1..lastId'
      BY <1>1, <1>2, <2>4
    <3> QED BY <1>2, <1>3, <2>4, <2>5, <3>1 DEF GoodRequest
  <2>14. /\ items' \in SUBSET Item /\ lastId' \in Nat /\ lastId <= lastId'
         /\ \A i \in items' : i.id <= lastId => i \in items
    BY <1>1, <1>2, <2>1, <2>6
  <2>15. \A j \in items' : j \in items \/ j.id = lastId + 1
    BY <2>1, <2>6
  <2>16. ItemInv'
    BY <1>1, <1>2, <2>3, <2>4, <2>5, <2>12, <2>13, <2>14, StepKeeps
  <2> QED BY <2>15, <2>16
<1> QED BY <1>5, <1>6

\* An UPDATE writes columns that the patch names, and none of the key.
LEMMA PatchedRow ==
    ASSUME NEW row \in Item, NEW q \in RequestState,
           ~("note" \in Sent(q) /\ q.changes["note"] = Null)
    PROVE  /\ PatchOf(row, q) \in Item /\ PatchOf(row, q).id = row.id
           /\ PatchOf(row, q).table = row.table /\ PatchOf(row, q).user = row.user
           /\ PatchOf(row, q).code = row.code
           /\ \A c \in Columns : PatchOf(row, q)[c] # row[c] => c \in DOMAIN q.changes
<1>1. DOMAIN row = {"id", "table", "user", "code", "note", "cost"}
  BY DEF Item
<1>2. ASSUME NEW c \in Sent(q) PROVE c \in Columns /\ q.changes[c] \in {"new", Null}
  <2>1. q.changes \in Changes /\ c \in DOMAIN q.changes
    BY DEF Sent, RequestState
  <2>2. q.changes # <<>>
    BY <2>1
  <2>3. PICK cs \in SUBSET Columns : q.changes \in [cs -> {"new", Null}]
    BY <2>1, <2>2 DEF Changes, Patches
  <2> QED BY <2>1, <2>3
<1>3. Sent(q) \subseteq {"note", "cost"}
  BY <1>2 DEF Columns
<1> DEFINE note == IF "note" \in Sent(q) THEN q.changes["note"] ELSE row.note
           cost == IF "cost" \in Sent(q) THEN q.changes["cost"] ELSE row.cost
<1>4. note \in {"old", "new"} /\ cost \in {"old", "new", Null}
  BY <1>2 DEF Item
<1>5. PatchOf(row, q)
        = [k \in {"id", "table", "user", "code", "note", "cost"} |->
              IF k \in Sent(q) THEN q.changes[k] ELSE row[k]]
  BY <1>1 DEF PatchOf, Patched
<1>6. /\ PatchOf(row, q) = [id |-> row.id, table |-> row.table, user |-> row.user,
                            code |-> row.code, note |-> note, cost |-> cost]
  BY <1>3, <1>5
<1>7. \A c \in Columns : PatchOf(row, q)[c] # row[c] => c \in DOMAIN q.changes
  BY <1>5 DEF Columns, Sent
<1> HIDE DEF note, cost
<1>8. PatchOf(row, q) \in Item
  BY <1>4, <1>6 DEF Item
<1> QED BY <1>6, <1>7, <1>8

\* What an UPDATE leaves: the rows of another number, and the row of this one patched.
LEMMA UpdateChanges ==
    ASSUME ItemInv, NEW r \in Requests, UpdateItem(r), items' # items
    PROVE  /\ req[r] \in RequestState /\ GoTo(r, "refresh")
           /\ ~("note" \in Sent(req[r]) /\ req[r].changes["note"] = Null)
           /\ items' = (items \ ById(req[r])) \cup {PatchOf(i, req[r]) : i \in ById(req[r])}
<1>1. req[r] \in RequestState
  BY DEF ItemInv, TypeInv
<1> QED BY <1>1 DEF UpdateItem

\* Each row that is there after an UPDATE is the one of its number before it.
LEMMA UpdatedFrom ==
    ASSUME ItemInv, NEW r \in Requests, UpdateItem(r), items' # items, NEW j \in items'
    PROVE  \E i \in items :
               /\ j \in Item /\ j.id = i.id
               /\ j.table = i.table /\ j.user = i.user /\ j.code = i.code
               /\ j = (IF i \in ById(req[r]) THEN PatchOf(i, req[r]) ELSE i)
               /\ \A c \in Columns : j[c] # i[c] => c \in DOMAIN req[r].changes
<1>1. /\ req[r] \in RequestState /\ ~("note" \in Sent(req[r]) /\ req[r].changes["note"] = Null)
      /\ items' = (items \ ById(req[r])) \cup {PatchOf(i, req[r]) : i \in ById(req[r])}
      /\ items \in SUBSET Item /\ ById(req[r]) \subseteq items
  BY UpdateChanges DEF ItemInv, TypeInv, ById
<1>2. CASE j \in items \ ById(req[r])
  BY <1>1, <1>2
<1>3. CASE j \notin items \ ById(req[r])
  <2>1. PICK i \in ById(req[r]) : j = PatchOf(i, req[r])
    BY <1>1, <1>3
  <2>2. i \in items /\ i \in Item
    BY <1>1, <2>1
  <2> QED BY <1>1, <2>1, <2>2, PatchedRow
<1> QED BY <1>2, <1>3

\* A row is updated.
LEMMA UpdateKeeps ==
    ASSUME ConstantsAssumption, ItemInv, NEW r \in Requests, UpdateItem(r)
    PROVE  ItemInv'
<1>1. /\ TypeInv /\ GoodRequest(r) /\ RowsInv /\ users \subseteq Users /\ faults \in 0..MaxFaults
      /\ lastId \in Nat
  BY DEF ItemInv, TypeInv
<1>2. req[r].pc = "update" /\ UNCHANGED <<users, lastId, faults>>
  BY DEF UpdateItem, At
<1>3. req[r].user \in users /\ req[r].op = "update"
  BY <1>1, <1>2 DEF GoodRequest
<1>4. CASE items' = items
  <2>1. GoTo(r, "refresh") \/ Reply(r, 503)
    BY DEF UpdateItem
  <2>2. CASE GoTo(r, "refresh")
    BY <1>1, <1>2, <1>3, <1>4, <2>2, GoOnKeeps DEF Phases
  <2>3. CASE Reply(r, 503)
    BY <1>1, <1>2, <1>4, <2>3, ReplyKeeps DEF Statuses
  <2> QED BY <2>1, <2>2, <2>3
<1>5. CASE items' # items
  <2>1. req[r] \in RequestState /\ req \in [Requests -> RequestState] /\ GoTo(r, "refresh")
    BY <1>1, <1>5, UpdateChanges DEF TypeInv
  <2>2. PICK x : x = [req[r] EXCEPT !.pc = "refresh"]
    OBVIOUS
  <2>3. x \in RequestState
    <3>1. "refresh" \in Phases /\ 0 \in Statuses /\ TypeInv
      BY <1>1 DEF Phases, Statuses
    <3> QED BY <2>2, <3>1, MoveTyped
  <2>4. /\ x.pc = "refresh" /\ x.status = req[r].status /\ x.op = "update" /\ x.id = req[r].id
        /\ x.user = req[r].user /\ x.table = req[r].table /\ x.code = req[r].code
    BY <1>3, <2>1, <2>2 DEF RequestState
  <2>5. req' = [req EXCEPT ![r] = x] /\ req'[r] = x
    BY <2>1, <2>2 DEF GoTo, Set
  <2>6. x.status = 0
    BY <1>1, <1>2, <2>4 DEF GoodRequest
  <2>7. ~Made(r)'
    BY <2>4, <2>5, <2>6 DEF Made
  <2>8. GoodRequest(r)'
    BY <1>1, <1>2, <1>3, <2>4, <2>5, <2>6, <2>7 DEF GoodRequest
  <2>9. ASSUME NEW j \in items'
        PROVE  j \in Item /\ j.id \in 1..lastId' /\ j.user \in users'
               /\ \E i \in items : i.id = j.id /\ i.user = j.user
    BY <1>1, <1>2, <1>5, UpdatedFrom DEF RowsInv
  <2>10. ASSUME NEW j \in items', NEW k \in items',
                j.id = k.id \/ (j.table = k.table /\ j.user = k.user /\ j.code = k.code)
         PROVE  j = k
    <3>1. PICK i \in items : /\ j.id = i.id /\ j.table = i.table
                             /\ j.user = i.user /\ j.code = i.code
                             /\ j = (IF i \in ById(req[r]) THEN PatchOf(i, req[r]) ELSE i)
      BY <1>5, UpdatedFrom
    <3>2. PICK h \in items : /\ k.id = h.id /\ k.table = h.table
                             /\ k.user = h.user /\ k.code = h.code
                             /\ k = (IF h \in ById(req[r]) THEN PatchOf(h, req[r]) ELSE h)
      BY <1>5, UpdatedFrom
    <3>3. i = h
      BY <1>1, <2>10, <3>1, <3>2 DEF RowsInv
    <3> QED BY <3>1, <3>2, <3>3
  <2>11. RowsInv'
    BY <2>9, <2>10 DEF RowsInv
  <2>12. items' \in SUBSET Item /\ lastId' \in Nat /\ lastId <= lastId'
    BY <1>1, <1>2, <2>9
  <2> QED BY <1>1, <1>2, <2>3, <2>5, <2>7, <2>8, <2>9, <2>11, <2>12, StepKeeps
<1> QED BY <1>4, <1>5

\* A row is deleted.
LEMMA DeleteKeeps ==
    ASSUME ItemInv, NEW r \in Requests, DeleteItem(r)
    PROVE  ItemInv'
<1>1. /\ TypeInv /\ GoodRequest(r) /\ RowsInv /\ users \subseteq Users /\ faults \in 0..MaxFaults
      /\ lastId \in Nat /\ items \in SUBSET Item
  BY DEF ItemInv, TypeInv
<1>2. /\ req[r].pc = "delete" /\ UNCHANGED <<users, lastId, faults>> /\ items' \subseteq items
      /\ Reply(r, 204)
  BY DEF DeleteItem, At
<1>3. req[r] \in RequestState /\ req \in [Requests -> RequestState]
  BY <1>1 DEF TypeInv
<1>4. PICK x : x = [req[r] EXCEPT !.pc = "done", !.status = 204]
  OBVIOUS
<1>5. x \in RequestState
  <2>1. "done" \in Phases /\ 204 \in Statuses /\ TypeInv
    BY <1>1 DEF Phases, Statuses
  <2> QED BY <1>4, <2>1, MoveTyped
<1>6. /\ x.pc = "done" /\ x.status = 204 /\ x.op = req[r].op /\ x.id = req[r].id
      /\ x.user = req[r].user /\ x.table = req[r].table /\ x.code = req[r].code
  BY <1>3, <1>4 DEF RequestState
<1>7. req' = [req EXCEPT ![r] = x] /\ req'[r] = x
  BY <1>2, <1>3, <1>4 DEF Reply, Set
<1>8. ~Made(r)'
  BY <1>6, <1>7 DEF Made
<1>9. GoodRequest(r)'
  BY <1>1, <1>2, <1>6, <1>7, <1>8 DEF GoodRequest
<1>10. RowsInv'
  BY <1>1, <1>2 DEF RowsInv
<1>11. items' \in SUBSET Item /\ lastId' \in Nat /\ lastId <= lastId'
  BY <1>1, <1>2
<1> QED BY <1>1, <1>2, <1>5, <1>7, <1>8, <1>9, <1>10, <1>11, StepKeeps

-----------------------------------------------------------------------------
(***************************************************************************)
(* The theorems.                                                           *)
(***************************************************************************)
\* There is nothing but profiles at the beginning.
LEMMA InitInv == ConstantsAssumption /\ Init => ItemInv
<1> SUFFICES ASSUME ConstantsAssumption, Init PROVE ItemInv
  OBVIOUS
<1>1. TypeInv
  BY WaitingTyped DEF Init, TypeInv, ConstantsAssumption, UsersAssumption, BoundsAssumption
<1>2. RowsInv
  BY DEF Init, RowsInv
<1>3. ASSUME NEW r \in Requests PROVE GoodRequest(r) /\ ~Made(r)
  <2>1. req[r].pc = "waiting" /\ req[r].status = 0 /\ req[r].op = "list"
    BY WaitingTyped DEF Init
  <2>2. ~Made(r)
    BY <2>1 DEF Made
  <2> QED BY <2>1, <2>2 DEF GoodRequest
<1> QED BY <1>1, <1>2, <1>3 DEF ItemInv, MadeApart

\* Every step keeps the invariant.
LEMMA NextInv == ConstantsAssumption /\ ItemInv /\ [Next]_vars => ItemInv'
<1> SUFFICES ASSUME ConstantsAssumption, ItemInv, [Next]_vars PROVE ItemInv'
  OBVIOUS
<1>1. ASSUME NEW r \in Requests, Receive(r) \/ Step(r) \/ DatabaseError(r) PROVE ItemInv'
  <2>1. CASE Receive(r)
    BY <2>1, ReceiveKeeps
  <2>2. CASE GetUser(r) \/ CreateUser(r)
    BY <2>2, UserKeeps
  <2>3. CASE ListItems(r) \/ FindItem(r) \/ RefreshItem(r) \/ DatabaseError(r)
    BY <2>3, ReadKeeps
  <2>4. CASE InsertItem(r)
    BY <2>4, InsertKeeps
  <2>5. CASE LoadItem(r)
    BY <2>5, LoadKeeps
  <2>6. CASE UpdateItem(r)
    BY <2>6, UpdateKeeps
  <2>7. CASE DeleteItem(r)
    BY <2>7, DeleteKeeps
  <2> QED BY <1>1, <2>1, <2>2, <2>3, <2>4, <2>5, <2>6, <2>7 DEF Step
<1>2. CASE UNCHANGED vars
  <2>1. UNCHANGED <<users, items, lastId, req, faults>>
    BY <1>2 DEF vars
  <2> QED BY <2>1 DEF ItemInv, TypeInv, RowsInv, GoodRequest, MadeApart, Made
<1> QED BY <1>1, <1>2 DEF Next

\* The invariant holds all the time.
LEMMA ItemAlways == ASSUME ConstantsAssumption PROVE Spec => []ItemInv
<1>1. Init => ItemInv
  BY InitInv
<1>2. ItemInv /\ [Next]_vars => ItemInv'
  BY NextInv
<1> QED BY <1>1, <1>2, PTL DEF Spec

\* Whatever requests overlap, no user has two rows of an instrument, and no two creations
\* answer with the same row (portfolio/service.py, db/portfolio_models.py).
THEOREM RowsCorrect == ASSUME ConstantsAssumption PROVE Spec => []RowsAreKeyed
<1>1. ASSUME ItemInv PROVE TypeOK
  <2>1. \A r \in Requests : req[r].status \in {0, 200, 201, 204, 404, 409, 503}
    <3> SUFFICES ASSUME NEW r \in Requests
                 PROVE  req[r].status \in {0, 200, 201, 204, 404, 409, 503}
      OBVIOUS
    <3>1. req[r] \in RequestState
      BY <1>1 DEF ItemInv, TypeInv
    <3> QED BY <3>1 DEF RequestState, Statuses
  <2> QED BY <1>1, <2>1 DEF ItemInv, TypeInv, RowsInv, TypeOK
<1>2. ASSUME ItemInv PROVE KeysAreUnique
  <2>1. \A r \in Requests : req[r].status = 201 => Made(r)
    BY <1>2 DEF ItemInv, GoodRequest, Made
  <2> QED BY <1>2, <2>1 DEF ItemInv, RowsInv, MadeApart, KeysAreUnique
<1>3. ItemInv => RowsAreKeyed
  BY <1>1, <1>2 DEF RowsAreKeyed
<1> QED BY <1>3, ItemAlways, PTL

\* A step that changes a row or takes it away is one of a request of its user, which names
\* every column that changes; and none brings a row back.
LEMMA ChangeStep ==
    ASSUME ConstantsAssumption, ItemInv, [Next]_vars
    PROVE  OwnRowsOnly /\ UpdatesMerge /\ DeletedStaysDeleted
<1>1. /\ \A i, j \in items : i.id = j.id => i = j
      /\ \A i \in items : i.id \in 1..lastId
      /\ lastId \in Nat
  BY DEF ItemInv, RowsInv, TypeInv
<1>2. CASE items' = items
  BY <1>1, <1>2 DEF OwnRowsOnly, UpdatesMerge, DeletedStaysDeleted
<1>3. CASE items' # items
  <2>1. PICK r \in Requests : InsertItem(r) \/ UpdateItem(r) \/ DeleteItem(r)
    BY <1>3 DEF Next, Step, vars, Receive, GetUser, CreateUser, ListItems, FindItem, LoadItem,
                RefreshItem, DatabaseError
  <2>2. req \in [Requests -> RequestState] /\ req[r] \in RequestState /\ GoodRequest(r)
    BY DEF ItemInv, TypeInv
  <2>3. CASE InsertItem(r)
    <3>1. \A j \in items' : j \in items \/ j.id = lastId + 1
      BY <2>3, InsertKeeps
    <3>2. items \subseteq items'
      BY <2>3 DEF InsertItem
    <3> QED BY <1>1, <3>1, <3>2 DEF OwnRowsOnly, UpdatesMerge, DeletedStaysDeleted
  <2>4. CASE UpdateItem(r)
    <3>1. req'[r] # req[r]
      <4>1. req[r].pc = "update" /\ GoTo(r, "refresh")
        BY <1>3, <2>4, UpdateChanges DEF UpdateItem, At
      <4>2. req'[r] = [req[r] EXCEPT !.pc = "refresh"]
        BY <2>2, <4>1 DEF GoTo, Set
      <4>3. req'[r].pc = "refresh"
        BY <2>2, <4>2 DEF RequestState
      <4> QED BY <4>1, <4>3
    <3>2. ASSUME NEW i \in items, i \notin items' PROVE i.user = req[r].user
      <4>1. i \in ById(req[r])
        BY <1>3, <2>4, <3>2, UpdateChanges
      <4>2. req[r].pc = "update"
        BY <2>4 DEF UpdateItem, At
      <4> QED BY <2>2, <4>1, <4>2 DEF GoodRequest, ById
    <3>3. ASSUME NEW i \in items, NEW j \in items', i.id = j.id
          PROVE  \A c \in Columns : i[c] # j[c] => c \in DOMAIN req[r].changes
      <4>1. PICK h \in items : j.id = h.id
                               /\ \A c \in Columns : j[c] # h[c] => c \in DOMAIN req[r].changes
        BY <1>3, <2>4, UpdatedFrom
      <4>2. h = i
        BY <1>1, <3>3, <4>1
      <4> QED BY <4>1, <4>2
    <3>4. OwnRowsOnly
      BY <3>1, <3>2 DEF OwnRowsOnly
    <3>5. UpdatesMerge
      BY <3>1, <3>3 DEF UpdatesMerge
    <3>6. DeletedStaysDeleted
      BY <1>3, <2>4, UpdatedFrom DEF DeletedStaysDeleted
    <3> QED BY <3>4, <3>5, <3>6
  <2>5. CASE DeleteItem(r)
    <3>1. req[r].pc = "delete" /\ Reply(r, 204) /\ items' = items \ ById(req[r])
      BY <2>5 DEF DeleteItem, At
    <3>2. req'[r] # req[r]
      <4>1. req'[r] = [req[r] EXCEPT !.pc = "done", !.status = 204]
        BY <2>2, <3>1 DEF Reply, Set
      <4>2. req'[r].pc = "done"
        BY <2>2, <4>1 DEF RequestState
      <4> QED BY <3>1, <4>2
    <3>3. \A i \in items \ items' : i.user = req[r].user
      BY <2>2, <3>1 DEF GoodRequest, ById
    <3> QED BY <1>1, <3>1, <3>2, <3>3 DEF OwnRowsOnly, UpdatesMerge, DeletedStaysDeleted
  <2> QED BY <2>1, <2>3, <2>4, <2>5
<1> QED BY <1>2, <1>3

\* A request changes and deletes rows of its own user only, and the columns it names; a row
\* that was deleted while a request was under way does not come back (portfolio/service.py).
THEOREM ChangesCorrect ==
    ASSUME ConstantsAssumption
    PROVE  Spec => [][OwnRowsOnly /\ UpdatesMerge /\ DeletedStaysDeleted]_vars
<1>1. ItemInv /\ [Next]_vars => [OwnRowsOnly /\ UpdatesMerge /\ DeletedStaysDeleted]_vars
  BY ChangeStep
<1> QED BY <1>1, ItemAlways, PTL DEF Spec
=============================================================================
