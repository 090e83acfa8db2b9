---------------------------- MODULE PortfolioItems ----------------------------
(***************************************************************************)
(* User profiles, holdings and watchlist items under concurrent requests   *)
(* (portfolio/service.py, api/routes/portfolio.py, db/portfolio_models.py).*)
(* The two tables have the same code and are told apart by a field.        *)
(*                                                                         *)
(* A request is a chain of statements, each its own step: other requests   *)
(* run in between.  The ORM writes a row by its primary key and sends only *)
(* the columns whose new value differs from the one it loaded.             *)
(*                                                                         *)
(* A definition marked "mutant" is a plausible mistake in the definition   *)
(* that follows it; nothing uses it but the tests of the properties.       *)
(***************************************************************************)
EXTENDS Integers

CONSTANTS
    Requests,    \* HTTP requests, each handled once
    Users,       \* user keys, after _normalize_user_key
    KnownUsers,  \* users that have a profile from the start
    Tables,      \* "holdings", "watchlist"
    Codes,       \* market and code of an instrument
    Ids,         \* the ids of rows that requests name
    MaxFaults    \* bound on database errors

Null == "null"
Columns == {"note", "cost"}       \* a column that must not be null, and one that may

\* Assumed of the constants by the modules that give them values.
UsersAssumption == KnownUsers \subseteq Users
TablesAssumption == Tables \subseteq {"holdings", "watchlist"}
BoundsAssumption == Ids \subseteq Nat \ {0} /\ MaxFaults \in Nat

VARIABLES users, items, lastId, req, faults

vars == <<users, items, lastId, req, faults>>

NoRow == [id |-> 0]
Waiting == [pc |-> "waiting", op |-> "list", table |-> "holdings", user |-> Null,
            code |-> Null, id |-> 0, changes |-> <<>>, row |-> NoRow, status |-> 0]

Init ==
    /\ users = KnownUsers
    /\ items = {} /\ lastId = 0
    /\ req = [r \in Requests |-> Waiting]
    /\ faults = 0

Set(r, fields) == req' = [req EXCEPT ![r] = fields]
At(r, pc) == req[r].pc = pc
Reply(r, status) == Set(r, [req[r] EXCEPT !.pc = "done", !.status = status])
GoTo(r, pc) == Set(r, [req[r] EXCEPT !.pc = pc])

SameKey(item, q) == item.table = q.table /\ item.user = q.user /\ item.code = q.code
ById(q) == {i \in items : i.table = q.table /\ i.id = q.id}

\* model_dump(exclude_unset=True): the columns the body names, null included.
Patches == UNION {[cs -> {"new", Null}] : cs \in SUBSET Columns}

Receive(r) ==
    /\ At(r, "waiting")
    /\ \E u \in Users, t \in Tables :
        \/ Set(r, [Waiting EXCEPT !.pc = "user", !.user = u, !.table = t])
        \/ \E c \in Codes :
            Set(r, [Waiting EXCEPT !.pc = "user", !.user = u, !.table = t,
                                   !.op = "create", !.code = c])
        \/ \E i \in Ids :
            \/ Set(r, [Waiting EXCEPT !.pc = "user", !.user = u, !.table = t,
                                      !.op = "delete", !.id = i])
            \/ \E p \in Patches :
                Set(r, [Waiting EXCEPT !.pc = "user", !.user = u, !.table = t,
                                       !.op = "update", !.id = i, !.changes = p])
    /\ UNCHANGED <<users, items, lastId, faults>>

AfterUser(op) == CASE op = "create" -> "find" [] op = "list" -> "list" [] OTHER -> "load"

\* get_or_create_user, of every request, reads the profile first.
GetUser(r) ==
    /\ At(r, "user")
    /\ GoTo(r, IF req[r].user \in users THEN AfterUser(req[r].op) ELSE "new_user")
    /\ UNCHANGED <<users, items, lastId, faults>>

\* The profile is committed by itself; users.user_key is unique.
CreateUser(r) ==
    /\ At(r, "new_user")
    /\ users' = users \cup {req[r].user}
    /\ IF req[r].user \in users THEN Reply(r, 503) ELSE GoTo(r, AfterUser(req[r].op))
    /\ UNCHANGED <<items, lastId, faults>>

ListItems(r) ==
    /\ At(r, "list")
    /\ Reply(r, 200)
    /\ UNCHANGED <<users, items, lastId, faults>>

FindItem(r) ==
    /\ At(r, "find")
    /\ IF \E i \in items : SameKey(i, req[r]) THEN Reply(r, 409) ELSE GoTo(r, "insert")
    /\ UNCHANGED <<users, items, lastId, faults>>

NewItem(q, id) ==
    [id |-> id, table |-> q.table, user |-> q.user, code |-> q.code,
     note |-> "old", cost |-> "old"]

InsertUnchecked(r) ==                                        \* mutant
    /\ At(r, "insert")
    /\ lastId' = lastId + 1
    /\ items' = items \cup {NewItem(req[r], lastId')}
    /\ Set(r, [req[r] EXCEPT !.pc = "refresh", !.id = lastId'])
    /\ UNCHANGED <<users, faults>>

\* The unique key over user, market and code is checked when the row is flushed;
\* the sequence of ids has moved on even when it fails.
InsertItem(r) ==
    /\ At(r, "insert")
    /\ lastId' = lastId + 1
    /\ IF \E i \in items : SameKey(i, req[r])
       THEN Reply(r, 503) /\ UNCHANGED items
       ELSE /\ items' = items \cup {NewItem(req[r], lastId')}
            /\ Set(r, [req[r] EXCEPT !.pc = "refresh", !.id = lastId'])
    /\ UNCHANGED <<users, faults>>

LoadItem(r) ==
    /\ At(r, "load")
    /\ LET found == {i \in ById(req[r]) : i.user = req[r].user}
       IN  IF found = {} THEN Reply(r, 404)
           ELSE \E row \in found : Set(r, [req[r] EXCEPT !.pc = req[r].op, !.row = row])
    /\ UNCHANGED <<users, items, lastId, faults>>

Sent(q) == {c \in DOMAIN q.changes : q.changes[c] # q.row[c]}

Patched(row, q) == [k \in DOMAIN row |-> IF k \in Sent(q) THEN q.changes[k] ELSE row[k]]

PatchedAsLoaded(row, q) == Patched(q.row, q)                 \* mutant

PatchOf(row, q) == Patched(row, q)

\* An UPDATE that names a null note, or meets no row any more, is an error; with
\* nothing to send there is no UPDATE.
UpdateItem(r) ==
    /\ At(r, "update")
    /\ LET q == req[r]  hit == ById(q)
       IN  IF Sent(q) = {} THEN GoTo(r, "refresh") /\ UNCHANGED items
           ELSE IF hit = {} \/ ("note" \in Sent(q) /\ q.changes["note"] = Null)
           THEN Reply(r, 503) /\ UNCHANGED items
           ELSE /\ items' = (items \ hit) \cup {PatchOf(i, q) : i \in hit}
                /\ GoTo(r, "refresh")
    /\ UNCHANGED <<users, lastId, faults>>

RefreshPresent(r) ==                                         \* mutant
    /\ At(r, "refresh") /\ ById(req[r]) # {}
    /\ Reply(r, IF req[r].op = "create" THEN 201 ELSE 200)
    /\ UNCHANGED <<users, items, lastId, faults>>

\* The reply is read back after the commit: a row deleted since is an error.
RefreshItem(r) ==
    /\ At(r, "refresh")
    /\ Reply(r, IF ById(req[r]) = {} THEN 503 ELSE IF req[r].op = "create" THEN 201 ELSE 200)
    /\ UNCHANGED <<users, items, lastId, faults>>

\* A DELETE that meets no row only makes SQLAlchemy warn.
DeleteItem(r) ==
    /\ At(r, "delete")
    /\ items' = items \ ById(req[r])
    /\ Reply(r, 204)
    /\ UNCHANGED <<users, lastId, faults>>

\* Any statement may fail; the route turns SQLAlchemyError into 503.
DatabaseError(r) ==
    /\ req[r].pc \notin {"waiting", "done"}
    /\ faults < MaxFaults
    /\ faults' = faults + 1
    /\ Reply(r, 503)
    /\ UNCHANGED <<users, items, lastId>>

Step(r) == \/ GetUser(r) \/ CreateUser(r) \/ ListItems(r)
           \/ FindItem(r) \/ InsertItem(r) \/ LoadItem(r)
           \/ UpdateItem(r) \/ RefreshItem(r) \/ DeleteItem(r)

Next == \E r \in Requests : Receive(r) \/ Step(r) \/ DatabaseError(r)

Spec == Init /\ [][Next]_vars

\* The event loop runs a request it has started.
FairSpec == Spec /\ \A r \in Requests : WF_vars(Step(r))

-----------------------------------------------------------------------------
TypeOK ==
    /\ KnownUsers \subseteq users /\ users \subseteq Users
    /\ lastId \in Nat /\ faults \in 0..MaxFaults
    /\ \A i \in items : i.id \in 1..lastId /\ i.user \in users
    /\ \A r \in Requests : req[r].status \in {0, 200, 201, 204, 404, 409, 503}

\* Two creations that both passed the duplicate check leave one row, and a create
\* is answered 201 for no more rows than were inserted.
KeysAreUnique ==
    /\ \A i, j \in items :
        i.table = j.table /\ i.user = j.user /\ i.code = j.code => i = j
    /\ \A r, s \in Requests :
        r # s /\ req[r].status = 201 /\ req[s].status = 201 => req[r].id # req[s].id

\* Whatever requests overlap, no user has two rows of an instrument and no two creations
\* answer with the same row (portfolio/service.py, db/portfolio_models.py).
RowsAreKeyed == TypeOK /\ KeysAreUnique

\* A request changes or deletes rows of its own user only.
OwnRowsOnly ==
    \A i \in items \ items' :
      \E r \in Requests : req'[r] # req[r] /\ req[r].user = i.user

\* Concurrent updates of a row merge: a column keeps its value unless the request
\* that writes the row names it.
UpdatesMerge ==
    \A i \in items, j \in items' :
      i.id = j.id /\ i # j =>
          \E r \in Requests : /\ req'[r] # req[r]
                              /\ \A c \in Columns :
                                  i[c] # j[c] => c \in DOMAIN req[r].changes

\* A row deleted while an update of it was under way does not come back.
DeletedStaysDeleted ==
    \A j \in items' : j.id <= lastId => \E i \in items : i.id = j.id
=============================================================================
