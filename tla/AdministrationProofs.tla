------------------------ MODULE AdministrationProofs ------------------------
(***************************************************************************)
(* What the owner administers: chats and settings.                         *)
(*                                                                         *)
(* Chats (TelegramAccess): a request only accepts chats that are           *)
(* authorized while it looks at them, and drops none that was authorized   *)
(* all the time: what it has decided is compared with the history of       *)
(* authorizations since it began.                                          *)
(*                                                                         *)
(* Settings (SettingsEnv): what was saved is in the file and in the        *)
(* environment of the API process, and what that process reads, loads.     *)
(***************************************************************************)
EXTENDS TelegramAccess, SettingsEnv, FiniteSetTheorems, WellFoundedInduction, TLAPS

\* What the module assumes of its constants.
ConstantsAssumption == ChatsAssumption /\ EnvAssumption

\* Requests that send to chats they have authorized.
Sending == {"push", "message"}
Deciding == {"check", "count"}
Writing == {"load", "write"}
Phases == {"idle", "send", "done", "not_found", "error"} \cup Deciding \cup Writing

Row == [user : Users, allowed : BOOLEAN]
RowOrNone == Row \cup {NoRow}
Want == Row \cup [allowed : BOOLEAN] \cup {NoRow}
RequestState ==
    [pc : Phases, kind : {"none", "push", "message", "id", "no_message", "bind", "patch"},
     chat : Chats \cup {None}, todo : SUBSET Chats, chosen : SUBSET Chats,
     accepted : SUBSET Chats, want : Want, loaded : RowOrNone]
SpanState == [ever : SUBSET Chats, always : SUBSET Chats, active : SUBSET Chats]

TypeInv ==
    /\ env \in EnvLists /\ requireBinding \in BOOLEAN
    /\ bindings \in [Chats -> RowOrNone]
    /\ req \in [Requests -> RequestState]
    /\ span \in [Requests -> SpanState]
    /\ sent \in SUBSET [req : Requests, chat : Chats]

\* The chats that a push to everybody must not miss.
Due(r) == {c \in span[r].always : EnvAllows(c) \/ (env = {} /\ c \in span[r].active)}

\* What a request has accepted was authorized, and what it sends it has accepted.
AcceptedWasAuthorized(r) ==
    /\ req[r].pc \in Deciding => req[r].kind \in Sending
    /\ req[r].pc \in Deciding \cup {"send"} => req[r].todo # {}
    /\ req[r].kind \in Sending => req[r].accepted \subseteq span[r].ever
    /\ req[r].kind \in Sending /\ req[r].pc = "send" => req[r].todo \subseteq req[r].accepted

\* The history of a request is that of the bindings there are, none of which is deleted.
HistoryIsTrue(r) ==
    req[r].pc # "idle" =>
        /\ AuthorizedChats(bindings) \subseteq span[r].ever
        /\ span[r].always \subseteq AuthorizedChats(bindings)
        /\ span[r].active \subseteq Bound(bindings)

\* A push to everybody has accepted the chats it must not miss, or will come to them.
NoneIsMissed(r) ==
    /\ req[r].pc = "count" => env = {} /\ ~requireBinding /\ Candidate(r) \notin span[r].active
    /\ req[r].kind = "push" /\ req[r].chosen = {} =>
        /\ req[r].pc \in Deciding => Due(r) \subseteq req[r].accepted \cup req[r].todo
        /\ req[r].pc \in {"send", "done"} => Due(r) \subseteq req[r].accepted

\* A request about a binding writes a whole row, or over one that it has loaded.
WritesARow(r) ==
    /\ req[r].kind = "bind" => req[r].want \in Row
    /\ req[r].pc \in Writing => req[r].kind \in {"bind", "patch"} /\ req[r].chat \in Chats
    /\ req[r].pc = "write" /\ req[r].loaded = NoRow => req[r].want \in Row
    /\ req[r].pc = "write" /\ req[r].loaded # NoRow => bindings[req[r].chat] # NoRow

GoodRequest(r) ==
    AcceptedWasAuthorized(r) /\ HistoryIsTrue(r) /\ NoneIsMissed(r) /\ WritesARow(r)

\* Messages are those of requests that have decided, to chats that were authorized.
SentInv ==
    \A m \in sent :
        /\ req[m.req].pc \notin {"idle"} \cup Deciding
        /\ req[m.req].kind \in Sending => m.chat \in span[m.req].ever

\* The inductive invariant.
AccessInv == TypeInv /\ (\A r \in Requests : GoodRequest(r)) /\ SentInv

-----------------------------------------------------------------------------
(***************************************************************************)
(* The next candidate.                                                     *)
(***************************************************************************)
\* A nonempty set of natural numbers has a least element.
LEMMA LeastNumber ==
    ASSUME NEW S \in SUBSET Nat, S # {}
    PROVE  \E m \in S : \A n \in S : m <= n
<1> DEFINE R == OpToRel(<, Nat)
<1>1. IsWellFoundedOn(R, Nat)
  BY NatLessThanWellFounded
<1>2. \A a, b \in Nat : <<a, b>> \in R <=> a < b
  BY DEF OpToRel
<1> HIDE DEF R
<1>3. PICK m \in S : \A n \in S : <<n, m>> \notin R
  BY <1>1, WFMin
<1>4. ASSUME NEW n \in S PROVE m <= n
  <2>1. m \in Nat /\ n \in Nat /\ ~(<<n, m>> \in R)
    BY <1>3
  <2> QED BY <1>2, <2>1
<1> QED BY <1>4

\* A nonempty set of chats has a least one: the one with the fewest below it.
LEMMA LeastChat ==
    ASSUME ChatsAssumption, NEW S \in SUBSET Chats, S # {}
    PROVE  \E c \in S : \A d \in S : c <= d
<1> DEFINE Below(c) == {d \in S : d < c}
           D == {Cardinality(Below(c)) : c \in S}
<1>1. IsFiniteSet(S)
  BY FS_Subset DEF ChatsAssumption
<1>2. ASSUME NEW c \in S PROVE IsFiniteSet(Below(c)) /\ Cardinality(Below(c)) \in Nat
  <2>1. Below(c) \in SUBSET S
    OBVIOUS
  <2> HIDE DEF Below
  <2>2. IsFiniteSet(Below(c))
    BY <1>1, <2>1, FS_Subset
  <2> QED BY <2>2, FS_CardinalityType
<1>3. D \in SUBSET Nat /\ D # {}
  BY <1>2
<1> HIDE DEF D
<1>4. PICK n \in D : \A m \in D : n <= m
  BY <1>3, LeastNumber
<1>5. PICK c \in S : n = Cardinality(Below(c))
  BY <1>4 DEF D
<1>6. ASSUME NEW d \in S, ~(c <= d) PROVE FALSE
  <2>1. c \in Int /\ d \in Int /\ d < c
    BY <1>6 DEF ChatsAssumption
  <2>2. Below(d) \subseteq Below(c) \ {d} /\ d \in Below(c)
    <3>1. ASSUME NEW e \in S, e < d PROVE e < c /\ e # d
      <4>1. e \in Int
        BY DEF ChatsAssumption
      <4> QED BY <3>1, <2>1, <4>1
    <3> QED BY <3>1, <2>1
  <2>3. IsFiniteSet(Below(c)) /\ Cardinality(Below(c)) \in Nat /\ Cardinality(Below(d)) \in Nat
    BY <1>2
  <2>4. n <= Cardinality(Below(d))
    BY <1>4 DEF D
  <2> HIDE DEF Below
  <2>5. IsFiniteSet(Below(c) \ {d}) /\ Cardinality(Below(c) \ {d}) = Cardinality(Below(c)) - 1
    BY <2>2, <2>3, FS_RemoveElement
  <2>6. Cardinality(Below(d)) <= Cardinality(Below(c) \ {d})
    BY <2>2, <2>5, FS_Subset
  <2> QED BY <1>5, <2>3, <2>4, <2>5, <2>6
<1> QED BY <1>6

\* The next candidate is one of those still to be looked at.
LEMMA CandidateIsThere ==
    ASSUME ChatsAssumption, TypeInv, NEW r \in Requests, req[r].todo # {}
    PROVE  Candidate(r) \in req[r].todo /\ Candidate(r) \in Chats
<1>1. req[r].todo \in SUBSET Chats
  BY DEF TypeInv, RequestState
<1>2. \E c \in req[r].todo : \A d \in req[r].todo : c <= d
  BY <1>1, LeastChat
<1> QED BY <1>1, <1>2 DEF Candidate

-----------------------------------------------------------------------------
(***************************************************************************)
(* What a step leaves of the other requests.                               *)
(***************************************************************************)
\* A request that does not move keeps what it knows, while bindings are added and changed
\* and its history follows them.
LEMMA KeepsRequest ==
    ASSUME TypeInv, NEW q \in Requests, GoodRequest(q), UNCHANGED settings, req'[q] = req[q],
           span'[q].active = span[q].active, span[q].ever \subseteq span'[q].ever,
           span'[q].always \subseteq span[q].always,
           req[q].pc # "idle" => /\ AuthorizedChats(bindings)' \subseteq span'[q].ever
                                 /\ span'[q].always \subseteq AuthorizedChats(bindings)',
           Bound(bindings) \subseteq Bound(bindings)'
    PROVE  GoodRequest(q)'
<1>1. AcceptedWasAuthorized(q)'
  BY DEF GoodRequest, AcceptedWasAuthorized
<1>2. HistoryIsTrue(q)'
  BY DEF GoodRequest, HistoryIsTrue, AuthorizedChats, Authorized, EnvAllows, Bound, settings
<1>3. Candidate(q)' = Candidate(q)
  BY DEF Candidate
<1>4. Due(q)' \subseteq Due(q)
  BY DEF Due, EnvAllows, settings
<1>5. NoneIsMissed(q)'
  BY <1>3, <1>4 DEF GoodRequest, NoneIsMissed, settings
<1>6. WritesARow(q)'
  <2>1. WritesARow(q) /\ (req[q].pc = "write" => req[q].chat \in Chats)
    BY DEF GoodRequest, WritesARow, Writing
  <2>2. \A c \in Chats : bindings[c] # NoRow => bindings'[c] # NoRow
    BY DEF Bound
  <2> QED BY <2>1, <2>2 DEF WritesARow
<1> QED BY <1>1, <1>2, <1>5, <1>6 DEF GoodRequest

\* One request moves, and no binding changes.
LEMMA LocalStep ==
    ASSUME AccessInv, NEW r \in Requests, NEW x \in RequestState,
           req' = [req EXCEPT ![r] = x], UNCHANGED <<env, requireBinding, bindings, span>>,
           GoodRequest(r)',
           \/ req[r].pc \in {"idle"} \cup Deciding
           \/ x.kind = req[r].kind /\ x.pc \notin {"idle"} \cup Deciding,
           \A m \in sent' : \/ m \in sent
                            \/ /\ m \in [req : Requests, chat : Chats] /\ m.req = r
                               /\ x.pc \notin {"idle"} \cup Deciding
                               /\ x.kind \in Sending => m.chat \in span[r].ever
    PROVE  AccessInv'
<1>1. TypeInv /\ (\A q \in Requests : GoodRequest(q)) /\ SentInv
  BY DEF AccessInv
<1>2. req \in [Requests -> RequestState] /\ req'[r] = x
  BY <1>1 DEF TypeInv
<1>3. TypeInv'
  <2>1. req' \in [Requests -> RequestState]
    BY <1>2
  <2>2. sent' \in SUBSET [req : Requests, chat : Chats]
    BY <1>1 DEF TypeInv
  <2> QED BY <1>1, <2>1, <2>2 DEF TypeInv
<1>4. ASSUME NEW q \in Requests PROVE GoodRequest(q)'
  <2>1. CASE q = r
    BY <2>1
  <2>2. CASE q # r
    <3>1. req'[q] = req[q]
      BY <1>2, <2>2
    <3>2. GoodRequest(q) /\ HistoryIsTrue(q)
      BY <1>1 DEF GoodRequest
    <3>3. AuthorizedChats(bindings)' = AuthorizedChats(bindings)
      BY DEF AuthorizedChats, Authorized, EnvAllows, Bound
    <3>4. Bound(bindings)' = Bound(bindings)
      BY DEF Bound
    <3> QED BY <1>1, <3>1, <3>2, <3>3, <3>4, KeepsRequest DEF HistoryIsTrue, settings
  <2> QED BY <2>1, <2>2
<1>5. ASSUME NEW m \in sent'
      PROVE  /\ req'[m.req].pc \notin {"idle"} \cup Deciding
             /\ req'[m.req].kind \in Sending => m.chat \in span'[m.req].ever
  <2>1. CASE m \in sent /\ m.req # r
    <3>1. req'[m.req] = req[m.req]
      BY <1>1, <1>2, <2>1 DEF TypeInv
    <3> QED BY <1>1, <2>1, <3>1 DEF SentInv
  <2>2. CASE m \in sent /\ m.req = r
    BY <1>1, <1>2, <2>2 DEF SentInv
  <2>3. CASE m \notin sent
    BY <1>2, <2>3
  <2> QED BY <2>1, <2>2, <2>3
<1>6. SentInv'
  BY <1>5 DEF SentInv
<1> QED BY <1>3, <1>4, <1>6 DEF AccessInv

-----------------------------------------------------------------------------
(***************************************************************************)
(* The steps of a request.                                                 *)
(***************************************************************************)
\* An answer about the next candidate: accepted only if authorized now, and refused only
\* if it need not be accepted.
LEMMA DecideKeeps ==
    ASSUME ConstantsAssumption, AccessInv, NEW r \in Requests, NEW allowed \in BOOLEAN,
           req[r].pc \in Deciding, Decide(r, allowed),
           UNCHANGED <<env, requireBinding, bindings, sent, span>>,
           allowed => Candidate(r) \in AuthorizedChats(bindings),
           ~allowed => Candidate(r) \notin Due(r)
    PROVE  AccessInv'
<1> DEFINE c == Candidate(r)
           left == req[r].todo \ {c}
           accepted == req[r].accepted \cup (IF allowed THEN {c} ELSE {})
           pc == IF left # {} THEN "check" ELSE IF accepted # {} THEN "send" ELSE "done"
           todo == IF left = {} THEN accepted ELSE left
           x == [req[r] EXCEPT !.todo = todo, !.accepted = accepted, !.pc = pc]
<1>1. TypeInv /\ GoodRequest(r) /\ AcceptedWasAuthorized(r) /\ HistoryIsTrue(r) /\ NoneIsMissed(r)
  BY DEF AccessInv, GoodRequest
<1>2. req \in [Requests -> RequestState] /\ req[r] \in RequestState
  BY <1>1 DEF TypeInv
<1>3. req[r].kind \in Sending /\ req[r].pc # "idle" /\ req[r].todo # {}
  BY <1>1 DEF AcceptedWasAuthorized, Deciding
<1>4. c \in req[r].todo /\ c \in Chats
  BY <1>1, <1>3, CandidateIsThere DEF ConstantsAssumption
<1>5. req' = [req EXCEPT ![r] = x]
  BY <1>2 DEF Decide
<1> HIDE DEF c
<1>6. left \in SUBSET Chats /\ accepted \in SUBSET Chats /\ todo \in SUBSET Chats
  BY <1>2, <1>4 DEF RequestState
<1>7. x \in RequestState
  BY <1>2, <1>6 DEF RequestState, Phases, Deciding
<1>8. /\ req'[r] = x /\ x.todo = todo /\ x.accepted = accepted /\ x.pc = pc
      /\ x.kind = req[r].kind /\ x.chosen = req[r].chosen
  BY <1>2, <1>5 DEF RequestState
<1>9. accepted \subseteq span[r].ever
  BY <1>1, <1>3, <1>4 DEF AcceptedWasAuthorized, HistoryIsTrue, c
<1>10. Due(r)' = Due(r)
  BY DEF Due, EnvAllows
<1>11. req[r].kind = "push" /\ req[r].chosen = {} => Due(r) \subseteq accepted \cup left
  BY <1>1, <1>4 DEF NoneIsMissed, c
<1>12. pc \in {"check", "send", "done"} /\ (pc = "send" => todo = accepted /\ accepted # {})
       /\ (pc = "check" => todo = left /\ left # {}) /\ (pc \in {"send", "done"} => left = {})
  OBVIOUS
<1> HIDE DEF left, accepted, pc, todo, x
<1>13. AcceptedWasAuthorized(r)'
  BY <1>3, <1>8, <1>9, <1>12 DEF AcceptedWasAuthorized, Deciding
<1>14. HistoryIsTrue(r)'
  BY <1>1, <1>3 DEF HistoryIsTrue, AuthorizedChats, Authorized, EnvAllows, Bound
<1>15. NoneIsMissed(r)'
  BY <1>8, <1>10, <1>11, <1>12 DEF NoneIsMissed, Deciding
<1>16. WritesARow(r)'
  BY <1>3, <1>8, <1>12 DEF WritesARow, Writing, Sending
<1>17. GoodRequest(r)'
  BY <1>13, <1>14, <1>15, <1>16 DEF GoodRequest
<1> QED BY <1>5, <1>7, <1>17, LocalStep

\* The first SELECT of an authorization: the allowlist, then the binding of the chat.
LEMMA ReadBindingKeeps ==
    ASSUME ConstantsAssumption, AccessInv, NEW r \in Requests, ReadBinding(r)
    PROVE  AccessInv'
<1> DEFINE c == Candidate(r)
<1>1. TypeInv /\ GoodRequest(r) /\ AcceptedWasAuthorized(r) /\ HistoryIsTrue(r) /\ NoneIsMissed(r)
  BY DEF AccessInv, GoodRequest
<1>2. req[r].pc = "check" /\ UNCHANGED <<env, requireBinding, bindings, sent, span>>
  BY DEF ReadBinding
<1>3. req[r].todo # {} /\ req[r].kind \in Sending
  BY <1>1, <1>2 DEF AcceptedWasAuthorized, Deciding
<1>4. c \in req[r].todo /\ c \in Chats
  BY <1>1, <1>3, CandidateIsThere DEF ConstantsAssumption
<1>5. Due(r) \subseteq AuthorizedChats(bindings) /\ req[r].pc \in Deciding
  BY <1>1, <1>2 DEF HistoryIsTrue, Due, Deciding
<1>6. c \in Due(r) => (env # {} => EnvAllows(c))
  BY DEF Due
<1>7. bindings[c] # NoRow => bindings[c].allowed \in BOOLEAN
  BY <1>1, <1>4 DEF TypeInv, RowOrNone, Row
<1> DEFINE refused == env # {} /\ ~EnvAllows(c)
           bound == bindings[c] # NoRow
<1>8. CASE refused
  <2>1. Decide(r, FALSE)
    BY <1>8 DEF ReadBinding
  <2> QED BY <1>2, <1>5, <1>6, <1>8, <2>1, DecideKeeps
<1>9. CASE ~refused /\ bound
  <2>1. Decide(r, bindings[c].allowed)
    BY <1>9 DEF ReadBinding
  <2>2. c \in AuthorizedChats(bindings) <=> bindings[c].allowed
    BY <1>4, <1>7, <1>9 DEF AuthorizedChats, Authorized
  <2>3. PICK allowed \in BOOLEAN : allowed = bindings[c].allowed
    BY <1>7, <1>9
  <2>4. Decide(r, allowed)
    BY <2>1, <2>3
  <2>5. allowed => c \in AuthorizedChats(bindings)
    BY <2>2, <2>3
  <2>6. ~allowed => c \notin Due(r)
    BY <1>5, <2>2, <2>3
  <2> QED BY <1>2, <1>5, <2>4, <2>5, <2>6, DecideKeeps
<1>10. CASE ~refused /\ ~bound /\ env # {}
  <2>1. Decide(r, TRUE)
    BY <1>10 DEF ReadBinding
  <2>2. c \in AuthorizedChats(bindings)
    BY <1>4, <1>10 DEF AuthorizedChats, Authorized
  <2> QED BY <1>2, <1>5, <2>1, <2>2, DecideKeeps
<1>11. CASE ~refused /\ ~bound /\ env = {} /\ requireBinding
  <2>1. Decide(r, FALSE)
    BY <1>11 DEF ReadBinding
  <2>2. c \notin AuthorizedChats(bindings)
    BY <1>4, <1>11 DEF AuthorizedChats, Authorized
  <2> QED BY <1>2, <1>5, <2>1, <2>2, DecideKeeps
<1>12. CASE ~bound /\ env = {} /\ ~requireBinding
  <2> DEFINE x == [req[r] EXCEPT !.pc = "count"]
  <2>1. req \in [Requests -> RequestState] /\ req[r] \in RequestState
    BY <1>1 DEF TypeInv
  <2>2. req' = [req EXCEPT ![r] = x]
    BY <1>12, <2>1 DEF ReadBinding
  <2>3. x \in RequestState
    BY <2>1 DEF RequestState, Phases, Deciding
  <2>4. /\ req'[r] = x /\ x.todo = req[r].todo /\ x.accepted = req[r].accepted /\ x.pc = "count"
        /\ x.kind = req[r].kind /\ x.chosen = req[r].chosen
    BY <2>1, <2>2 DEF RequestState
  <2> HIDE DEF x
  <2>5. Candidate(r)' = c /\ c \notin span[r].active
    <3>1. Candidate(r)' = c
      BY <2>4 DEF Candidate
    <3>2. c \notin span[r].active
      BY <1>1, <1>2, <1>12 DEF HistoryIsTrue, Bound
    <3> QED BY <3>1, <3>2
  <2> HIDE DEF c
  <2>6. AcceptedWasAuthorized(r)'
    BY <1>1, <1>2, <1>3, <2>4 DEF AcceptedWasAuthorized, Deciding
  <2>7. HistoryIsTrue(r)'
    BY <1>1, <1>2 DEF HistoryIsTrue, AuthorizedChats, Authorized, EnvAllows, Bound
  <2>8. Due(r)' = Due(r)
    BY <1>2 DEF Due, EnvAllows
  <2>9. NoneIsMissed(r)'
    BY <1>1, <1>2, <1>12, <2>4, <2>5, <2>8 DEF NoneIsMissed, Deciding
  <2>10. WritesARow(r)'
    BY <1>3, <2>4 DEF WritesARow, Writing, Sending
  <2>11. GoodRequest(r)'
    BY <2>6, <2>7, <2>9, <2>10 DEF GoodRequest
  <2> QED BY <1>2, <1>5, <2>2, <2>3, <2>11, LocalStep
<1> QED BY <1>8, <1>9, <1>10, <1>11, <1>12

\* The second SELECT: a chat without a binding, as long as no chat has one.
LEMMA CountBindingsKeeps ==
    ASSUME ConstantsAssumption, AccessInv, NEW r \in Requests, CountBindings(r)
    PROVE  AccessInv'
<1> DEFINE c == Candidate(r)
<1>1. TypeInv /\ AcceptedWasAuthorized(r) /\ NoneIsMissed(r)
  BY DEF AccessInv, GoodRequest
<1>2. /\ req[r].pc = "count" /\ Decide(r, Bound(bindings) = {})
      /\ UNCHANGED <<env, requireBinding, bindings, sent, span>>
  BY DEF CountBindings
<1>3. req[r].pc \in Deciding /\ req[r].todo # {}
  BY <1>1, <1>2 DEF AcceptedWasAuthorized, Deciding
<1>4. c \in Chats
  BY <1>1, <1>3, CandidateIsThere DEF ConstantsAssumption
<1>5. env = {} /\ ~requireBinding /\ c \notin span[r].active
  BY <1>1, <1>2 DEF NoneIsMissed
<1>6. (Bound(bindings) = {}) => c \in AuthorizedChats(bindings)
  BY <1>4, <1>5 DEF AuthorizedChats, Authorized, Bound
<1>7. c \notin Due(r)
  BY <1>5 DEF Due, EnvAllows
<1>8. (Bound(bindings) = {}) \in BOOLEAN
  OBVIOUS
<1> QED BY <1>2, <1>3, <1>6, <1>7, <1>8, DecideKeeps

\* A message to a chat that has been accepted.
LEMMA SendKeeps ==
    ASSUME ConstantsAssumption, AccessInv, NEW r \in Requests, Send(r)
    PROVE  AccessInv'
<1> DEFINE c == Candidate(r)
           m == [req |-> r, chat |-> c]
           todo == req[r].todo \ {c}
           pc == IF req[r].todo = {c} THEN "done" ELSE "send"
           x == [req[r] EXCEPT !.todo = todo, !.pc = pc]
<1>1. TypeInv /\ GoodRequest(r) /\ AcceptedWasAuthorized(r) /\ HistoryIsTrue(r) /\ NoneIsMissed(r)
  BY DEF AccessInv, GoodRequest
<1>2. /\ req[r].pc = "send" /\ sent' \in {sent, sent \cup {m}}
      /\ UNCHANGED <<env, requireBinding, bindings, span>>
  BY DEF Send
<1>3. req \in [Requests -> RequestState] /\ req[r] \in RequestState
  BY <1>1 DEF TypeInv
<1>4. c \in req[r].todo /\ c \in Chats
  BY <1>1, <1>2, CandidateIsThere DEF ConstantsAssumption, AcceptedWasAuthorized
<1>5. req' = [req EXCEPT ![r] = x]
  BY <1>3 DEF Send
<1> HIDE DEF c
<1>6. x \in RequestState
  BY <1>3 DEF RequestState, Phases
<1>7. /\ req'[r] = x /\ x.todo = todo /\ x.accepted = req[r].accepted /\ x.pc = pc
      /\ x.kind = req[r].kind /\ x.chosen = req[r].chosen
  BY <1>3, <1>5 DEF RequestState
<1>8. pc \in {"send", "done"} /\ (pc = "send" => todo # {}) /\ todo \subseteq req[r].todo
  BY <1>4
<1>9. req[r].kind \in Sending => c \in span[r].ever
  BY <1>1, <1>2, <1>4 DEF AcceptedWasAuthorized
<1>10. Due(r)' = Due(r)
  BY <1>2 DEF Due, EnvAllows
<1> HIDE DEF todo, pc, x
<1>11. AcceptedWasAuthorized(r)'
  BY <1>1, <1>2, <1>7, <1>8 DEF AcceptedWasAuthorized, Deciding
<1>12. HistoryIsTrue(r)'
  BY <1>1, <1>2 DEF HistoryIsTrue, AuthorizedChats, Authorized, EnvAllows, Bound
<1>13. NoneIsMissed(r)'
  BY <1>1, <1>2, <1>7, <1>8, <1>10 DEF NoneIsMissed, Deciding
<1>14. WritesARow(r)'
  <2>1. req[r].kind = "bind" => req[r].want \in Row
    BY DEF AccessInv, GoodRequest, WritesARow
  <2>2. x.want = req[r].want
    BY <1>3 DEF x, RequestState
  <2> QED BY <1>7, <1>8, <2>1, <2>2 DEF WritesARow, Writing
<1>15. GoodRequest(r)'
  BY <1>11, <1>12, <1>13, <1>14 DEF GoodRequest
<1>16. x.kind = req[r].kind /\ x.pc \notin {"idle"} \cup Deciding
  BY <1>7, <1>8 DEF Deciding
<1>17. ASSUME NEW n \in sent'
       PROVE  \/ n \in sent
              \/ /\ n \in [req : Requests, chat : Chats] /\ n.req = r
                 /\ x.pc \notin {"idle"} \cup Deciding
                 /\ x.kind \in Sending => n.chat \in span[r].ever
  BY <1>2, <1>4, <1>9, <1>16
<1> QED BY <1>2, <1>5, <1>6, <1>15, <1>16, <1>17, LocalStep

-----------------------------------------------------------------------------
(***************************************************************************)
(* A request begins.                                                       *)
(***************************************************************************)
\* A request that has not begun.
LEMMA IdleTyped == Idle \in RequestState
BY DEF Idle, RequestState, Phases, Want, RowOrNone

\* The history begins with the authorizations there are, and a push to everybody has
\* everyone it must not miss before it.
LEMMA BeginKeeps ==
    ASSUME AccessInv, NEW r \in Requests, NEW x \in RequestState, Begin(r, x),
           x.pc \notin {"idle", "count", "write"}, x.accepted = {},
           x.pc = "check" => x.kind \in Sending,
           x.pc = "send" => x.kind = "id",
           x.pc \in {"check", "send"} => x.todo # {},
           x.pc = "load" => x.kind \in {"bind", "patch"} /\ x.chat \in Chats,
           x.kind = "bind" => x.want \in Row,
           x.kind = "push" /\ x.chosen = {} =>
               /\ x.pc \in {"check", "done"} /\ (x.pc = "done" => x.todo = {})
               /\ \A c \in AuthorizedChats(bindings) :
                      EnvAllows(c) \/ (env = {} /\ c \in ActiveBindings(bindings)) => c \in x.todo
    PROVE  AccessInv'
<1> DEFINE y == [ever |-> AuthorizedChats(bindings), always |-> AuthorizedChats(bindings),
                 active |-> ActiveBindings(bindings)]
<1>1. TypeInv /\ SentInv /\ (\A q \in Requests : GoodRequest(q))
  BY DEF AccessInv
<1>2. /\ req[r].pc = "idle" /\ req' = [req EXCEPT ![r] = x] /\ span' = [span EXCEPT ![r] = y]
      /\ UNCHANGED <<env, requireBinding, bindings, sent>>
  BY DEF Begin
<1>3. req \in [Requests -> RequestState] /\ span \in [Requests -> SpanState]
  BY <1>1 DEF TypeInv
<1>4. y \in SpanState
  BY DEF SpanState, AuthorizedChats, ActiveBindings, Bound
<1>5. req'[r] = x /\ span'[r] = y
  BY <1>2, <1>3
<1>6. AuthorizedChats(bindings)' = AuthorizedChats(bindings) /\ Bound(bindings)' = Bound(bindings)
  BY <1>2 DEF AuthorizedChats, Authorized, EnvAllows, Bound
<1>7. /\ span'[r].ever = AuthorizedChats(bindings) /\ span'[r].always = AuthorizedChats(bindings)
      /\ span'[r].active = ActiveBindings(bindings)
  BY <1>5
<1> HIDE DEF y
<1>8. TypeInv'
  BY <1>1, <1>2, <1>3, <1>4 DEF TypeInv
<1>9. GoodRequest(r)'
  <2>1. AcceptedWasAuthorized(r)'
    BY <1>5 DEF AcceptedWasAuthorized, Deciding, Sending
  <2>2. HistoryIsTrue(r)'
    <3>1. ActiveBindings(bindings) \subseteq Bound(bindings)
      BY DEF ActiveBindings
    <3> QED BY <1>6, <1>7, <3>1 DEF HistoryIsTrue
  <2>3. NoneIsMissed(r)'
    <3>1. Due(r)' = {c \in AuthorizedChats(bindings) :
                         EnvAllows(c) \/ (env = {} /\ c \in ActiveBindings(bindings))}
      BY <1>2, <1>7 DEF Due, EnvAllows
    <3>2. x.kind = "push" /\ x.chosen = {} => Due(r)' \subseteq x.todo
      BY <3>1
    <3> QED BY <1>5, <3>2 DEF NoneIsMissed, Deciding
  <2>4. WritesARow(r)'
    BY <1>5 DEF WritesARow, Writing
  <2> QED BY <2>1, <2>2, <2>3, <2>4 DEF GoodRequest
<1>10. ASSUME NEW q \in Requests, q # r PROVE GoodRequest(q)'
  <2>1. req'[q] = req[q] /\ span'[q] = span[q]
    BY <1>2, <1>3, <1>10
  <2>2. GoodRequest(q) /\ HistoryIsTrue(q)
    BY <1>1 DEF GoodRequest
  <2> QED BY <1>1, <1>2, <1>6, <2>1, <2>2, KeepsRequest DEF HistoryIsTrue, settings
<1>11. ASSUME NEW m \in sent'
       PROVE  /\ req'[m.req].pc \notin {"idle"} \cup Deciding
              /\ req'[m.req].kind \in Sending => m.chat \in span'[m.req].ever
  <2>1. m \in sent /\ m.req \in Requests /\ m.req # r
    BY <1>1, <1>2 DEF SentInv, TypeInv
  <2>2. req'[m.req] = req[m.req] /\ span'[m.req] = span[m.req]
    BY <1>2, <1>3, <2>1
  <2> QED BY <1>1, <2>1, <2>2 DEF SentInv
<1>12. SentInv'
  BY <1>11 DEF SentInv
<1> QED BY <1>8, <1>9, <1>10, <1>12 DEF AccessInv

\* The candidates of a push to everybody: those the allowlist names, or the active bindings.
LEMMA StartPushKeeps ==
    ASSUME ConstantsAssumption, AccessInv, NEW r \in Requests, StartPush(r)
    PROVE  AccessInv'
<1>1. TypeInv
  BY DEF AccessInv
<1>2. PICK chosen \in SUBSET Chats :
        Begin(r, [Idle EXCEPT !.pc = IF Candidates(chosen) = {} THEN "done" ELSE "check",
                              !.kind = "push", !.chosen = chosen, !.todo = Candidates(chosen)])
  BY DEF StartPush
<1>3. EnvIds \subseteq Chats
  BY <1>1 DEF TypeInv, EnvIds, ConstantsAssumption, EnvAssumption
<1>4. ASSUME NEW c \in Chats, EnvAllows(c) PROVE c \in EnvIds
  <2>1. PICK e \in env : e.chat = c
    BY <1>4 DEF EnvAllows
  <2>2. c # None
    BY DEF ConstantsAssumption, ChatsAssumption
  <2> QED BY <2>1, <2>2 DEF EnvIds
<1>5. env = {} => EnvIds = {}
  BY DEF EnvIds
<1>6. ActiveBindings(bindings) \subseteq Chats
  BY DEF ActiveBindings, Bound
<1>7. PICK todo \in SUBSET Chats : todo = Candidates(chosen)
  BY <1>3, <1>6 DEF Candidates
<1> DEFINE x == [Idle EXCEPT !.pc = IF todo = {} THEN "done" ELSE "check",
                             !.kind = "push", !.chosen = chosen, !.todo = todo]
<1>8. Begin(r, x)
  BY <1>2, <1>7
<1>9. Idle \in RequestState
  BY IdleTyped
<1>10. x \in RequestState
  BY <1>9 DEF RequestState, Phases, Deciding
<1>11. chosen = {} => \A c \in AuthorizedChats(bindings) :
           EnvAllows(c) \/ (env = {} /\ c \in ActiveBindings(bindings)) => c \in todo
  BY <1>4, <1>5, <1>7 DEF Candidates, AuthorizedChats
<1>12. /\ x.pc \in {"check", "done"} /\ (x.pc = "check" <=> todo # {}) /\ x.kind = "push"
       /\ x.chosen = chosen /\ x.todo = todo /\ x.accepted = {}
  BY DEF Idle
<1> HIDE DEF x
<1> QED BY <1>8, <1>10, <1>11, <1>12, BeginKeeps DEF Sending

\* A message is looked at, answered with the number of its chat, or dropped.
LEMMA StartMessageKeeps ==
    ASSUME ConstantsAssumption, AccessInv, NEW r \in Requests, StartMessage(r)
    PROVE  AccessInv'
<1>1. PICK c \in Chats :
        \/ Begin(r, [Idle EXCEPT !.pc = "check", !.kind = "message", !.chat = c, !.todo = {c}])
        \/ Begin(r, [Idle EXCEPT !.pc = "send", !.kind = "id", !.chat = c, !.todo = {c}])
        \/ Begin(r, [Idle EXCEPT !.pc = "done", !.kind = "no_message"])
  BY DEF StartMessage
<1> DEFINE Looked == [Idle EXCEPT !.pc = "check", !.kind = "message", !.chat = c, !.todo = {c}]
           Named == [Idle EXCEPT !.pc = "send", !.kind = "id", !.chat = c, !.todo = {c}]
           Dropped == [Idle EXCEPT !.pc = "done", !.kind = "no_message"]
<1>2. PICK x \in {Looked, Named, Dropped} : Begin(r, x)
  BY <1>1
<1>3. x \in RequestState
  <2>1. Idle \in RequestState
    BY IdleTyped
  <2>2. Looked \in RequestState /\ Named \in RequestState /\ Dropped \in RequestState
    BY <2>1 DEF RequestState, Phases, Deciding
  <2> QED BY <1>2, <2>2
<1>4. /\ x.pc \in {"check", "send", "done"} /\ x.accepted = {}
      /\ x.kind \in {"message", "id", "no_message"}
      /\ (x.pc = "check" => x.kind = "message") /\ (x.pc = "send" => x.kind = "id")
      /\ (x.pc \in {"check", "send"} => x.todo # {})
  BY <1>2 DEF Idle
<1> QED BY <1>2, <1>3, <1>4, BeginKeeps DEF Sending

\* A request about a binding, which for a new one names all columns.
LEMMA StartBindingKeeps ==
    ASSUME ConstantsAssumption, AccessInv, NEW r \in Requests, StartBind(r) \/ StartPatch(r)
    PROVE  AccessInv'
<1> DEFINE start(kind, chat, want) ==
             [Idle EXCEPT !.pc = "load", !.kind = kind, !.chat = chat, !.want = want]
<1>1. PICK c \in Chats, kind \in {"bind", "patch"}, want \in Want :
        Begin(r, start(kind, c, want)) /\ (kind = "bind" => want \in Row)
  <2>1. CASE StartBind(r)
    <3>1. PICK c \in Chats, u \in Users, a \in BOOLEAN :
            Begin(r, start("bind", c, [user |-> u, allowed |-> a]))
      BY <2>1 DEF StartBind
    <3>2. [user |-> u, allowed |-> a] \in Row
      BY DEF Row
    <3> HIDE DEF start
    <3> QED BY <3>1, <3>2 DEF Want
  <2>2. CASE StartPatch(r)
    <3>1. PICK c \in Chats, w \in {NoRow} \cup [allowed : BOOLEAN] : Begin(r, start("patch", c, w))
      BY <2>2 DEF StartPatch
    <3> HIDE DEF start
    <3> QED BY <3>1 DEF Want
  <2> QED BY <2>1, <2>2
<1> DEFINE x == start(kind, c, want)
<1>2. x \in RequestState
  <2>1. Idle \in RequestState
    BY IdleTyped
  <2> QED BY <2>1 DEF RequestState, Phases, Writing
<1>3. x.pc = "load" /\ x.accepted = {} /\ x.kind = kind /\ x.chat = c /\ x.want = want
  BY DEF Idle
<1> HIDE DEF x
<1>4. Begin(r, x) /\ (kind = "bind" => want \in Row)
  BY <1>1 DEF x
<1> QED BY <1>2, <1>3, <1>4, BeginKeeps

-----------------------------------------------------------------------------
(***************************************************************************)
(* Bindings change, and statements fail.                                   *)
(***************************************************************************)
\* A request about a binding reads the row.
LEMMA LoadBindingKeeps ==
    ASSUME ConstantsAssumption, AccessInv, NEW r \in Requests, LoadBinding(r)
    PROVE  AccessInv'
<1> DEFINE c == req[r].chat
           row == bindings[c]
           pc == IF row = NoRow /\ req[r].kind = "patch" THEN "not_found" ELSE "write"
           x == [req[r] EXCEPT !.loaded = row, !.pc = pc]
<1>1. TypeInv /\ AcceptedWasAuthorized(r) /\ HistoryIsTrue(r) /\ NoneIsMissed(r) /\ WritesARow(r)
  BY DEF AccessInv, GoodRequest
<1>2. req[r].pc = "load" /\ UNCHANGED <<env, requireBinding, bindings, sent, span>>
  BY DEF LoadBinding
<1>3. req \in [Requests -> RequestState] /\ req[r] \in RequestState
  BY <1>1 DEF TypeInv
<1>4. req[r].kind \in {"bind", "patch"} /\ c \in Chats
  BY <1>1, <1>2 DEF WritesARow, Writing
<1>5. row \in RowOrNone
  BY <1>1, <1>4 DEF TypeInv
<1>6. req' = [req EXCEPT ![r] = x]
  BY <1>3 DEF LoadBinding
<1>7. x \in RequestState
  BY <1>3, <1>5 DEF RequestState, Phases, Writing
<1>8. /\ req'[r] = x /\ x.pc = pc /\ x.kind = req[r].kind /\ x.chat = c /\ x.loaded = row
      /\ x.want = req[r].want /\ x.accepted = req[r].accepted
  BY <1>3, <1>6 DEF RequestState
<1>9. pc \in {"not_found", "write"} /\ (pc = "write" /\ row = NoRow => req[r].kind = "bind")
  BY <1>4
<1> HIDE DEF x, pc
<1>10. AcceptedWasAuthorized(r)'
  BY <1>4, <1>8, <1>9 DEF AcceptedWasAuthorized, Deciding, Sending
<1>11. HistoryIsTrue(r)'
  BY <1>1, <1>2 DEF HistoryIsTrue, AuthorizedChats, Authorized, EnvAllows, Bound
<1>12. NoneIsMissed(r)'
  BY <1>4, <1>8, <1>9 DEF NoneIsMissed
<1>13. WritesARow(r)'
  BY <1>1, <1>2, <1>4, <1>8, <1>9 DEF WritesARow, Writing
<1>14. GoodRequest(r)'
  BY <1>10, <1>11, <1>12, <1>13 DEF GoodRequest
<1>15. x.kind = req[r].kind /\ x.pc \notin {"idle"} \cup Deciding
  BY <1>8, <1>9 DEF Deciding
<1> QED BY <1>2, <1>6, <1>7, <1>14, <1>15, LocalStep

\* A row is none that is missing.
LEMMA RowIsThere == ASSUME NEW row \in Row PROVE row # NoRow
<1>1. "user" \in DOMAIN row
  BY DEF Row
<1>2. "user" \notin DOMAIN NoRow
  BY DEF NoRow
<1> QED BY <1>1, <1>2

\* An UPDATE of some columns of a row leaves a row.
LEMMA UpdatedIsRow ==
    ASSUME NEW row \in Row, NEW loaded \in Row, NEW want \in Want
    PROVE  UpdatedRow(row, loaded, want) \in Row
<1>1. DOMAIN row = {"user", "allowed"}
  BY DEF Row
<1>2. UpdatedRow(row, loaded, want)
        = [f \in {"user", "allowed"} |->
              IF f \in DOMAIN want /\ want[f] # loaded[f] THEN want[f] ELSE row[f]]
  BY <1>1 DEF UpdatedRow
<1>3. "user" \in DOMAIN want => want["user"] \in Users
  BY DEF Want, Row, NoRow
<1>4. "allowed" \in DOMAIN want => want["allowed"] \in BOOLEAN
  BY DEF Want, Row, NoRow
<1>5. row["user"] \in Users /\ row["allowed"] \in BOOLEAN
  BY DEF Row
<1> DEFINE user == IF "user" \in DOMAIN want /\ want["user"] # loaded["user"]
                   THEN want["user"] ELSE row["user"]
           allowed == IF "allowed" \in DOMAIN want /\ want["allowed"] # loaded["allowed"]
                      THEN want["allowed"] ELSE row["allowed"]
<1>6. user \in Users /\ allowed \in BOOLEAN
  BY <1>3, <1>4, <1>5
<1>7. UpdatedRow(row, loaded, want) = [user |-> user, allowed |-> allowed]
  BY <1>2
<1> HIDE DEF user, allowed
<1> QED BY <1>6, <1>7 DEF Row

\* A binding is written: the history of every request follows it.
LEMMA WriteBindingKeeps ==
    ASSUME ConstantsAssumption, AccessInv, NEW r \in Requests, WriteBinding(r)
    PROVE  AccessInv'
<1> DEFINE c == req[r].chat
           row == IF req[r].loaded = NoRow THEN req[r].want
                  ELSE UpdatedRow(bindings[c], req[r].loaded, req[r].want)
           taken == req[r].loaded = NoRow /\ bindings[c] # NoRow
<1>1. /\ TypeInv /\ SentInv /\ AcceptedWasAuthorized(r) /\ HistoryIsTrue(r) /\ NoneIsMissed(r)
      /\ WritesARow(r) /\ (\A q \in Requests : GoodRequest(q))
  BY DEF AccessInv, GoodRequest
<1>2. req[r].pc = "write" /\ UNCHANGED <<env, requireBinding, sent>>
  BY DEF WriteBinding
<1>3. req \in [Requests -> RequestState] /\ req[r] \in RequestState
  BY <1>1 DEF TypeInv
<1>4. req[r].kind \in {"bind", "patch"} /\ c \in Chats
  BY <1>1, <1>2 DEF WritesARow, Writing
<1>5. ASSUME NEW pc \in {"done", "error"} PROVE [req[r] EXCEPT !.pc = pc] \in RequestState
  BY <1>3 DEF RequestState, Phases
<1>6. ASSUME NEW pc \in {"done", "error"}, req'[r] = [req[r] EXCEPT !.pc = pc]
      PROVE  AcceptedWasAuthorized(r)' /\ NoneIsMissed(r)' /\ WritesARow(r)'
  <2>1. /\ req'[r].pc = pc /\ req'[r].kind = req[r].kind /\ req'[r].want = req[r].want
    BY <1>3, <1>6 DEF RequestState
  <2>2. AcceptedWasAuthorized(r)'
    BY <1>4, <2>1 DEF AcceptedWasAuthorized, Deciding, Sending
  <2>3. NoneIsMissed(r)'
    BY <1>4, <2>1 DEF NoneIsMissed, Deciding
  <2>4. WritesARow(r)'
    BY <1>1, <2>1 DEF WritesARow, Writing
  <2> QED BY <2>2, <2>3, <2>4
<1>7. CASE taken
  <2> DEFINE x == [req[r] EXCEPT !.pc = "error"]
  <2>1. req' = [req EXCEPT ![r] = x] /\ UNCHANGED <<bindings, span>>
    BY <1>3, <1>7 DEF WriteBinding
  <2>2. req'[r] = x /\ x \in RequestState /\ x.kind = req[r].kind /\ x.pc = "error"
    BY <1>3, <1>5, <2>1 DEF RequestState
  <2>3. AcceptedWasAuthorized(r)' /\ NoneIsMissed(r)' /\ WritesARow(r)'
    BY <1>6, <2>2
  <2>4. HistoryIsTrue(r)'
    BY <1>1, <1>2, <2>1 DEF HistoryIsTrue, AuthorizedChats, Authorized, EnvAllows, Bound
  <2>5. GoodRequest(r)'
    BY <2>3, <2>4 DEF GoodRequest
  <2> HIDE DEF x
  <2> QED BY <1>2, <2>1, <2>2, <2>5, LocalStep DEF Deciding
<1>8. CASE ~taken
  <2> DEFINE follows(x) == [span[x] EXCEPT !.ever = @ \cup AuthorizedChats(bindings'),
                                           !.always = @ \cap AuthorizedChats(bindings')]
  <2>1. /\ bindings' = [bindings EXCEPT ![c] = row]
        /\ req' = [req EXCEPT ![r].pc = "done"]
        /\ span' = [x \in Requests |-> follows(x)]
    BY <1>8 DEF WriteBinding
  <2>2. row \in Row
    <3>1. CASE req[r].loaded = NoRow
      BY <1>1, <1>2, <3>1 DEF WritesARow
    <3>2. CASE req[r].loaded # NoRow
      <4>1. bindings[c] \in Row /\ req[r].loaded \in Row /\ req[r].want \in Want
        BY <1>1, <1>2, <1>3, <1>4, <3>2 DEF WritesARow, TypeInv, RequestState, RowOrNone
      <4> QED BY <3>2, <4>1, UpdatedIsRow
    <3> QED BY <3>1, <3>2
  <2> HIDE DEF row
  <2>3. bindings \in [Chats -> RowOrNone] /\ row # NoRow /\ row \in RowOrNone
    BY <1>1, <2>2, RowIsThere DEF TypeInv, RowOrNone
  <2>4. bindings' \in [Chats -> RowOrNone]
    BY <1>4, <2>1, <2>3
  <2>5. Bound(bindings) \subseteq Bound(bindings)'
    BY <1>4, <2>1, <2>3 DEF Bound
  <2>6. PICK now \in SUBSET Chats : now = AuthorizedChats(bindings)'
    BY DEF AuthorizedChats
  <2>7. now = AuthorizedChats(bindings')
    BY <1>2, <2>6 DEF AuthorizedChats, Authorized, EnvAllows, Bound
  <2>8. ASSUME NEW q \in Requests
        PROVE  /\ span'[q] \in SpanState /\ span'[q].ever = span[q].ever \cup now
               /\ span'[q].always = span[q].always \cap now /\ span'[q].active = span[q].active
    <3>1. span'[q] = [span[q] EXCEPT !.ever = @ \cup now, !.always = @ \cap now]
      BY <2>1, <2>7
    <3>2. span[q] \in SpanState
      BY <1>1 DEF TypeInv
    <3> QED BY <3>1, <3>2 DEF SpanState
  <2>9. req'[r] = [req[r] EXCEPT !.pc = "done"] /\ req' \in [Requests -> RequestState]
    BY <1>3, <1>5, <2>1
  <2>10. TypeInv'
    <3>1. span' \in [Requests -> SpanState]
      BY <2>1, <2>8
    <3> QED BY <1>1, <1>2, <2>4, <2>9, <3>1 DEF TypeInv
  <2>11. GoodRequest(r)'
    <3>1. HistoryIsTrue(r)'
      <4>1. span'[r].active \subseteq Bound(bindings)'
        BY <1>1, <1>2, <2>5, <2>8 DEF HistoryIsTrue
      <4> QED BY <2>6, <2>8, <4>1 DEF HistoryIsTrue
    <3> QED BY <1>6, <2>9, <3>1 DEF GoodRequest
  <2>12. ASSUME NEW q \in Requests, q # r PROVE GoodRequest(q)'
    <3>1. req'[q] = req[q]
      BY <1>3, <2>1, <2>12
    <3>2. GoodRequest(q)
      BY <1>1
    <3>3. /\ AuthorizedChats(bindings)' \subseteq span'[q].ever
          /\ span'[q].always \subseteq AuthorizedChats(bindings)'
      BY <2>6, <2>8
    <3>4. /\ span'[q].active = span[q].active /\ span[q].ever \subseteq span'[q].ever
          /\ span'[q].always \subseteq span[q].always
      BY <2>8
    <3>5. UNCHANGED settings
      BY <1>2 DEF settings
    <3> QED BY <1>1, <2>5, <3>1, <3>2, <3>3, <3>4, <3>5, KeepsRequest
  <2>13. ASSUME NEW m \in sent'
         PROVE  /\ req'[m.req].pc \notin {"idle"} \cup Deciding
                /\ req'[m.req].kind \in Sending => m.chat \in span'[m.req].ever
    <3>1. m \in sent /\ m.req \in Requests
      BY <1>1, <1>2 DEF TypeInv
    <3>2. CASE m.req = r
      <4>1. req'[r].pc = "done" /\ req'[r].kind = req[r].kind
        BY <1>3, <2>9 DEF RequestState
      <4> QED BY <1>4, <3>2, <4>1 DEF Deciding, Sending
    <3>3. CASE m.req # r
      <4>1. req'[m.req] = req[m.req]
        BY <1>3, <2>1, <3>1, <3>3
      <4> QED BY <1>1, <2>8, <3>1, <4>1 DEF SentInv
    <3> QED BY <3>2, <3>3
  <2>14. SentInv'
    BY <2>13 DEF SentInv
  <2> QED BY <2>10, <2>11, <2>12, <2>14 DEF AccessInv
<1> QED BY <1>7, <1>8

\* A statement fails, and a message is delivered again.
LEMMA DatabaseErrorKeeps ==
    ASSUME ConstantsAssumption, AccessInv, NEW r \in Requests, DatabaseError(r)
    PROVE  AccessInv'
<1>1. /\ TypeInv /\ AcceptedWasAuthorized(r) /\ HistoryIsTrue(r) /\ NoneIsMissed(r)
      /\ WritesARow(r)
  BY DEF AccessInv, GoodRequest
<1>2. /\ req[r].pc \in Deciding \cup Writing
      /\ UNCHANGED <<env, requireBinding, bindings, sent, span>>
  BY DEF DatabaseError, Deciding, Writing
<1>3. req \in [Requests -> RequestState] /\ req[r] \in RequestState
  BY <1>1 DEF TypeInv
<1>4. req[r].pc # "idle"
  BY <1>2 DEF Deciding, Writing
<1>5. PICK x : x = (IF req[r].kind = "message" THEN Idle ELSE [req[r] EXCEPT !.pc = "error"])
  OBVIOUS
<1>6. req' = [req EXCEPT ![r] = x]
  BY <1>3, <1>5 DEF DatabaseError
<1>7. x \in RequestState
  <2>1. [req[r] EXCEPT !.pc = "error"] \in RequestState
    BY <1>3 DEF RequestState, Phases
  <2> QED BY <1>5, <2>1, IdleTyped
<1>8. req'[r] = x
  BY <1>3, <1>6
<1>9. HistoryIsTrue(r)'
  BY <1>1, <1>2, <1>4 DEF HistoryIsTrue, AuthorizedChats, Authorized, EnvAllows, Bound
<1>10. CASE req[r].kind = "message"
  <2>1. x.pc = "idle" /\ x.kind = "none"
    BY <1>5, <1>10 DEF Idle
  <2>2. req[r].pc \in Deciding
    BY <1>1, <1>2, <1>10 DEF WritesARow
  <2>3. GoodRequest(r)'
    BY <1>8, <1>9, <2>1
       DEF GoodRequest, AcceptedWasAuthorized, NoneIsMissed, WritesARow, Deciding, Writing, Sending
  <2> QED BY <1>2, <1>6, <1>7, <2>2, <2>3, LocalStep
<1>11. CASE req[r].kind # "message"
  <2>1. /\ x.pc = "error" /\ x.kind = req[r].kind /\ x.accepted = req[r].accepted
        /\ x.want = req[r].want
    BY <1>3, <1>5, <1>11 DEF RequestState
  <2>2. AcceptedWasAuthorized(r)'
    BY <1>1, <1>2, <1>8, <2>1 DEF AcceptedWasAuthorized, Deciding
  <2>3. NoneIsMissed(r)'
    BY <1>8, <2>1 DEF NoneIsMissed, Deciding
  <2>4. WritesARow(r)'
    BY <1>1, <1>8, <2>1 DEF WritesARow, Writing
  <2>5. GoodRequest(r)'
    BY <1>9, <2>2, <2>3, <2>4 DEF GoodRequest
  <2>6. x.kind = req[r].kind /\ x.pc \notin {"idle"} \cup Deciding
    BY <2>1 DEF Deciding
  <2> QED BY <1>2, <1>6, <1>7, <2>5, <2>6, LocalStep
<1> QED BY <1>10, <1>11

-----------------------------------------------------------------------------
(***************************************************************************)
(* The theorems.                                                           *)
(***************************************************************************)
\* Nothing is bound, accepted or sent at the beginning.
LEMMA InitInv == ConstantsAssumption /\ Init => AccessInv
<1> SUFFICES ASSUME ConstantsAssumption, Init PROVE AccessInv
  OBVIOUS
<1>1. TypeInv
  BY IdleTyped DEF Init, TypeInv, RowOrNone, SpanState
<1>2. ASSUME NEW r \in Requests PROVE GoodRequest(r)
  <2>1. req[r].pc = "idle" /\ req[r].kind = "none"
    BY DEF Init, Idle
  <2> QED BY <2>1 DEF GoodRequest, AcceptedWasAuthorized, HistoryIsTrue, NoneIsMissed, WritesARow,
                      Deciding, Writing, Sending
<1>3. SentInv
  BY DEF Init, SentInv
<1> QED BY <1>1, <1>2, <1>3 DEF AccessInv

\* Every step keeps the invariant.
LEMMA NextInv == ConstantsAssumption /\ AccessInv /\ [Next]_vars => AccessInv'
<1> SUFFICES ASSUME ConstantsAssumption, AccessInv, [Next]_vars PROVE AccessInv'
  OBVIOUS
<1>1. ASSUME NEW r \in Requests, Step(r) PROVE AccessInv'
  <2>1. CASE StartPush(r)
    BY <2>1, StartPushKeeps
  <2>2. CASE StartMessage(r)
    BY <2>2, StartMessageKeeps
  <2>3. CASE StartBind(r) \/ StartPatch(r)
    BY <2>3, StartBindingKeeps
  <2>4. CASE ReadBinding(r)
    BY <2>4, ReadBindingKeeps
  <2>5. CASE CountBindings(r)
    BY <2>5, CountBindingsKeeps
  <2>6. CASE Send(r)
    BY <2>6, SendKeeps
  <2>7. CASE LoadBinding(r)
    BY <2>7, LoadBindingKeeps
  <2>8. CASE WriteBinding(r)
    BY <2>8, WriteBindingKeeps
  <2>9. CASE DatabaseError(r)
    BY <2>9, DatabaseErrorKeeps
  <2> QED BY <1>1, <2>1, <2>2, <2>3, <2>4, <2>5, <2>6, <2>7, <2>8, <2>9 DEF Step
<1>2. CASE UNCHANGED vars
  <2>1. UNCHANGED <<env, requireBinding, bindings, req, sent, span>>
    BY <1>2 DEF vars
  <2> QED BY <2>1 DEF AccessInv, TypeInv, SentInv, GoodRequest, AcceptedWasAuthorized,
                      HistoryIsTrue, NoneIsMissed, WritesARow, Due, EnvAllows, Candidate,
                      AuthorizedChats, Authorized, Bound
<1> QED BY <1>1, <1>2 DEF Next

\* The invariant holds all the time.
LEMMA AccessAlways == ASSUME ConstantsAssumption PROVE Spec => []AccessInv
<1>1. Init => AccessInv
  BY InitInv
<1>2. AccessInv /\ [Next]_vars => AccessInv'
  BY NextInv
<1> QED BY <1>1, <1>2, PTL DEF Spec

\* Whatever bindings change meanwhile, only chats that were authorized at one moment of a
\* request get its message, and a push to everybody forgets none that was authorized
\* throughout (is_telegram_chat_authorized, resolve_telegram_recipients).
THEOREM AccessCorrect == ASSUME ConstantsAssumption PROVE Spec => []AccessIsGuarded
<1>1. AccessInv => SentWasAuthorized
  BY DEF AccessInv, SentInv, SentWasAuthorized, Sending
<1>2. AccessInv => RecipientsAreComplete
  BY DEF AccessInv, GoodRequest, NoneIsMissed, Due, RecipientsAreComplete
<1>3. AccessInv => AccessIsGuarded
  BY <1>1, <1>2 DEF AccessIsGuarded
<1> QED BY <1>3, AccessAlways, PTL

\* What changes the permission of a bound chat is a request that names it
\* (update_telegram_binding writes only what the patch holds).
LEMMA AllowedStep ==
    ASSUME AccessInv, [Next]_vars, NEW c \in Bound(bindings),
           bindings'[c].allowed # bindings[c].allowed
    PROVE  \E r \in Requests :
               /\ req[r].pc = "write" /\ req'[r].pc = "done" /\ req[r].chat = c
               /\ "allowed" \in DOMAIN req[r].want
               /\ req[r].want.allowed = bindings'[c].allowed
<1>1. bindings' # bindings
  OBVIOUS
<1>2. PICK r \in Requests : Step(r)
  BY <1>1 DEF Next, vars
<1>3. WriteBinding(r)
  BY <1>1, <1>2 DEF Step, StartPush, StartMessage, StartBind, StartPatch, Begin, ReadBinding,
                    CountBindings, Send, LoadBinding, DatabaseError
<1>4. TypeInv /\ WritesARow(r) /\ c \in Chats /\ bindings[c] # NoRow
  BY DEF AccessInv, GoodRequest, Bound
<1>5. /\ req[r].pc = "write" /\ req[r] \in RequestState /\ req \in [Requests -> RequestState]
      /\ bindings \in [Chats -> RowOrNone]
  BY <1>3, <1>4 DEF WriteBinding, TypeInv
<1> DEFINE chat == req[r].chat
           row == IF req[r].loaded = NoRow THEN req[r].want
                  ELSE UpdatedRow(bindings[chat], req[r].loaded, req[r].want)
<1>6. /\ ~(req[r].loaded = NoRow /\ bindings[chat] # NoRow)
      /\ bindings' = [bindings EXCEPT ![chat] = row] /\ req' = [req EXCEPT ![r].pc = "done"]
  BY <1>1, <1>3 DEF WriteBinding
<1>7. chat = c
  <2> HIDE DEF row
  <2> QED BY <1>4, <1>5, <1>6
<1>8. /\ req[r].loaded # NoRow /\ req'[r].pc = "done"
      /\ bindings'[c] = UpdatedRow(bindings[c], req[r].loaded, req[r].want)
  BY <1>4, <1>5, <1>6, <1>7 DEF RequestState
<1>9. bindings[c] \in Row /\ DOMAIN bindings[c] = {"user", "allowed"}
  BY <1>4, <1>5 DEF RowOrNone, Row
<1> HIDE DEF row
<1>10. bindings'[c].allowed
         = (IF "allowed" \in DOMAIN req[r].want /\ req[r].want["allowed"] # req[r].loaded["allowed"]
            THEN req[r].want["allowed"] ELSE bindings[c]["allowed"])
  BY <1>8, <1>9 DEF UpdatedRow
<1>11. "allowed" \in DOMAIN req[r].want /\ req[r].want.allowed = bindings'[c].allowed
  BY <1>10
<1> QED BY <1>5, <1>7, <1>8, <1>11

\* A disabled chat is allowed again only by a request that says so, whatever a patch of
\* another column had loaded before (update_telegram_binding).
THEOREM AllowedCorrect == ASSUME ConstantsAssumption PROVE Spec => [][AllowedOnlyOnRequest]_vars
<1>1. AccessInv /\ [Next]_vars => [AllowedOnlyOnRequest]_vars
  BY AllowedStep DEF AllowedOnlyOnRequest
<1> QED BY <1>1, AccessAlways, PTL DEF Spec

-----------------------------------------------------------------------------
(***************************************************************************)
(* Settings.                                                               *)
(***************************************************************************)
\* What the settings' module assumes of its constants.
SettingsAssumption == KeysAssumption /\ ValuesAssumption

\* The settings of a process, the lines of a file, and the types of the editor's state.
SettingsMap == [Keys -> Values]
EnvFile == Seq(Lines)
Environment == [Keys -> Values \cup {Unset}]
SettingsTypes ==
    /\ files \in [{FileOf(p) : p \in Processes} -> EnvFile]
    /\ environ \in [Processes -> Environment]
    /\ cached \in [Processes -> {Down} \cup SettingsMap]
    /\ \A k \in DOMAIN saved : k \in Keys /\ saved[k] \in Values
    /\ edits \in Nat

\* Only the API process changes its environment.
EnvironInv == \A p \in Processes \ {"api"} : environ[p] = BaseEnv

\* What a process has cached was read without an error, and what the API process would read
\* now could be, and is the same as long as nobody edits the file.
LoadedInv ==
    /\ \A p \in Processes : cached[p] # Down => Loads(cached[p])
    /\ cached["api"] # Down =>
          /\ Loads(Settings(environ["api"], files["api"]))
          /\ edits = 0 => cached["api"] = Settings(environ["api"], files["api"])

\* What was saved, and not edited since, is in the file, if it names a key once, and the
\* environment of the API process does not hide it.
NamedOnce == \A f \in StartFiles : KeysOnce(f)
SavedInv ==
    /\ KeysOnce(files["api"])
    /\ \A k \in DOMAIN saved :
        InFile(files["api"], k) = saved[k] /\ environ["api"][k] \in {BaseEnv[k], saved[k]}

SettingsInv ==
    /\ SettingsTypes /\ EnvironInv /\ LoadedInv
    /\ NamedOnce => SavedInv
    /\ OneFile => SavedIsInForce
    /\ ClearsTexts => ValidSavesWork

-----------------------------------------------------------------------------
\* What the assumptions say of the values.
LEMMA SettingsConstants ==
    ASSUME SettingsAssumption
    PROVE  /\ "api" \in Processes /\ NoKey \notin Keys /\ IsFiniteSet(Keys) /\ Keys # {}
           /\ Unset \notin Values /\ "blank" \in Values /\ "bad" \in Values
           /\ FalseValue \in Values /\ FalseValue \notin {"blank", "bad"}
           /\ \A k \in Keys : Default(k) \in Values
           /\ BaseEnv \in Environment /\ StartFiles \subseteq EnvFile
           /\ Down \notin SettingsMap /\ DOMAIN Down = {}
<1>1. /\ "api" \in Processes /\ NoKey \notin Keys /\ IsFiniteSet(Keys) /\ Keys # {}
      /\ BaseEnv \in Environment /\ StartFiles \subseteq EnvFile
  BY DEF SettingsAssumption, KeysAssumption, ValuesAssumption, Environment, EnvFile
<1>2. /\ Unset \notin Values /\ "blank" \in Values /\ "bad" \in Values
      /\ FalseValue \in Values /\ FalseValue \notin {"blank", "bad"}
  BY DEF SettingsAssumption, ValuesAssumption, Values, Unset
<1>3. \A k \in Keys : Default(k) \in Values
  BY <1>2 DEF Default
<1>4. DOMAIN Down = {} /\ \A s \in SettingsMap : DOMAIN s = Keys
  BY DEF Down, SettingsMap
<1> QED BY <1>1, <1>2, <1>3, <1>4

\* SetToSeq makes a finite set a sequence with each member at one place.
LEMMA SetAsSequence ==
    ASSUME NEW S, IsFiniteSet(S)
    PROVE  /\ Cardinality(S) \in Nat /\ SetToSeq(S) \in [1 .. Cardinality(S) -> S]
           /\ \A x \in S : \E i \in 1 .. Cardinality(S) : SetToSeq(S)[i] = x
           /\ \A i, j \in 1 .. Cardinality(S) : SetToSeq(S)[i] = SetToSeq(S)[j] => i = j
<1> DEFINE n == Cardinality(S)
           s == SetToSeq(S)
<1>1. n \in Nat /\ ExistsBijection(1 .. n, S)
  BY FS_CardinalityType
<1>2. PICK g \in [1 .. n -> S] : IsInjective(g)
  BY <1>1 DEF ExistsBijection, Bijection, Injection, IsInjective
<1>3. s \in [1 .. n -> S] /\ IsInjective(s)
  BY <1>2 DEF SetToSeq
<1> HIDE DEF s
<1>4. s \in Injection(1 .. n, S)
  BY <1>3 DEF Injection, IsInjective
<1>5. Cardinality(1 .. n) = Cardinality(S) /\ IsFiniteSet(1 .. n)
  BY <1>1, FS_Interval
<1>6. s \in Surjection(1 .. n, S)
  BY <1>4, <1>5, FS_Injection
<1> QED BY <1>1, <1>3, <1>6 DEF Surjection, IsInjective, s

\* A set of places in a sequence has a last one.
LEMMA LastPlace ==
    ASSUME NEW n \in Nat, NEW S \in SUBSET (1 .. n), S # {}
    PROVE  \E i \in S : \A j \in S : j <= i
<1> DEFINE T == {n - i : i \in S}
<1>1. T \in SUBSET Nat /\ T # {}
  <2>1. \A i \in S : n - i \in Nat
    OBVIOUS
  <2>2. PICK i : i \in S
    OBVIOUS
  <2> QED BY <2>1, <2>2
<1>2. PICK m \in T : \A x \in T : m <= x
  BY <1>1, LeastNumber
<1>3. PICK i \in S : m = n - i
  BY <1>2
<1>4. \A j \in S : n - i <= n - j
  BY <1>2, <1>3
<1> QED BY <1>3, <1>4

\* What is read of a key: the value of its last line.
LEMMA LastLine ==
    ASSUME SettingsAssumption, NEW file \in EnvFile, NEW k \in Keys
    PROVE  /\ (\A i \in DOMAIN file : file[i].key # k) => InFile(file, k) = Unset
           /\ \A i \in DOMAIN file :
                 file[i].key = k /\ (\A j \in DOMAIN file : file[j].key = k => j <= i)
                     => InFile(file, k) = file[i].value
           /\ (\E i \in DOMAIN file : file[i].key = k) =>
                 \E i \in DOMAIN file :
                     /\ file[i].key = k /\ InFile(file, k) = file[i].value
                     /\ \A j \in DOMAIN file : file[j].key = k => j <= i
           /\ InFile(file, k) \in Values \cup {Unset}
<1> DEFINE at == {i \in DOMAIN file : file[i].key = k}
<1>1. DOMAIN file = 1 .. Len(file) /\ Len(file) \in Nat /\ \A i \in DOMAIN file : file[i] \in Lines
  BY DEF EnvFile
<1>2. ASSUME NEW i \in DOMAIN file, file[i].key = k, \A j \in DOMAIN file : file[j].key = k => j <= i
      PROVE  InFile(file, k) = file[i].value
  <2>1. i \in at /\ \A m \in at : (\A j \in at : j <= m) => m = i
    BY <1>1, <1>2
  <2>2. (CHOOSE m \in at : \A j \in at : j <= m) = i
    BY <1>2, <2>1
  <2> QED BY <2>1, <2>2 DEF InFile
<1>3. (\A i \in DOMAIN file : file[i].key # k) => InFile(file, k) = Unset
  BY DEF InFile
<1>4. ASSUME NEW i \in DOMAIN file, file[i].key = k
      PROVE  \E m \in DOMAIN file :
                 /\ file[m].key = k /\ InFile(file, k) = file[m].value
                 /\ \A j \in DOMAIN file : file[j].key = k => j <= m
  <2>1. at \in SUBSET (1 .. Len(file)) /\ at # {}
    BY <1>1, <1>4
  <2>2. PICK m \in at : \A j \in at : j <= m
    BY <1>1, <2>1, LastPlace
  <2> QED BY <1>2, <2>2
<1>5. \A i \in DOMAIN file : file[i].value \in Values
  BY <1>1 DEF Lines
<1> QED BY <1>2, <1>3, <1>4, <1>5

\* A file continued by another that shares no key with it has the keys of both.
LEMMA FileContinued ==
    ASSUME SettingsAssumption, NEW a \in EnvFile, NEW b \in EnvFile,
           \A i \in DOMAIN a, j \in DOMAIN b : a[i].key = b[j].key => a[i].key = NoKey
    PROVE  /\ a \o b \in EnvFile
           /\ KeysOnce(a) /\ KeysOnce(b) => KeysOnce(a \o b)
           /\ \A k \in Keys : InFile(a \o b, k) =
                 IF \E i \in DOMAIN a : a[i].key = k THEN InFile(a, k) ELSE InFile(b, k)
<1> DEFINE c == a \o b
<1>1. /\ a \in Seq(Lines) /\ DOMAIN a = 1 .. Len(a) /\ Len(a) \in Nat
      /\ b \in Seq(Lines) /\ DOMAIN b = 1 .. Len(b) /\ Len(b) \in Nat
      /\ NoKey \notin Keys
  BY SettingsConstants DEF EnvFile
<1>2. /\ c \in Seq(Lines) /\ DOMAIN c = 1 .. Len(a) + Len(b)
      /\ \A i \in DOMAIN a : c[i] = a[i]
      /\ \A j \in DOMAIN b : c[Len(a) + j] = b[j]
      /\ \A i \in DOMAIN c : i \in DOMAIN a \/ (i - Len(a) \in DOMAIN b /\ c[i] = b[i - Len(a)])
  BY <1>1
<1> HIDE DEF c
<1>3. ASSUME KeysOnce(a), KeysOnce(b)
      PROVE  KeysOnce(c)
  <2> SUFFICES ASSUME NEW i \in DOMAIN c, NEW j \in DOMAIN c, c[i].key = c[j].key, c[i].key # NoKey
               PROVE  i = j
    BY DEF KeysOnce
  <2>1. i \in Int /\ j \in Int
    BY <1>1, <1>2
  <2>2. CASE i \in DOMAIN a /\ j \in DOMAIN a
    BY <1>1, <1>2, <1>3, <2>2 DEF KeysOnce
  <2>3. CASE i \notin DOMAIN a /\ j \notin DOMAIN a
    <3>1. i - Len(a) = j - Len(a)
      BY <1>1, <1>2, <1>3, <2>3 DEF KeysOnce
    <3> QED BY <1>1, <2>1, <3>1
  <2>4. CASE (i \in DOMAIN a) # (j \in DOMAIN a)
    BY <1>2, <2>4
  <2> QED BY <2>2, <2>3, <2>4
<1>4. c \in EnvFile
  BY <1>2 DEF EnvFile
<1>5. ASSUME NEW k \in Keys
      PROVE  InFile(c, k) = IF \E i \in DOMAIN a : a[i].key = k THEN InFile(a, k) ELSE InFile(b, k)
  <2>1. CASE \E i \in DOMAIN a : a[i].key = k
    <3>1. PICK i \in DOMAIN a : /\ a[i].key = k /\ InFile(a, k) = a[i].value
                                 /\ \A j \in DOMAIN a : a[j].key = k => j <= i
      BY <2>1, LastLine
    <3>2. i \in DOMAIN c /\ c[i] = a[i]
      BY <1>1, <1>2
    <3>3. ASSUME NEW j \in DOMAIN c, c[j].key = k PROVE j <= i
      <4>1. j \in DOMAIN a
        BY <1>1, <1>2, <3>1, <3>3
      <4> QED BY <1>2, <3>1, <3>3, <4>1
    <3> QED BY <1>4, <2>1, <3>1, <3>2, <3>3, LastLine
  <2>2. CASE (\A i \in DOMAIN a : a[i].key # k) /\ \E j \in DOMAIN b : b[j].key = k
    <3>1. PICK i \in DOMAIN b : /\ b[i].key = k /\ InFile(b, k) = b[i].value
                                 /\ \A j \in DOMAIN b : b[j].key = k => j <= i
      BY <2>2, LastLine
    <3>2. Len(a) + i \in DOMAIN c /\ c[Len(a) + i] = b[i]
      BY <1>1, <1>2
    <3>3. ASSUME NEW j \in DOMAIN c, c[j].key = k PROVE j <= Len(a) + i
      <4>1. j - Len(a) \in DOMAIN b /\ c[j] = b[j - Len(a)]
        BY <1>2, <2>2, <3>3
      <4>2. j - Len(a) <= i
        BY <3>1, <3>3, <4>1
      <4>3. j \in Int /\ i \in Int
        BY <1>1, <1>2
      <4> QED BY <1>1, <4>2, <4>3
    <3> QED BY <1>4, <2>2, <3>1, <3>2, <3>3, LastLine
  <2>3. CASE (\A i \in DOMAIN a : a[i].key # k) /\ \A j \in DOMAIN b : b[j].key # k
    <3>1. \A i \in DOMAIN c : c[i].key # k
      BY <1>2, <2>3
    <3> QED BY <1>4, <2>3, <3>1, LastLine
  <2> QED BY <2>1, <2>2, <2>3
<1> QED BY <1>3, <1>4, <1>5 DEF c


\* Replacing the first lines of some keys.
LEMMA LinesReplaced ==
    ASSUME SettingsAssumption, NEW file \in EnvFile, NEW upd,
           \A k \in DOMAIN upd : k \in Keys /\ upd[k] \in Values,
           NEW r, r = Replaced(file, upd)
    PROVE  /\ r \in EnvFile /\ DOMAIN r = DOMAIN file /\ \A i \in DOMAIN file : r[i].key = file[i].key
           /\ \A k \in Keys \ DOMAIN upd : InFile(r, k) = InFile(file, k)
           /\ \A k \in DOMAIN upd : InFile(r, k) \in {upd[k], InFile(file, k)}
           /\ KeysOnce(file) =>
                 /\ KeysOnce(r)
                 /\ \A k \in DOMAIN upd : (\E i \in DOMAIN file : file[i].key = k) => InFile(r, k) = upd[k]
<1>1. NoKey \notin Keys /\ DOMAIN file = 1 .. Len(file) /\ Len(file) \in Nat
  BY SettingsConstants DEF EnvFile
<1>2. \A i \in DOMAIN file : file[i] \in Lines
  BY <1>1 DEF EnvFile
<1>3. ASSUME KeysOnce(file), NEW i \in DOMAIN file, file[i].key \in DOMAIN upd
      PROVE  IsFirst(file, i)
  <2>1. \A j \in 1 .. (i - 1) : j \in DOMAIN file /\ j # i
    BY <1>1
  <2> QED BY <1>1, <1>3, <2>1 DEF KeysOnce, IsFirst
<1>4. \A i \in DOMAIN file : r[i] = IF file[i].key \in DOMAIN upd /\ IsFirst(file, i)
                                     THEN Line(file[i].key, upd[file[i].key]) ELSE file[i]
  BY DEF Replaced
<1>5. \A i \in DOMAIN file :
          /\ r[i] \in Lines /\ r[i].key = file[i].key
          /\ r[i].value = IF file[i].key \in DOMAIN upd /\ IsFirst(file, i)
                          THEN upd[file[i].key] ELSE file[i].value
  <2> SUFFICES ASSUME NEW i \in DOMAIN file
               PROVE  /\ r[i] \in Lines /\ r[i].key = file[i].key
                      /\ r[i].value = IF file[i].key \in DOMAIN upd /\ IsFirst(file, i)
                                      THEN upd[file[i].key] ELSE file[i].value
    OBVIOUS
  <2>1. CASE file[i].key \in DOMAIN upd /\ IsFirst(file, i)
    <3>1. r[i] = Line(file[i].key, upd[file[i].key])
      BY <1>4, <2>1
    <3> QED BY <2>1, <3>1 DEF Lines, Line
  <2>2. CASE ~(file[i].key \in DOMAIN upd /\ IsFirst(file, i))
    BY <1>2, <1>4, <2>2
  <2> QED BY <2>1, <2>2
<1>6. r \in EnvFile /\ DOMAIN r = DOMAIN file
  <2>1. r = [i \in 1 .. Len(file) |-> r[i]]
    BY <1>1 DEF Replaced
  <2> QED BY <1>1, <1>5, <2>1 DEF EnvFile
<1>7. KeysOnce(file) => KeysOnce(r)
  BY <1>5, <1>6 DEF KeysOnce
<1>8. ASSUME NEW k \in Keys, \E i \in DOMAIN file : file[i].key = k
      PROVE  \E i \in DOMAIN file : file[i].key = k /\ InFile(file, k) = file[i].value /\ InFile(r, k) = r[i].value
  <2>1. PICK i \in DOMAIN file : /\ file[i].key = k /\ InFile(file, k) = file[i].value
                                  /\ \A j \in DOMAIN file : file[j].key = k => j <= i
    BY <1>8, LastLine
  <2>2. InFile(r, k) = r[i].value
    BY <1>5, <1>6, <2>1, LastLine
  <2> QED BY <2>1, <2>2
<1>9. ASSUME NEW k \in Keys, \A i \in DOMAIN file : file[i].key # k
      PROVE  InFile(r, k) = InFile(file, k)
  BY <1>5, <1>6, <1>9, LastLine
<1> QED BY <1>3, <1>5, <1>6, <1>7, <1>8, <1>9

\* Each line of a file continued by another is a line of one of them.
LEMMA BothFiles ==
    ASSUME NEW a \in Seq(Lines), NEW b \in Seq(Lines), NEW i \in DOMAIN (a \o b)
    PROVE  (\E j \in DOMAIN a : (a \o b)[i] = a[j]) \/ (\E j \in DOMAIN b : (a \o b)[i] = b[j])
<1>1. /\ Len(a) \in Nat /\ DOMAIN a = 1 .. Len(a) /\ Len(b) \in Nat /\ DOMAIN b = 1 .. Len(b)
      /\ DOMAIN (a \o b) = 1 .. Len(a) + Len(b)
  OBVIOUS
<1>2. i \in DOMAIN a => (a \o b)[i] = a[i]
  BY <1>1
<1>3. i \notin DOMAIN a => i - Len(a) \in DOMAIN b /\ (a \o b)[i] = b[i - Len(a)]
  BY <1>1
<1> QED BY <1>2, <1>3

\* The lines of some keys, in any order, under a comment.
LEMMA LinesAdded ==
    ASSUME SettingsAssumption, NEW upd, \A k \in DOMAIN upd : k \in Keys /\ upd[k] \in Values,
           NEW missing \in SUBSET DOMAIN upd,
           NEW b, b = Appended(upd, missing)
    PROVE  /\ b \in EnvFile /\ KeysOnce(b) /\ \A i \in DOMAIN b : b[i].key \in missing \cup {NoKey}
           /\ \A k \in Keys : InFile(b, k) = IF k \in missing THEN upd[k] ELSE Unset
<1>1. NoKey \notin Keys /\ "blank" \in Values /\ IsFiniteSet(Keys)
  BY SettingsConstants
<1>2. CASE missing = {}
  <2>1. b = <<>> /\ DOMAIN b = {}
    BY <1>2 DEF Appended
  <2>2. b \in EnvFile /\ KeysOnce(b)
    <3>1. b \in Seq(Lines)
      BY <2>1
    <3>2. KeysOnce(b)
      BY <2>1 DEF KeysOnce
    <3> QED BY <3>1, <3>2 DEF EnvFile
  <2> QED BY <1>2, <2>1, <2>2, LastLine
<1>3. CASE missing # {}
  <2> DEFINE S == {Line(k, upd[k]) : k \in missing}
             comment == <<Line(NoKey, "blank")>>
             s == SetToSeq(S)
             n == Cardinality(S)
  <2>1. IsFiniteSet(S)
    <3>1. IsFiniteSet(missing)
      BY <1>1, FS_Subset
    <3> DEFINE g == [k \in missing |-> Line(k, upd[k])]
    <3>2. g \in Surjection(missing, S)
      BY DEF Surjection
    <3> HIDE DEF g
    <3> QED BY <3>1, <3>2, FS_Surjection
  <2>2. /\ n \in Nat /\ s \in [1 .. n -> S] /\ \A x \in S : \E i \in 1 .. n : s[i] = x
        /\ \A i, j \in 1 .. n : s[i] = s[j] => i = j
    BY <2>1, SetAsSequence
  <2>3. b = comment \o s
    BY <1>3 DEF Appended
  <2> HIDE DEF s, n
  <2>4. \A x \in S : x \in Lines /\ x.key \in missing /\ x.value = upd[x.key] /\ x = Line(x.key, upd[x.key])
    BY DEF Lines, Line
  <2>5. \A k \in missing : Line(k, upd[k]) \in S /\ Line(k, upd[k]).key = k
    BY DEF Line
  <2> HIDE DEF S
  <2>6. s \in Seq(Lines) /\ DOMAIN s = 1 .. n /\ Len(s) = n
    BY <2>2, <2>4
  <2>7. s \in EnvFile /\ KeysOnce(s)
    BY <2>2, <2>4, <2>6 DEF EnvFile, KeysOnce
  <2>8. /\ comment \in EnvFile /\ KeysOnce(comment) /\ DOMAIN comment = {1} /\ comment[1].key = NoKey
    <3>1. Line(NoKey, "blank") \in Lines /\ Line(NoKey, "blank").key = NoKey
      BY <1>1 DEF Line, Lines
    <3> HIDE DEF Line
    <3> QED BY <3>1 DEF EnvFile, KeysOnce
  <2> HIDE DEF comment
  <2>9. /\ b \in EnvFile /\ KeysOnce(b)
        /\ \A k \in Keys : InFile(b, k) = InFile(s, k)
    <3>1. \A i \in DOMAIN comment : comment[i].key = NoKey
      BY <2>8
    <3>2. \A i \in DOMAIN comment, j \in DOMAIN s : comment[i].key = s[j].key => comment[i].key = NoKey
      BY <3>1
    <3>3. /\ comment \o s \in EnvFile /\ KeysOnce(comment \o s)
          /\ \A k \in Keys : InFile(comment \o s, k) =
                IF \E i \in DOMAIN comment : comment[i].key = k THEN InFile(comment, k) ELSE InFile(s, k)
      BY <2>7, <2>8, <3>2, FileContinued
    <3> QED BY <1>1, <2>3, <3>1, <3>3
  <2>10. \A i \in DOMAIN b : b[i].key \in missing \cup {NoKey}
    <3>1. comment \in Seq(Lines) /\ Len(comment) = 1
      BY <2>8 DEF EnvFile
    <3>2. \A i \in DOMAIN s : s[i].key \in missing
      BY <2>2, <2>4, <2>6
    <3>3. ASSUME NEW i \in DOMAIN (comment \o s)
          PROVE  (comment \o s)[i].key \in missing \cup {NoKey}
      <4>1. (\E j \in DOMAIN comment : (comment \o s)[i] = comment[j])
            \/ (\E j \in DOMAIN s : (comment \o s)[i] = s[j])
        BY <2>6, <3>1, BothFiles
      <4> QED BY <2>8, <3>2, <4>1
    <3> QED BY <2>3, <3>3
  <2>11. ASSUME NEW k \in Keys
         PROVE  InFile(s, k) = IF k \in missing THEN upd[k] ELSE Unset
    <3>1. CASE k \in missing
      <4>1. PICK i \in 1 .. n : s[i] = Line(k, upd[k])
        BY <2>2, <2>5, <3>1
      <4>2. s[i].key = k /\ s[i].value = upd[k]
        BY <4>1 DEF Line
      <4>3. \A j \in DOMAIN s : s[j].key = k => j = i
        BY <2>6, <2>7, <1>1, <4>2 DEF KeysOnce
      <4> QED BY <2>6, <2>7, <3>1, <4>2, <4>3, LastLine
    <3>2. CASE k \notin missing
      <4>1. \A i \in DOMAIN s : s[i].key # k
        BY <2>2, <2>4, <2>6, <3>2
      <4> QED BY <2>7, <3>2, <4>1, LastLine
    <3> QED BY <3>1, <3>2
  <2> QED BY <2>9, <2>10, <2>11
<1> QED BY <1>2, <1>3

\* What is written stands in the file, if it named each key once, and still does; the other keys
\* are as before.  Where a key stands twice, the line that is read may be an old one.
LEMMA WrittenFile ==
    ASSUME SettingsAssumption, NEW file \in EnvFile, NEW upd,
           \A k \in DOMAIN upd : k \in Keys /\ upd[k] \in Values
    PROVE  /\ Written(file, upd) \in EnvFile
           /\ \A k \in Keys \ DOMAIN upd : InFile(Written(file, upd), k) = InFile(file, k)
           /\ \A k \in DOMAIN upd : InFile(Written(file, upd), k) \in {upd[k], InFile(file, k)}
           /\ KeysOnce(file) =>
                 /\ KeysOnce(Written(file, upd))
                 /\ \A k \in DOMAIN upd : InFile(Written(file, upd), k) = upd[k]
<1> DEFINE r == Replaced(file, upd)
           missing == DOMAIN upd \ {file[i].key : i \in DOMAIN file}
           b == Appended(upd, missing)
<1>1. Written(file, upd) = r \o b
  BY DEF Written
<1>2. /\ r \in EnvFile /\ DOMAIN r = DOMAIN file /\ \A i \in DOMAIN file : r[i].key = file[i].key
      /\ \A k \in Keys \ DOMAIN upd : InFile(r, k) = InFile(file, k)
      /\ \A k \in DOMAIN upd : InFile(r, k) \in {upd[k], InFile(file, k)}
      /\ KeysOnce(file) =>
            /\ KeysOnce(r)
            /\ \A k \in DOMAIN upd : (\E i \in DOMAIN file : file[i].key = k) => InFile(r, k) = upd[k]
  BY LinesReplaced
<1> HIDE DEF r
<1>3. missing \in SUBSET DOMAIN upd
  OBVIOUS
<1>4. \A k \in DOMAIN upd : k \in missing <=> \A i \in DOMAIN file : file[i].key # k
  OBVIOUS
<1> HIDE DEF missing
<1>5. /\ b \in EnvFile /\ KeysOnce(b) /\ \A i \in DOMAIN b : b[i].key \in missing \cup {NoKey}
      /\ \A k \in Keys : InFile(b, k) = IF k \in missing THEN upd[k] ELSE Unset
  BY <1>3, LinesAdded
<1> HIDE DEF b
<1>6. \A i \in DOMAIN r, j \in DOMAIN b : r[i].key = b[j].key => r[i].key = NoKey
  BY <1>2, <1>3, <1>4, <1>5
<1>7. /\ r \o b \in EnvFile /\ (KeysOnce(r) /\ KeysOnce(b) => KeysOnce(r \o b))
      /\ \A k \in Keys : InFile(r \o b, k) =
            IF \E i \in DOMAIN r : r[i].key = k THEN InFile(r, k) ELSE InFile(b, k)
  BY <1>2, <1>5, <1>6, FileContinued
<1>8. ASSUME NEW k \in Keys
      PROVE  InFile(r \o b, k) = IF k \in missing THEN upd[k] ELSE InFile(r, k)
  <2>1. CASE \E i \in DOMAIN file : file[i].key = k
    BY <1>2, <1>3, <1>4, <1>7, <2>1
  <2>2. CASE \A i \in DOMAIN file : file[i].key # k
    <3>1. InFile(r, k) = Unset /\ InFile(r \o b, k) = InFile(b, k)
      BY <1>2, <1>7, <2>2, LastLine
    <3> QED BY <1>5, <3>1
  <2> QED BY <2>1, <2>2
<1> QED BY <1>1, <1>2, <1>3, <1>4, <1>5, <1>7, <1>8

\* What a process reads: its environment over the file over the defaults.
LEMMA SettingsRead ==
    ASSUME SettingsAssumption, NEW osEnv \in Environment, NEW file \in EnvFile
    PROVE  /\ Settings(osEnv, file) \in SettingsMap
           /\ \A k \in Keys : Settings(osEnv, file)[k] =
                 IF osEnv[k] # Unset THEN osEnv[k]
                 ELSE IF InFile(file, k) # Unset THEN InFile(file, k) ELSE Default(k)
<1>1. \A k \in Keys : /\ Default(k) \in Values /\ InFile(file, k) \in Values \cup {Unset}
                      /\ osEnv[k] \in Values \cup {Unset}
  BY SettingsConstants, LastLine DEF Environment
<1> QED BY <1>1 DEF Settings, SettingsMap

\* A request as it comes: keys and values.
Request(values, clear) ==
    /\ clear \subseteq Keys /\ DOMAIN values \subseteq Keys
    /\ \A k \in DOMAIN values : values[k] \in Values

\* What a request is normalised to: a cleared key is blank, and a flag or a number that is not
\* cleared has a value that loads, if the request is valid.
LEMMA RequestNormalized ==
    ASSUME SettingsAssumption, NEW values, NEW clear, Request(values, clear),
           NEW upd, upd = Updates(values, clear)
    PROVE  /\ \A k \in DOMAIN upd : k \in Keys /\ upd[k] \in Values
           /\ \A k \in DOMAIN upd \ clear : k \in DOMAIN values /\ upd[k] = Normalized(k, values[k])
           /\ \A k \in DOMAIN values : ~IsSecret(k) => k \in DOMAIN upd
           /\ \A k \in DOMAIN values : IsSecret(k) /\ values[k] = "blank" /\ k \notin clear => k \notin DOMAIN upd
           /\ ~Invalid(values, clear) =>
                 \A k \in DOMAIN upd \ clear :
                     KindOf[k] \in {"bool", "number"} => upd[k] \notin {"blank", "bad"}
<1>1. /\ DOMAIN upd = {j \in DOMAIN values : ~(IsSecret(j) /\ values[j] = "blank")} \cup clear
      /\ \A k \in DOMAIN upd : upd[k] = IF k \in clear THEN "blank" ELSE Normalized(k, values[k])
  BY DEF Updates
<1>2. \A k \in Keys, v \in Values : Normalized(k, v) \in Values
  BY SettingsConstants DEF Normalized
<1>3. \A k \in DOMAIN upd : k \in Keys /\ upd[k] \in Values
  BY <1>1, <1>2, SettingsConstants DEF Request
<1>4. ASSUME ~Invalid(values, clear), NEW k \in DOMAIN upd \ clear, KindOf[k] \in {"bool", "number"}
      PROVE  upd[k] \notin {"blank", "bad"}
  <2>1. upd[k] # "bad"
    BY <1>4 DEF Invalid
  <2>2. upd[k] = Normalized(k, values[k])
    BY <1>1
  <2>3. Normalized(k, values[k]) # "blank"
    BY <1>4, SettingsConstants DEF Normalized
  <2> QED BY <2>1, <2>2, <2>3
<1> QED BY <1>1, <1>3, <1>4

\* After a save a process with that environment and that file reads the keys of the save as
\* saved, and the others as before.
LEMMA SettingsAfterSave ==
    ASSUME SettingsAssumption, SettingsTypes, NEW upd,
           \A k \in DOMAIN upd : k \in Keys /\ upd[k] \in Values
    PROVE  /\ AppliedEnv(upd) \in Environment /\ Written(files["api"], upd) \in EnvFile
           /\ files["api"] \in EnvFile /\ environ["api"] \in Environment
           /\ \A k \in Keys :
                 Settings(AppliedEnv(upd), Written(files["api"], upd))[k] =
                     IF k \in DOMAIN upd THEN upd[k] ELSE Settings(environ["api"], files["api"])[k]
<1>1. files["api"] \in EnvFile /\ environ["api"] \in Environment
  BY SettingsConstants DEF SettingsTypes, FileOf
<1>2. /\ Written(files["api"], upd) \in EnvFile
      /\ \A k \in Keys \ DOMAIN upd : InFile(Written(files["api"], upd), k) = InFile(files["api"], k)
  BY <1>1, WrittenFile
<1>3. /\ AppliedEnv(upd) \in Environment
      /\ \A k \in Keys : AppliedEnv(upd)[k] = IF k \in DOMAIN upd THEN upd[k] ELSE environ["api"][k]
  BY <1>1 DEF AppliedEnv, Environment
<1>4. \A k \in DOMAIN upd : upd[k] # Unset
  BY SettingsConstants
<1> QED BY <1>1, <1>2, <1>3, <1>4, SettingsRead

\* What the form shows is a request, and holds every flag and number.
LEMMA FormIsRequest ==
    ASSUME SettingsAssumption, SettingsInv, cached["api"] # Down
    PROVE  /\ Request(FormValues, {}) /\ cached["api"] \in SettingsMap
           /\ DOMAIN FormValues = {k \in Keys : KindOf[k] # "other"}
           /\ \A k \in DOMAIN FormValues : FormValues[k] = IF IsSecret(k) THEN "blank" ELSE cached["api"][k]
<1>1. cached["api"] \in SettingsMap
  BY SettingsConstants DEF SettingsInv, SettingsTypes
<1> QED BY <1>1, SettingsConstants DEF FormValues, Request, SettingsMap

\* With one file and no key set around it, every process that starts reads what was saved.
LEMMA SavedIsRead ==
    ASSUME SettingsAssumption, SettingsInv, OneFile, NEW p \in Processes, NEW k \in DOMAIN saved
    PROVE  /\ k \in Keys /\ Settings(environ[p], files[FileOf(p)])[k] = saved[k]
           /\ FileOf(p) = "api" /\ FileOf("api") = "api"
<1>1. FileOf(p) = "api" /\ FileOf("api") = "api"
  BY DEF OneFile, FileOf
<1>2. files["api"] \in EnvFile /\ environ[p] \in Environment
  BY <1>1 DEF SettingsInv, SettingsTypes
<1>3. k \in Keys /\ saved[k] \in Values /\ InFile(files["api"], k) = saved[k]
  BY DEF SettingsInv, SettingsTypes, SavedInv, OneFile, NamedOnce
<1>4. environ[p][k] \in {Unset, saved[k]}
  <2>1. BaseEnv[k] = Unset
    BY <1>3 DEF OneFile
  <2> QED BY <2>1 DEF SettingsInv, EnvironInv, SavedInv, OneFile, NamedOnce
<1> QED BY <1>1, <1>2, <1>3, <1>4, SettingsRead, SettingsConstants

-----------------------------------------------------------------------------
\* A process starts.
LEMMA StartKeepsSettings ==
    ASSUME SettingsAssumption, SettingsInv, NEW p \in Processes, StartProcess(p)
    PROVE  SettingsInv'
<1> DEFINE s == Settings(environ[p], files[FileOf(p)])
<1>1. files[FileOf(p)] \in EnvFile /\ environ[p] \in Environment
  BY DEF SettingsInv, SettingsTypes
<1>2. s \in SettingsMap /\ Loads(s)
  BY <1>1, SettingsRead DEF StartProcess
<1>3. FileOf("api") = "api" /\ "api" \in Processes
  BY SettingsConstants DEF FileOf
<1>4. /\ cached' = [cached EXCEPT ![p] = s]
      /\ UNCHANGED <<files, environ, reply, saved, saves, edits>>
  BY DEF StartProcess
<1>5. p = "api" => s = Settings(environ["api"], files["api"])
  BY <1>3
<1>6. OneFile /\ p = "api" => \A k \in DOMAIN saved : s[k] = saved[k]
  BY SavedIsRead
<1> HIDE DEF s
<1>7. SettingsTypes'
  BY <1>2, <1>4 DEF SettingsInv, SettingsTypes
<1>8. LoadedInv'
  BY <1>2, <1>3, <1>4, <1>5 DEF SettingsInv, SettingsTypes, LoadedInv
<1>9. EnvironInv' /\ (NamedOnce => SavedInv)'
  BY <1>4 DEF SettingsInv, EnvironInv, NamedOnce, SavedInv
<1>10. (OneFile => SavedIsInForce)'
  BY <1>3, <1>4, <1>6 DEF SettingsInv, SettingsTypes, OneFile, SavedIsInForce
<1>11. (ClearsTexts => ValidSavesWork)'
  BY <1>4 DEF SettingsInv, ClearsTexts, ValidSavesWork
<1> QED BY <1>7, <1>8, <1>9, <1>10, <1>11 DEF SettingsInv

\* A process stops.
LEMMA StopKeepsSettings ==
    ASSUME SettingsAssumption, SettingsInv, NEW p \in Processes, StopProcess(p)
    PROVE  SettingsInv'
<1>1. /\ cached' = [cached EXCEPT ![p] = Down] /\ environ' = [environ EXCEPT ![p] = BaseEnv]
      /\ UNCHANGED <<files, reply, saved, saves, edits>> /\ "api" \in Processes /\ BaseEnv \in Environment
  BY SettingsConstants DEF StopProcess
<1>2. SettingsTypes'
  BY <1>1 DEF SettingsInv, SettingsTypes
<1>3. EnvironInv' /\ (NamedOnce => SavedInv)'
  BY <1>1 DEF SettingsInv, SettingsTypes, EnvironInv, NamedOnce, SavedInv
<1>4. LoadedInv'
  BY <1>1 DEF SettingsInv, SettingsTypes, LoadedInv
<1>5. (OneFile => SavedIsInForce)'
  BY <1>1 DEF SettingsInv, SettingsTypes, OneFile, SavedIsInForce
<1>6. (ClearsTexts => ValidSavesWork)'
  BY <1>1 DEF SettingsInv, ClearsTexts, ValidSavesWork
<1> QED BY <1>2, <1>3, <1>4, <1>5, <1>6 DEF SettingsInv

\* A save that is refused for want of the token.
LEMMA ForbiddenKeepsSettings ==
    ASSUME SettingsAssumption, SettingsInv, SaveForbidden
    PROVE  SettingsInv'
<1>1. UNCHANGED <<files, environ, cached, saved, edits>> /\ reply'.code # 422
  BY DEF SaveForbidden, Answer
<1>2. SettingsTypes' /\ EnvironInv' /\ LoadedInv' /\ (NamedOnce => SavedInv)'
  BY <1>1 DEF SettingsInv, SettingsTypes, EnvironInv, LoadedInv, NamedOnce, SavedInv
<1>3. (OneFile => SavedIsInForce)' /\ (ClearsTexts => ValidSavesWork)'
  BY <1>1 DEF SettingsInv, OneFile, SavedIsInForce, ClearsTexts, ValidSavesWork
<1> QED BY <1>2, <1>3 DEF SettingsInv

\* A line of a file is edited by hand.
LEMMA HandEditKeepsSettings ==
    ASSUME SettingsAssumption, SettingsInv, HandEdit
    PROVE  SettingsInv'
<1>1. PICK f \in DOMAIN files, k \in Keys, v \in GoodValues :
          /\ files' = [files EXCEPT ![f] = Written(files[f], [j \in {k} |-> v])]
          /\ saved' = [j \in DOMAIN saved \ {k} |-> saved[j]]
  BY DEF HandEdit
<1>2. edits' = edits + 1 /\ edits \in Nat /\ UNCHANGED <<environ, cached, reply, saves>>
  BY DEF HandEdit, SettingsInv, SettingsTypes
<1>3. v \in Values /\ v \notin {"blank", "bad"}
  BY DEF Values, SettingsAssumption, ValuesAssumption
<1>4. files \in [{FileOf(p) : p \in Processes} -> EnvFile] /\ "api" \in DOMAIN files
  BY SettingsConstants DEF SettingsInv, SettingsTypes, FileOf
<1>5. files[f] \in EnvFile
  BY <1>4
<1>6. /\ Written(files[f], [j \in {k} |-> v]) \in EnvFile
      /\ KeysOnce(files[f]) => KeysOnce(Written(files[f], [j \in {k} |-> v]))
      /\ \A i \in Keys \ {k} : InFile(Written(files[f], [j \in {k} |-> v]), i) = InFile(files[f], i)
      /\ InFile(Written(files[f], [j \in {k} |-> v]), k) \in {v, InFile(files[f], k)}
  BY <1>3, <1>5, WrittenFile
<1>7. files' \in [{FileOf(p) : p \in Processes} -> EnvFile]
  BY <1>1, <1>4, <1>6
<1>8. /\ \A j \in Keys : InFile(files'["api"], j) \in {InFile(files["api"], j), IF j = k THEN v ELSE InFile(files["api"], j)}
      /\ KeysOnce(files["api"]) => KeysOnce(files'["api"])
  BY <1>1, <1>4, <1>6
<1>9. SettingsTypes'
  BY <1>1, <1>2, <1>7 DEF SettingsInv, SettingsTypes
<1>10. EnvironInv' /\ (NamedOnce => SavedInv)'
  BY <1>1, <1>2, <1>8 DEF SettingsInv, SettingsTypes, EnvironInv, NamedOnce, SavedInv
<1>11. LoadedInv'
  <2>1. edits' # 0 /\ \A p \in Processes : cached'[p] # Down => Loads(cached'[p])
    BY <1>2 DEF SettingsInv, LoadedInv
  <2>2. ASSUME cached["api"] # Down
        PROVE  Loads(Settings(environ["api"], files'["api"]))
    <3>1. environ["api"] \in Environment /\ files["api"] \in EnvFile /\ files'["api"] \in EnvFile
      BY <1>4, <1>7, SettingsConstants DEF SettingsInv, SettingsTypes
    <3>2. Loads(Settings(environ["api"], files["api"]))
      BY <2>2 DEF SettingsInv, LoadedInv
    <3>3. \A j \in Keys : Settings(environ["api"], files'["api"])[j]
                              \in {Settings(environ["api"], files["api"])[j], v}
      BY <1>3, <1>8, <3>1, SettingsRead, SettingsConstants
    <3> QED BY <1>3, <3>2, <3>3 DEF Loads
  <2> QED BY <1>2, <2>1, <2>2 DEF LoadedInv
<1>12. (OneFile => SavedIsInForce)' /\ (ClearsTexts => ValidSavesWork)'
  BY <1>1, <1>2 DEF SettingsInv, OneFile, SavedIsInForce, ClearsTexts, ValidSavesWork
<1> QED BY <1>9, <1>10, <1>11, <1>12 DEF SettingsInv

\* A save of a request, whoever made it: refused or written.
LEMMA SaveKeepsSettings ==
    ASSUME SettingsAssumption, SettingsInv, NEW values, NEW clear, Request(values, clear),
           ClearsTexts => \A k \in clear : KindOf[k] \notin {"bool", "number"},
           Save(values, clear)
    PROVE  SettingsInv'
<1> DEFINE upd == Updates(values, clear)
           file == Written(files["api"], upd)
           now == Settings(environ["api"], files["api"])
           later == Settings(AppliedEnv(upd), file)
           fresh == IF upd = Down THEN cached["api"] ELSE Refreshed(AppliedEnv(upd), file)
<1>1. cached["api"] # Down /\ edits' = edits /\ "api" \in Processes /\ FileOf("api") = "api"
  BY SettingsConstants DEF Save, FileOf
<1>2. CASE Invalid(values, clear)
  <2>1. UNCHANGED <<files, environ, cached, saved, edits>> /\ reply'.valid = FALSE
    BY <1>1, <1>2 DEF Save, Answer
  <2>2. SettingsTypes' /\ EnvironInv' /\ LoadedInv' /\ (NamedOnce => SavedInv)'
    BY <2>1 DEF SettingsInv, SettingsTypes, EnvironInv, LoadedInv, NamedOnce, SavedInv
  <2>3. (OneFile => SavedIsInForce)' /\ (ClearsTexts => ValidSavesWork)'
    BY <2>1 DEF SettingsInv, OneFile, SavedIsInForce, ClearsTexts, ValidSavesWork
  <2> QED BY <2>2, <2>3 DEF SettingsInv
<1>3. CASE ~Invalid(values, clear)
  <2>1. /\ files' = IF upd = Down THEN files ELSE [files EXCEPT !["api"] = file]
        /\ environ' = [environ EXCEPT !["api"] = AppliedEnv(upd)]
        /\ cached' = [cached EXCEPT !["api"] = fresh]
        /\ saved' = [k \in DOMAIN saved \cup DOMAIN upd |-> IF k \in DOMAIN upd THEN upd[k] ELSE saved[k]]
        /\ reply'.code = IF fresh = Down THEN 422 ELSE 200
    BY <1>3 DEF Save, Answer
  <2>2. /\ \A k \in DOMAIN upd : k \in Keys /\ upd[k] \in Values
        /\ \A k \in DOMAIN upd \ clear : KindOf[k] \in {"bool", "number"} => upd[k] \notin {"blank", "bad"}
    BY <1>3, RequestNormalized
  <2>3. upd = Down => DOMAIN upd = {}
    BY SettingsConstants
  <2> HIDE DEF upd
  <2>4. /\ AppliedEnv(upd) \in Environment /\ file \in EnvFile
        /\ files["api"] \in EnvFile /\ environ["api"] \in Environment
        /\ \A k \in Keys : later[k] = IF k \in DOMAIN upd THEN upd[k] ELSE now[k]
    BY <2>2, SettingsAfterSave DEF SettingsInv
  <2>5. /\ \A k \in Keys \ DOMAIN upd : InFile(file, k) = InFile(files["api"], k)
        /\ KeysOnce(files["api"]) => KeysOnce(file) /\ \A k \in DOMAIN upd : InFile(file, k) = upd[k]
        /\ \A k \in Keys : AppliedEnv(upd)[k] = IF k \in DOMAIN upd THEN upd[k] ELSE environ["api"][k]
    BY <2>2, <2>4, WrittenFile DEF AppliedEnv
  <2>6. later \in SettingsMap /\ (upd # Down => fresh = IF Loads(later) THEN later ELSE Down)
    BY <2>4, SettingsRead DEF Refreshed
  <2> HIDE DEF file, later
  <2>7. \/ files' = files /\ DOMAIN upd = {} /\ fresh = cached["api"]
        \/ files' = [files EXCEPT !["api"] = file] /\ fresh = IF Loads(later) THEN later ELSE Down
    BY <2>1, <2>3, <2>6
  <2>8. files'["api"] = file \/ (files' = files /\ DOMAIN upd = {})
    BY <1>1, <2>7 DEF SettingsInv, SettingsTypes
  <2> HIDE DEF fresh
  <2>9. /\ files'["api"] \in EnvFile /\ environ'["api"] = AppliedEnv(upd) /\ cached'["api"] = fresh
        /\ \A p \in Processes \ {"api"} : environ'[p] = environ[p] /\ cached'[p] = cached[p]
    BY <1>1, <2>1, <2>4, <2>8 DEF SettingsInv, SettingsTypes
  <2>10. SettingsTypes'
    <3>1. files' \in [{FileOf(p) : p \in Processes} -> EnvFile]
      BY <2>4, <2>7 DEF SettingsInv, SettingsTypes
    <3>2. environ' \in [Processes -> Environment]
      BY <2>1, <2>4 DEF SettingsInv, SettingsTypes
    <3>3. cached' \in [Processes -> {Down} \cup SettingsMap]
      <4>1. fresh \in {Down} \cup SettingsMap
        BY <1>1, <2>6, <2>7 DEF SettingsInv, SettingsTypes
      <4> QED BY <2>1, <4>1 DEF SettingsInv, SettingsTypes
    <3>4. \A k \in DOMAIN saved' : k \in Keys /\ saved'[k] \in Values
      BY <2>1, <2>2 DEF SettingsInv, SettingsTypes
    <3> QED BY <1>1, <3>1, <3>2, <3>3, <3>4 DEF SettingsInv, SettingsTypes
  <2>11. EnvironInv'
    BY <2>9 DEF SettingsInv, EnvironInv
  <2>12. \A k \in DOMAIN saved' : IF k \in DOMAIN upd THEN saved'[k] = upd[k]
                                  ELSE k \in DOMAIN saved /\ saved'[k] = saved[k]
    BY <2>1
  <2>13. (NamedOnce => SavedInv)'
    <3>0. ASSUME NamedOnce
          PROVE  KeysOnce(files["api"]) /\ KeysOnce(files'["api"]) /\ SavedInv
      BY <2>5, <2>8, <3>0 DEF SettingsInv, SavedInv
    <3> SUFFICES ASSUME NamedOnce, NEW k \in DOMAIN saved'
                 PROVE  /\ InFile(files'["api"], k) = saved'[k]
                        /\ environ'["api"][k] \in {BaseEnv[k], saved'[k]}
      BY <3>0 DEF NamedOnce, SavedInv
    <3>1. CASE k \in DOMAIN upd
      BY <2>2, <2>5, <2>8, <2>9, <2>12, <3>0, <3>1
    <3>2. CASE k \notin DOMAIN upd
      <4>1. /\ k \in Keys /\ saved'[k] = saved[k] /\ InFile(files["api"], k) = saved[k]
            /\ environ["api"][k] \in {BaseEnv[k], saved[k]}
        BY <2>12, <3>0, <3>2 DEF SettingsInv, SettingsTypes, SavedInv
      <4>2. InFile(files'["api"], k) = InFile(files["api"], k)
        BY <2>5, <2>8, <3>2, <4>1
      <4>3. environ'["api"][k] = environ["api"][k]
        BY <2>5, <2>9, <3>2, <4>1
      <4> QED BY <4>1, <4>2, <4>3
    <3> QED BY <3>1, <3>2
  <2>14. \A k \in Keys : Settings(environ'["api"], files'["api"])[k] =
                             IF k \in DOMAIN upd THEN upd[k] ELSE now[k]
    <3>1. CASE files'["api"] = file
      BY <2>4, <2>9, <3>1 DEF later
    <3>2. CASE files' = files /\ DOMAIN upd = {}
      <4>1. \A k \in Keys : environ'["api"][k] = environ["api"][k]
        BY <2>5, <2>9, <3>2
      <4> QED BY <2>4, <2>9, <3>2, <4>1, SettingsRead
    <3> QED BY <2>8, <3>1, <3>2
  <2>15. /\ fresh # Down => Loads(Settings(environ'["api"], files'["api"])) /\ Loads(fresh)
         /\ fresh # Down /\ edits = 0 => fresh = Settings(environ'["api"], files'["api"])
    <3>1. CASE files' = files /\ DOMAIN upd = {} /\ fresh = cached["api"]
      <4>1. Settings(environ'["api"], files'["api"]) = now
        <5>1. Settings(environ'["api"], files'["api"]) \in SettingsMap /\ now \in SettingsMap
          BY <2>4, <2>9, SettingsRead
        <5> QED BY <2>14, <3>1, <5>1 DEF SettingsMap
      <4> QED BY <1>1, <3>1, <4>1 DEF SettingsInv, LoadedInv
    <3>2. CASE files' = [files EXCEPT !["api"] = file] /\ fresh = IF Loads(later) THEN later ELSE Down
      <4>1. files'["api"] = file
        BY <1>1, <3>2 DEF SettingsInv, SettingsTypes
      <4> QED BY <2>9, <3>2, <4>1 DEF later
    <3> QED BY <2>7, <3>1, <3>2
  <2>16. LoadedInv'
    BY <1>1, <2>9, <2>15 DEF SettingsInv, LoadedInv
  <2>17. (OneFile => SavedIsInForce)'
    <3> SUFFICES ASSUME OneFile, fresh # Down, environ'["api"] # BaseEnv, NEW k \in DOMAIN saved'
                 PROVE  fresh[k] = saved'[k]
      BY <2>9 DEF OneFile, SavedIsInForce
    <3>1. CASE files' = files /\ DOMAIN upd = {} /\ fresh = cached["api"]
      <4>1. k \in DOMAIN saved /\ saved'[k] = saved[k]
        BY <2>12, <3>1
      <4>2. environ'["api"] = environ["api"]
        BY <2>4, <2>5, <2>9, <3>1 DEF Environment
      <4> QED BY <1>1, <3>1, <4>1, <4>2 DEF SettingsInv, OneFile, SavedIsInForce
    <3>2. CASE fresh = IF Loads(later) THEN later ELSE Down
      <4>1. k \in DOMAIN saved => k \in Keys /\ now[k] = saved[k]
        BY <1>1, SavedIsRead
      <4> QED BY <2>2, <2>4, <2>12, <3>2, <4>1
    <3> QED BY <2>7, <3>1, <3>2
  <2>18. (ClearsTexts => ValidSavesWork)'
    <3> SUFFICES ASSUME ClearsTexts PROVE fresh # Down
      BY <2>1 DEF ClearsTexts, ValidSavesWork
    <3>1. Loads(now)
      BY <1>1 DEF SettingsInv, LoadedInv
    <3>2. Loads(later)
      BY <2>2, <2>4, <3>1 DEF Loads
    <3> QED BY <1>1, <2>6, <2>7, <3>2, SettingsConstants
  <2> QED BY <2>10, <2>11, <2>13, <2>16, <2>17, <2>18 DEF SettingsInv
<1> QED BY <1>2, <1>3

\* Every step keeps the invariant.
LEMMA SettingsKept ==
    ASSUME SettingsAssumption, SettingsInv, [SettingsNext]_settingsVars
    PROVE  SettingsInv'
<1>1. CASE UNCHANGED settingsVars
  <2>1. UNCHANGED <<files, environ, cached, reply, saved, saves, edits>>
    BY <1>1 DEF settingsVars
  <2>2. SettingsTypes' /\ EnvironInv' /\ LoadedInv' /\ (NamedOnce => SavedInv)'
    BY <2>1 DEF SettingsInv, SettingsTypes, EnvironInv, LoadedInv, NamedOnce, SavedInv
  <2>3. (OneFile => SavedIsInForce)' /\ (ClearsTexts => ValidSavesWork)'
    BY <2>1 DEF SettingsInv, OneFile, SavedIsInForce, ClearsTexts, ValidSavesWork
  <2> QED BY <2>2, <2>3 DEF SettingsInv
<1>2. CASE \E p \in Processes : StartProcess(p) \/ StopProcess(p)
  BY <1>2, StartKeepsSettings, StopKeepsSettings
<1>3. CASE SaveForbidden \/ HandEdit
  BY <1>3, ForbiddenKeepsSettings, HandEditKeepsSettings
<1>4. CASE SaveSome
  <2>1. PICK r \in SettingsPayloads : Save(r.values, r.clear)
    BY <1>4 DEF SaveSome
  <2>2. Request(r.values, r.clear)
    BY DEF Request, SettingsAssumption, ValuesAssumption
  <2>3. ClearsTexts => \A k \in r.clear : KindOf[k] \notin {"bool", "number"}
    BY DEF ClearsTexts
  <2> QED BY <2>1, <2>2, <2>3, SaveKeepsSettings
<1>5. CASE SaveForm
  <2>1. Save(FormValues, {}) /\ Request(FormValues, {})
    BY <1>5, FormIsRequest DEF SaveForm
  <2> QED BY <2>1, SaveKeepsSettings
<1> QED BY <1>1, <1>2, <1>3, <1>4, <1>5 DEF SettingsNext

\* The files as they are found, before anything has started.
LEMMA SettingsStart ==
    ASSUME SettingsAssumption, SettingsInit
    PROVE  SettingsInv
<1>1. /\ files \in [{FileOf(p) : p \in Processes} -> EnvFile] /\ environ = [p \in Processes |-> BaseEnv]
      /\ cached = [p \in Processes |-> Down] /\ reply.code = 0 /\ DOMAIN saved = {} /\ edits = 0
      /\ BaseEnv \in Environment /\ "api" \in Processes
  BY SettingsConstants DEF SettingsInit, NoReply
<1>2. SettingsTypes /\ EnvironInv
  BY <1>1 DEF SettingsTypes, EnvironInv
<1>3. LoadedInv
  BY <1>1 DEF LoadedInv
<1>4. (OneFile => SavedIsInForce) /\ (ClearsTexts => ValidSavesWork)
  BY <1>1 DEF SavedIsInForce, ValidSavesWork
<1>5. NamedOnce => SavedInv
  <2>1. files["api"] \in StartFiles
    BY SettingsConstants DEF SettingsInit, FileOf
  <2> QED BY <1>1, <2>1 DEF NamedOnce, SavedInv
<1> QED BY <1>2, <1>3, <1>4, <1>5 DEF SettingsInv

\* What was saved is in force, is what every process starts with, and is accepted if it is
\* valid: settings/service.py, save_editable_settings, for any keys, values, requests and
\* number of processes.
THEOREM SettingsCorrect == ASSUME SettingsAssumption PROVE SettingsSpec => []SettingsHold
<1>1. SettingsInit => SettingsInv
  BY SettingsStart
<1>2. SettingsInv /\ [SettingsNext]_settingsVars => SettingsInv'
  BY SettingsKept
<1>3. SettingsInv => SettingsHold
  <2> SUFFICES ASSUME SettingsInv PROVE SettingsHold
    OBVIOUS
  <2>1. OneFile => RestartedSeeSaves
    BY SavedIsRead DEF RestartedSeeSaves
  <2> QED BY <2>1 DEF SettingsInv, SettingsHold
<1> QED BY <1>1, <1>2, <1>3, PTL DEF SettingsSpec

\* What a save does to the file: the keys it does not name keep their lines' values.
LEMMA OthersSurvive ==
    ASSUME SettingsAssumption, SettingsInv, NEW values, NEW clear, Request(values, clear),
           Save(values, clear), NEW k \in Keys, k \notin {w[1] : w \in reply'.wanted}
    PROVE  InFile(files'["api"], k) = InFile(files["api"], k)
<1> DEFINE upd == Updates(values, clear)
           file == Written(files["api"], upd)
<1>1. CASE Invalid(values, clear)
  BY <1>1 DEF Save
<1>2. CASE ~Invalid(values, clear)
  <2>1. /\ files' = IF upd = Down THEN files ELSE [files EXCEPT !["api"] = file]
        /\ reply'.wanted = {<<j, upd[j]>> : j \in DOMAIN upd}
    BY <1>2 DEF Save, Answer
  <2>2. \A j \in DOMAIN upd : j \in Keys /\ upd[j] \in Values
    BY RequestNormalized
  <2> HIDE DEF upd
  <2>3. k \notin DOMAIN upd
    <3>1. ASSUME k \in DOMAIN upd PROVE FALSE
      <4>1. <<k, upd[k]>> \in reply'.wanted /\ <<k, upd[k]>>[1] = k
        BY <2>1, <3>1
      <4> QED BY <4>1
    <3> QED BY <3>1
  <2>4. files["api"] \in EnvFile /\ "api" \in DOMAIN files
    BY SettingsConstants DEF SettingsInv, SettingsTypes, FileOf
  <2>5. InFile(file, k) = InFile(files["api"], k)
    BY <2>2, <2>3, <2>4, WrittenFile
  <2> QED BY <2>1, <2>4, <2>5
<1> QED BY <1>1, <1>2

\* The form as it was read, saved again.
LEMMA FormIsNeutral ==
    ASSUME SettingsAssumption, SettingsInv, SaveForm
    PROVE  /\ cached'["api"] # Down
           /\ \A k \in Keys : cached'["api"][k] = cached["api"][k]
                  \/ (edits > 0 /\ k \notin {w[1] : w \in reply'.wanted})
<1> DEFINE upd == Updates(FormValues, {})
           file == Written(files["api"], upd)
           now == Settings(environ["api"], files["api"])
           later == Settings(AppliedEnv(upd), file)
<1>1. Save(FormValues, {}) /\ cached["api"] # Down /\ "api" \in Processes
  BY SettingsConstants DEF SaveForm
<1>2. /\ Request(FormValues, {}) /\ cached["api"] \in SettingsMap
      /\ DOMAIN FormValues = {k \in Keys : KindOf[k] # "other"}
      /\ \A k \in DOMAIN FormValues : FormValues[k] = IF IsSecret(k) THEN "blank" ELSE cached["api"][k]
  BY <1>1, FormIsRequest
<1>3. CASE Invalid(FormValues, {})
  BY <1>1, <1>3 DEF Save
<1>4. CASE ~Invalid(FormValues, {})
  <2>1. /\ cached' = [cached EXCEPT !["api"] = IF upd = Down THEN cached["api"] ELSE Refreshed(AppliedEnv(upd), file)]
        /\ reply'.wanted = {<<j, upd[j]>> : j \in DOMAIN upd}
    BY <1>1, <1>4 DEF Save, Answer
  <2>2. /\ \A k \in DOMAIN upd : k \in Keys /\ upd[k] \in Values
        /\ \A k \in DOMAIN upd : k \in DOMAIN FormValues /\ upd[k] = Normalized(k, FormValues[k])
        /\ \A k \in DOMAIN FormValues : ~IsSecret(k) => k \in DOMAIN upd
        /\ \A k \in DOMAIN FormValues : IsSecret(k) /\ FormValues[k] = "blank" => k \notin DOMAIN upd
        /\ \A k \in DOMAIN upd : KindOf[k] \in {"bool", "number"} => upd[k] \notin {"blank", "bad"}
    BY <1>2, <1>4, RequestNormalized
  <2> HIDE DEF upd
  <2>3. Loads(cached["api"]) /\ Loads(now) /\ edits \in Nat /\ (edits = 0 => cached["api"] = now)
    BY <1>1 DEF SettingsInv, SettingsTypes, LoadedInv
  <2>4. \A k \in DOMAIN upd : upd[k] = cached["api"][k]
    <3> SUFFICES ASSUME NEW k \in DOMAIN upd PROVE upd[k] = cached["api"][k]
      OBVIOUS
    <3>1. k \in Keys /\ ~IsSecret(k) /\ FormValues[k] = cached["api"][k]
      BY <1>2, <2>2
    <3>2. KindOf[k] \in {"bool", "number"} => cached["api"][k] # "blank"
      BY <2>3, <3>1 DEF Loads
    <3> QED BY <2>2, <3>1, <3>2 DEF Normalized
  <2>5. /\ \A k \in Keys : later[k] = IF k \in DOMAIN upd THEN upd[k] ELSE now[k]
        /\ later \in SettingsMap
    BY <2>2, SettingsAfterSave, SettingsRead DEF SettingsInv
  <2>6. Loads(later)
    BY <2>2, <2>3, <2>5 DEF Loads
  <2>7. cached'["api"] \in {cached["api"], later}
    <3> HIDE DEF later
    <3>1. Refreshed(AppliedEnv(upd), file) = later
      BY <2>6 DEF Refreshed, later
    <3> QED BY <1>1, <2>1, <3>1 DEF SettingsInv, SettingsTypes
  <2> HIDE DEF later, now
  <2>8. cached'["api"] # Down
    BY <1>1, <2>5, <2>7, SettingsConstants
  <2>9. ASSUME NEW k \in Keys
        PROVE  cached'["api"][k] = cached["api"][k] \/ (edits > 0 /\ k \notin {w[1] : w \in reply'.wanted})
    <3>1. CASE k \in DOMAIN upd
      BY <2>4, <2>5, <2>7, <3>1
    <3>2. CASE k \notin DOMAIN upd
      <4>1. k \notin {w[1] : w \in reply'.wanted}
        <5>1. \A w \in reply'.wanted : w[1] \in DOMAIN upd
          BY <2>1
        <5> QED BY <3>2, <5>1
      <4>2. edits = 0 => cached'["api"][k] = cached["api"][k]
        BY <2>3, <2>5, <2>7, <3>2
      <4> QED BY <2>3, <4>1, <4>2
    <3> QED BY <3>1, <3>2
  <2> QED BY <2>8, <2>9
<1> QED BY <1>3, <1>4

\* A save touches only what it names, though the whole file is written anew, and saving the form
\* as it was read changes nothing, whatever the file says and how often.
THEOREM SavesCorrect ==
    ASSUME SettingsAssumption
    PROVE  SettingsSpec => [][OtherKeysSurvive /\ SaveOfReadIsNeutral]_settingsVars
<1>1. SettingsInit => SettingsInv
  BY SettingsStart
<1>2. SettingsInv /\ [SettingsNext]_settingsVars => SettingsInv'
  BY SettingsKept
<1>3. ASSUME SettingsInv, SettingsNext
      PROVE  OtherKeysSurvive /\ SaveOfReadIsNeutral
  <2>1. SaveOfReadIsNeutral
    BY <1>3, FormIsNeutral DEF SaveOfReadIsNeutral
  <2>2. OtherKeysSurvive
    <3>1. CASE \E p \in Processes : StartProcess(p) \/ StopProcess(p)
      BY <3>1 DEF StartProcess, StopProcess, OtherKeysSurvive
    <3>2. CASE SaveForbidden \/ HandEdit
      BY <3>2 DEF SaveForbidden, Answer, HandEdit, OtherKeysSurvive
    <3>3. CASE SaveSome
      <4>1. PICK r \in SettingsPayloads : Save(r.values, r.clear)
        BY <3>3 DEF SaveSome
      <4>2. Request(r.values, r.clear)
        BY DEF Request, SettingsAssumption, ValuesAssumption
      <4> QED BY <1>3, <4>1, <4>2, OthersSurvive DEF OtherKeysSurvive
    <3>4. CASE SaveForm
      <4>1. Save(FormValues, {}) /\ Request(FormValues, {})
        BY <1>3, <3>4, FormIsRequest DEF SaveForm
      <4> QED BY <1>3, <4>1, OthersSurvive DEF OtherKeysSurvive
    <3> QED BY <1>3, <3>1, <3>2, <3>3, <3>4 DEF SettingsNext
  <2> QED BY <2>1, <2>2
<1> QED BY <1>1, <1>2, <1>3, PTL DEF SettingsSpec
=============================================================================
