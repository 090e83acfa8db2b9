---------------------------- MODULE TelegramAccess ----------------------------
(***************************************************************************)
(* Who the bot talks to: the chat bindings, the authorization of a chat,   *)
(* the recipients of a push and the answers to webhook messages            *)
(* (telegram/binding_service.py, telegram/service.py, routes/telegram.py), *)
(* as concurrent requests over one READ COMMITTED database.  An action is  *)
(* one statement of a request with what it does until its next await.      *)
(*                                                                         *)
(* What a command computes and the text of an answer are left out; the     *)
(* records a push writes are in TelegramPush.                              *)
(*                                                                         *)
(* A definition marked "mutant" is a plausible mistake in the definition   *)
(* that follows it; nothing uses it but the tests of the properties.       *)
(***************************************************************************)
EXTENDS Integers, FiniteSets

CONSTANTS
    Requests,    \* API requests, webhook updates and Celery pushes
    Chats,       \* chat ids
    Users,       \* user keys a chat can be bound to
    EnvLists,    \* values of TELEGRAM_ALLOWED_CHAT_IDS
    Kinds,       \* kinds of request explored
    MaxFaults    \* bound on the database errors

None == 0        \* no chat
NoRow == <<>>    \* no binding, and a patch of no field

\* Assumed of the constants by the modules that give them values.
ChatsAssumption == Chats \subseteq Int \ {None} /\ IsFiniteSet(Chats)
EnvAssumption == \A list \in EnvLists : \A e \in list : e.chat \in Chats \cup {None}
FaultsAssumption == MaxFaults \in Nat

VARIABLES
    env,             \* entries of the allowlist; an entry that is no number has chat None,
                     \* one that is not written as str(int) writes it is not canonical
    requireBinding,  \* TELEGRAM_REQUIRE_BINDING
    bindings,        \* telegram_bindings by chat, or NoRow
    req,             \* the local state of each request
    sent,            \* what Telegram has accepted: [req, chat]
    span,            \* history of a request: chats authorized ever and always
                     \* since it began, chats with an active binding when it began
    faults

settings == <<env, requireBinding>>
vars == <<env, requireBinding, bindings, req, sent, span, faults>>

Idle == [pc |-> "idle", kind |-> "none", chat |-> None, todo |-> {}, chosen |-> {},
         accepted |-> {}, want |-> NoRow, loaded |-> NoRow]

Init ==
    /\ env \in EnvLists /\ requireBinding \in BOOLEAN
    /\ bindings = [c \in Chats |-> NoRow]
    /\ req = [r \in Requests |-> Idle]
    /\ sent = {} /\ faults = 0
    /\ span = [r \in Requests |-> [ever |-> {}, always |-> Chats, active |-> {}]]

-----------------------------------------------------------------------------
EnvIds == {e.chat : e \in env} \ {None}
EnvAllows(c) == [chat |-> c, canonical |-> TRUE] \in env
Bound(b) == {c \in Chats : b[c] # NoRow}
ActiveBindings(b) == {c \in Bound(b) : b[c].allowed}

\* The rule the docs give for a chat, over one state of the table.
Authorized(c, b) ==
    /\ env # {} => EnvAllows(c)
    /\ IF b[c] # NoRow THEN b[c].allowed ELSE env # {} \/ (~requireBinding /\ Bound(b) = {})
AuthorizedChats(b) == {c \in Chats : Authorized(c, b)}

Begin(r, start) ==
    /\ req[r].pc = "idle"
    /\ req' = [req EXCEPT ![r] = start]
    /\ span' = [span EXCEPT ![r] = [ever |-> AuthorizedChats(bindings),
                                    always |-> AuthorizedChats(bindings),
                                    active |-> ActiveBindings(bindings)]]
    /\ UNCHANGED <<env, requireBinding, bindings, sent, faults>>

\* resolve_telegram_recipients: the requested chats, else those of the allowlist, else
\* the chats with an active binding.
Candidates(chosen) ==
    IF chosen # {} THEN chosen ELSE IF EnvIds # {} THEN EnvIds ELSE ActiveBindings(bindings)

StartPush(r) ==
    /\ "push" \in Kinds
    /\ \E chosen \in SUBSET Chats :
         Begin(r, [Idle EXCEPT !.pc = IF Candidates(chosen) = {} THEN "done" ELSE "check",
                               !.kind = "push", !.chosen = chosen, !.todo = Candidates(chosen)])

\* handle_update: /id and /chatid are answered before the authorization.
StartMessage(r) ==
    /\ "message" \in Kinds
    /\ \E c \in Chats :
         \/ Begin(r, [Idle EXCEPT !.pc = "check", !.kind = "message", !.chat = c, !.todo = {c}])
         \/ Begin(r, [Idle EXCEPT !.pc = "send", !.kind = "id", !.chat = c, !.todo = {c}])
         \/ Begin(r, [Idle EXCEPT !.pc = "done", !.kind = "no_message"])

Candidate(r) == CHOOSE c \in req[r].todo : \A d \in req[r].todo : c <= d

\* is_telegram_chat_authorized has its answer for the next candidate.
Decide(r, allowed) ==
    LET left == req[r].todo \ {Candidate(r)}
        accepted == req[r].accepted \cup (IF allowed THEN {Candidate(r)} ELSE {})
    IN  req' = [req EXCEPT ![r].todo = IF left = {} THEN accepted ELSE left,
                           ![r].accepted = accepted,
                           ![r].pc = IF left # {} THEN "check"
                                     ELSE IF accepted # {} THEN "send" ELSE "done"]

EnvListSuffices(r) ==                                        \* mutant
    /\ req[r].pc = "check"
    /\ LET c == Candidate(r)
       IN  IF env # {} THEN Decide(r, EnvAllows(c))
           ELSE IF bindings[c] # NoRow THEN Decide(r, bindings[c].allowed)
           ELSE IF requireBinding THEN Decide(r, FALSE)
           ELSE req' = [req EXCEPT ![r].pc = "count"]
    /\ UNCHANGED <<env, requireBinding, bindings, sent, span, faults>>

ReadBinding(r) ==
    /\ req[r].pc = "check"
    /\ LET c == Candidate(r)
       IN  IF env # {} /\ ~EnvAllows(c) THEN Decide(r, FALSE)
           ELSE IF bindings[c] # NoRow THEN Decide(r, bindings[c].allowed)
           ELSE IF env # {} THEN Decide(r, TRUE)
           ELSE IF requireBinding THEN Decide(r, FALSE)
           ELSE req' = [req EXCEPT ![r].pc = "count"]
    /\ UNCHANGED <<env, requireBinding, bindings, sent, span, faults>>

\* telegram_binding_counts: the open mode, as long as no chat was ever bound.
CountBindings(r) ==
    /\ req[r].pc = "count"
    /\ Decide(r, Bound(bindings) = {})
    /\ UNCHANGED <<env, requireBinding, bindings, sent, span, faults>>

\* One message leaves, and Telegram accepts it or not; a command that fails with a
\* database error is answered as well, with another text.
Send(r) ==
    /\ req[r].pc = "send"
    /\ sent' \in {sent, sent \cup {[req |-> r, chat |-> Candidate(r)]}}
    /\ req' = [req EXCEPT ![r].todo = @ \ {Candidate(r)},
                          ![r].pc = IF req[r].todo = {Candidate(r)} THEN "done" ELSE "send"]
    /\ UNCHANGED <<env, requireBinding, bindings, span, faults>>

-----------------------------------------------------------------------------
\* upsert_telegram_binding and update_telegram_binding; a patch may leave is_allowed alone.
StartBind(r) ==
    /\ "bind" \in Kinds
    /\ \E c \in Chats, u \in Users, a \in BOOLEAN :
         Begin(r, [Idle EXCEPT !.pc = "load", !.kind = "bind", !.chat = c,
                               !.want = [user |-> u, allowed |-> a]])

StartPatch(r) ==
    /\ "patch" \in Kinds
    /\ \E c \in Chats, w \in {NoRow} \cup [allowed : BOOLEAN] :
         Begin(r, [Idle EXCEPT !.pc = "load", !.kind = "patch", !.chat = c, !.want = w])

LoadBinding(r) ==
    /\ req[r].pc = "load"
    /\ LET row == bindings[req[r].chat]
       IN  req' = [req EXCEPT ![r].loaded = row,
                              ![r].pc = IF row = NoRow /\ req[r].kind = "patch"
                                        THEN "not_found" ELSE "write"]
    /\ UNCHANGED <<env, requireBinding, bindings, sent, span, faults>>

\* The row after an UPDATE of the columns that differ from those loaded.
UpdatedRow(row, loaded, want) ==
    [f \in DOMAIN row |->
        IF f \in DOMAIN want /\ want[f] # loaded[f] THEN want[f] ELSE row[f]]

WriteBinding(r) ==
    /\ req[r].pc = "write"
    /\ LET c == req[r].chat
           row == IF req[r].loaded = NoRow THEN req[r].want
                  ELSE UpdatedRow(bindings[c], req[r].loaded, req[r].want)
       IN  IF req[r].loaded = NoRow /\ bindings[c] # NoRow      \* the unique key
           THEN req' = [req EXCEPT ![r].pc = "error"] /\ UNCHANGED <<bindings, span>>
           ELSE /\ bindings' = [bindings EXCEPT ![c] = row]
                /\ req' = [req EXCEPT ![r].pc = "done"]
                /\ span' = [x \in Requests |->
                               [span[x] EXCEPT !.ever = @ \cup AuthorizedChats(bindings'),
                                               !.always = @ \cap AuthorizedChats(bindings')]]
    /\ UNCHANGED <<env, requireBinding, sent, faults>>

\* A statement fails: 503, or 500 for a message whose authorization could not be read,
\* which Telegram delivers again.
DatabaseError(r) ==
    /\ req[r].pc \in {"check", "count", "load", "write"} /\ faults < MaxFaults
    /\ req' = [req EXCEPT ![r] = IF @.kind = "message" THEN Idle ELSE [@ EXCEPT !.pc = "error"]]
    /\ faults' = faults + 1
    /\ UNCHANGED <<env, requireBinding, bindings, sent, span>>

Step(r) ==
    \/ StartPush(r) \/ StartMessage(r) \/ StartBind(r) \/ StartPatch(r)
    \/ ReadBinding(r) \/ CountBindings(r) \/ Send(r)
    \/ LoadBinding(r) \/ WriteBinding(r) \/ DatabaseError(r)

Next == \E r \in Requests : Step(r)
Spec == Init /\ [][Next]_vars

-----------------------------------------------------------------------------
\* Whatever bindings change while a request reads them, a chat that gets a push or an
\* answer to a command was authorized at one single moment since the request began.
SentWasAuthorized ==
    \A m \in sent : req[m.req].kind \in {"push", "message"} => m.chat \in span[m.req].ever

\* A push to everybody misses no chat that the allowlist or a binding names and that was
\* authorized all the time it was being prepared.
RecipientsAreComplete ==
    \A r \in Requests :
        req[r].kind = "push" /\ req[r].chosen = {} /\ req[r].pc \in {"send", "done"} =>
            {c \in span[r].always : EnvAllows(c) \/ (env = {} /\ c \in span[r].active)}
                \subseteq req[r].accepted

\* Only chats that were authorized at some moment of a request get its message, and a push
\* forgets no chat that was authorized throughout (is_telegram_chat_authorized,
\* resolve_telegram_recipients).
AccessIsGuarded == SentWasAuthorized /\ RecipientsAreComplete

\* A disabled chat becomes allowed again only by a request that says so: not by a patch
\* of another field that had loaded the row before it was disabled.
AllowedOnlyOnRequest ==
    \A c \in Bound(bindings) :
         bindings'[c].allowed # bindings[c].allowed =>
             \E r \in Requests :
                 /\ req[r].pc = "write" /\ req'[r].pc = "done" /\ req[r].chat = c
                 /\ "allowed" \in DOMAIN req[r].want
                 /\ req[r].want.allowed = bindings'[c].allowed
=============================================================================
