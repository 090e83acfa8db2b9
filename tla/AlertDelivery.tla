---------------------------- MODULE AlertDelivery ----------------------------
(***************************************************************************)
(* Delivery of the server alert to Telegram: the monitor overwrites the    *)
(* alert payload, runs of server_alert_telegram.py (the systemd service or *)
(* an operator's own runs) read it, drop what the dedupe state shows as    *)
(* recently sent, send to each chat and rewrite the state through a shared *)
(* temporary file; the service verifier judges the evidence left behind.   *)
(*                                                                         *)
(* Files are inodes: a run that holds the temporary file open keeps        *)
(* writing to its inode after another run has renamed it to the state.     *)
(***************************************************************************)
EXTENDS Naturals, Sequences, FiniteSets, SequencesExt

CONSTANTS Slots,        \* runs of the delivery script that may be under way at once
          AlertKeys,    \* dedupe keys of alert payloads
          EnvFiles,     \* contents of the env file: [file, exposed, readable, malformed, token,
                        \* ids, exported], the last the keys on lines that begin with export
          Options,      \* command lines: [service, send, dedupe, ignore]
          DEFAULT_MAX_RECIPIENTS,
          Ttl,          \* the dedupe window, in units of the clock
          MaxClock,     \* bound of the clock
          Serial,       \* TRUE: no two runs overlap
          MayFail,      \* TRUE: Telegram may refuse, writing the state may fail
          MayCrash      \* TRUE: a run may die between any two steps

Option == [service : BOOLEAN, send : BOOLEAN, dedupe : BOOLEAN, ignore : BOOLEAN]
EnvFile == [file : {"missing", "symlink", "regular"}, exposed : BOOLEAN, readable : BOOLEAN,
            malformed : BOOLEAN, token : BOOLEAN, ids : Seq(STRING),
            exported : SUBSET {"token", "ids"}]

\* Assumed of the constants by the modules that give them values.
DeliveryAssumption == /\ IsFiniteSet(Slots) /\ Ttl \in Nat \ {0} /\ MaxClock \in Nat
                      /\ DEFAULT_MAX_RECIPIENTS \in Nat
                      /\ {Serial, MayFail, MayCrash} \subseteq BOOLEAN
                      /\ Options \subseteq Option /\ EnvFiles \subseteq EnvFile

VARIABLES clock,
          payload,      \* the alert payload file
          content,      \* inode -> what it holds
          stateIno, tempIno,  \* inodes named by the state path and by its .tmp
          run,          \* slot -> the run's progress and locals
          evidence,     \* what the service left: env preflight and send report
          delivered     \* messages Telegram accepted, at the time their run began

alertVars == <<clock, payload, content, stateIno, tempIno, run, evidence, delivered>>

NoInode == 0
Inodes == 1 .. Cardinality(Slots) + 2
Torn == [kind |-> "torn"]
NoEntry == <<>>
Entries(f) == [kind |-> "entries", entry |-> f]
new_dedupe_state == [k \in AlertKeys |-> NoEntry]
Payloads == {[kind |-> "alert", notify |-> n, key |-> k] : n \in BOOLEAN, k \in AlertKeys}
BadId == "bad"
AlertChats == UNION {ToSet(env.ids) : env \in EnvFiles} \ {BadId}
NoReport == [status |-> "missing"]

\* A slot without a run; base is the dedupe state that a run has read, matched the entry
\* that suppresses its alert, ino the inode it writes to.
NoRun == [pc |-> "idle",
          opt |-> [service |-> FALSE, send |-> FALSE, dedupe |-> FALSE, ignore |-> FALSE],
          env |-> [file |-> "missing", exposed |-> FALSE, readable |-> FALSE,
                   malformed |-> FALSE, token |-> FALSE, ids |-> <<>>, exported |-> {}],
          alert |-> Torn, chats |-> <<>>, results |-> <<>>, now |-> 0, status |-> "none",
          updated |-> FALSE, base |-> new_dedupe_state, matched |-> NoEntry, ino |-> NoInode]
Open(ino) == \E r \in Slots : run[r].pc \in {"write", "replace"} /\ run[r].ino = ino

\* a report of build_delivery_report: what the verifier and the state look at
Report(r, status, updated) ==
    [status |-> status, mode |-> IF run[r].opt.send THEN "send" ELSE "preview",
     chats |-> run[r].chats, results |-> run[r].results,
     enabled |-> run[r].opt.dedupe, updated |-> updated, key |-> run[r].alert.key]

AlertInit ==
    /\ clock = 0 /\ payload = Torn
    /\ content = [i \in Inodes |-> Torn] /\ stateIno = NoInode /\ tempIno = NoInode
    /\ run = [r \in Slots |-> NoRun]
    /\ evidence = [env |-> "missing", send |-> NoReport]
    /\ delivered = {}

(* main of server_monitor_check: write_text truncates the payload, then fills it *)
TruncatePayload ==
    /\ payload' = Torn
    /\ UNCHANGED <<clock, content, stateIno, tempIno, run, evidence, delivered>>
WritePayload(p) ==
    /\ payload = Torn /\ payload' = p
    /\ UNCHANGED <<clock, content, stateIno, tempIno, run, evidence, delivered>>

Tick ==
    /\ clock < MaxClock /\ clock' = clock + 1
    /\ UNCHANGED <<payload, content, stateIno, tempIno, run, evidence, delivered>>

\* server_alert_telegram_env_check with --strict-permissions, as the service calls it: it
\* reads the keys of export lines like the others and sets no limit on the ids
evaluate_env_file(env) ==
    IF \/ env.file # "regular" \/ env.exposed \/ ~env.readable \/ env.malformed
       \/ ~env.token \/ BadId \in ToSet(env.ids) \/ env.ids = <<>> THEN "fail" ELSE "ok"

\* What the script finds in its environment: systemd drops an EnvironmentFile's export
\* lines, an operator's shell does not.
TokenFound(opt, env) == env.token /\ ~(opt.service /\ "token" \in env.exported)
IdsFound(opt, env) == IF opt.service /\ "ids" \in env.exported THEN <<>> ELSE env.ids

\* resolve_chat_ids: the distinct ids in their order; an unreadable id, or too many, are refused
FirstOnes(ids) == {i \in DOMAIN ids : \A j \in 1 .. i - 1 : ids[j] # ids[i]}
Distinct(ids) ==
    [n \in 1 .. Cardinality(FirstOnes(ids)) |->
        ids[CHOOSE i \in FirstOnes(ids) : Cardinality({j \in FirstOnes(ids) : j <= i}) = n]]
ChatsRefused(ids) == BadId \in ToSet(ids) \/ Len(Distinct(ids)) > DEFAULT_MAX_RECIPIENTS

Start(r, opt, env) ==
    /\ run[r].pc = "idle" /\ (Serial => \A q \in Slots : run[q].pc = "idle")
    /\ run' = [run EXCEPT ![r] = [NoRun EXCEPT !.pc = IF opt.service THEN "preflight" ELSE "load",
                                               !.opt = opt, !.env = env]]
    /\ UNCHANGED <<clock, payload, content, stateIno, tempIno, evidence, delivered>>

\* the run ends without a report
Refuse(r) == run' = [run EXCEPT ![r] = NoRun]

(* ExecStartPre: a failed preflight keeps the delivery from starting *)
Preflight(r) ==
    /\ run[r].pc = "preflight"
    /\ evidence' = [evidence EXCEPT !.env = evaluate_env_file(run[r].env)]
    /\ IF evaluate_env_file(run[r].env) = "ok" THEN run' = [run EXCEPT ![r].pc = "load"]
       ELSE Refuse(r)
    /\ UNCHANGED <<clock, payload, content, stateIno, tempIno, delivered>>

\* the early returns of run_delivery, in their order
EarlyStatus(p, opt, env) ==
    CASE ~p.notify -> "skipped"
      [] p.notify /\ opt.send /\ (~TokenFound(opt, env) \/ IdsFound(opt, env) = <<>>)
             -> "config_error"
      [] p.notify /\ ~opt.send -> "preview"
      [] OTHER -> "none"

load_alert_payload(r) ==
    /\ run[r].pc = "load"
    /\ LET ids == IdsFound(run[r].opt, run[r].env)
           early == EarlyStatus(payload, run[r].opt, run[r].env)
       IN IF payload = Torn \/ ChatsRefused(ids) THEN Refuse(r)
          ELSE
            run' = [run EXCEPT ![r] =
                      [@ EXCEPT !.alert = payload, !.chats = Distinct(ids),
                                !.now = clock, !.status = early,
                                !.pc = IF early # "none" THEN "report"
                                       ELSE IF run[r].opt.dedupe THEN "state" ELSE "send"]]
    /\ UNCHANGED <<clock, payload, content, stateIno, tempIno, evidence, delivered>>

ReadState == IF stateIno = NoInode THEN Entries(new_dedupe_state) ELSE content[stateIno]

find_active_dedupe_entry(f, key, now) ==
    f[key] # NoEntry /\ (IF now < f[key].at THEN 0 ELSE now - f[key].at) < Ttl

load_dedupe_state(r) ==
    /\ run[r].pc = "state"
    /\ LET s == ReadState  key == run[r].alert.key IN
       IF s = Torn THEN Refuse(r)
       ELSE IF ~run[r].opt.ignore /\ find_active_dedupe_entry(s.entry, key, run[r].now)
       THEN run' = [run EXCEPT ![r] = [@ EXCEPT !.pc = "report", !.status = "deduped",
                                                !.matched = s.entry[key]]]
       ELSE run' = [run EXCEPT ![r] = [@ EXCEPT !.pc = "send", !.base = s.entry]]
    /\ UNCHANGED <<clock, payload, content, stateIno, tempIno, evidence, delivered>>

\* mutant: one delivered message makes the alert a delivered one
AnySent(results) == \E i \in DOMAIN results : results[i]
AllSent(results) == \A i \in DOMAIN results : results[i]

NextChat(r) == IF run[r].pc = "send" THEN run[r].chats[Len(run[r].results) + 1] ELSE "none"
Message(r) == [chat |-> NextChat(r), key |-> run[r].alert.key, at |-> run[r].now]

send_message(r, ok) ==
    /\ run[r].pc = "send" /\ (ok \/ MayFail)
    /\ delivered' = IF ok THEN delivered \cup {Message(r)} ELSE delivered
    /\ LET results == Append(run[r].results, ok)
           last == Len(results) = Len(run[r].chats)
           all == AllSent(results)
       IN  run' = [run EXCEPT ![r] =
                     [@ EXCEPT !.results = results,
                               !.status = IF ~last THEN "none" ELSE IF all THEN "sent" ELSE "failed",
                               !.pc = IF ~last THEN "send"
                                      ELSE IF all /\ run[r].opt.dedupe THEN "open" ELSE "report"]]
    /\ UNCHANGED <<clock, payload, content, stateIno, tempIno, evidence>>

\* mutant: the state keeps the entry just sent only
OnlyThisEntry(r) == [new_dedupe_state EXCEPT ![run[r].alert.key] = [at |-> run[r].now, chats |-> run[r].chats]]
update_dedupe_state(r) ==
    [run[r].base EXCEPT ![run[r].alert.key] = [at |-> run[r].now, chats |-> run[r].chats]]

(* open(temp, "w"): the file that is there is emptied, or a new one is made *)
OpenTemp(r) ==
    /\ run[r].pc = "open"
    /\ \E i \in Inodes :
         /\ IF tempIno # NoInode THEN i = tempIno
            ELSE i # stateIno /\ ~Open(i) /\ \A j \in Inodes : j < i => j = stateIno \/ Open(j)
         /\ tempIno' = i /\ content' = [content EXCEPT ![i] = Torn]
         /\ run' = [run EXCEPT ![r] = [@ EXCEPT !.pc = "write", !.ino = i]]
    /\ UNCHANGED <<clock, payload, stateIno, evidence, delivered>>

\* written over another run's text of another length the file is no JSON
WriteTemp(r) ==
    /\ run[r].pc = "write"
    /\ \E c \in {Entries(update_dedupe_state(r))} \cup
                (IF content[run[r].ino] = Torn THEN {} ELSE {Torn}) :
         content' = [content EXCEPT ![run[r].ino] = c]
    /\ run' = [run EXCEPT ![r].pc = "replace"]
    /\ UNCHANGED <<clock, payload, stateIno, tempIno, evidence, delivered>>

\* whatever the temporary path names now becomes the state; nothing there is an OSError
Replace(r) ==
    /\ run[r].pc = "replace"
    /\ IF tempIno = NoInode
       THEN /\ run' = [run EXCEPT ![r] = [@ EXCEPT !.pc = "report", !.status = "state_error"]]
            /\ UNCHANGED <<stateIno, tempIno, content>>
       ELSE /\ stateIno' = tempIno /\ tempIno' = NoInode
            /\ content' = [i \in Inodes |-> IF i = stateIno /\ ~Open(i) THEN Torn ELSE content[i]]
            /\ run' = [run EXCEPT ![r] = [@ EXCEPT !.pc = "report", !.updated = TRUE]]
    /\ UNCHANGED <<clock, payload, evidence, delivered>>

(* mkdir, open, write or replace fails: nothing is renamed *)
StateError(r) ==
    /\ MayFail /\ run[r].pc \in {"open", "write", "replace"}
    /\ run' = [run EXCEPT ![r] = [@ EXCEPT !.pc = "report", !.status = "state_error"]]
    /\ UNCHANGED <<clock, payload, content, stateIno, tempIno, evidence, delivered>>

write_json_report(r) ==
    /\ run[r].pc = "report"
    /\ run' = [run EXCEPT ![r] = NoRun]
    /\ evidence' = IF run[r].opt.service
                   THEN [evidence EXCEPT !.send = Report(r, run[r].status, run[r].updated)] ELSE evidence
    /\ UNCHANGED <<clock, payload, content, stateIno, tempIno, delivered>>

Crash(r) ==
    /\ MayCrash /\ run[r].pc # "idle"
    /\ Refuse(r)
    /\ UNCHANGED <<clock, payload, content, stateIno, tempIno, evidence, delivered>>

(* the verdict of server_alert_telegram_service_verify on the evidence files *)
StateVerified == ReadState # Torn /\ stateIno # NoInode /\ \E k \in AlertKeys : ReadState.entry[k] # NoEntry
validate_sent_delivery(e) ==
    e.chats # <<>> /\ Len(e.results) = Len(e.chats) /\ AllSent(e.results) /\ e.enabled /\ e.updated
validate_delivery(e) ==
    CASE e.status = "missing" -> "fail"
      [] e.status # "missing" /\ e.mode # "send" -> "fail"
      [] e.status = "sent" -> IF validate_sent_delivery(e) /\ StateVerified THEN "ok" ELSE "fail"
      [] e.status = "deduped" -> IF e.enabled /\ StateVerified THEN "ok" ELSE "fail"
      [] e.status = "skipped" -> "warn"
      [] OTHER -> "fail"
verify_service_evidence == IF evidence.env = "ok" THEN validate_delivery(evidence.send) ELSE "fail"

RunStep(r) ==
    \/ Preflight(r)
    \/ load_alert_payload(r)
    \/ load_dedupe_state(r)
    \/ \E ok \in BOOLEAN : send_message(r, ok)
    \/ OpenTemp(r)
    \/ WriteTemp(r)
    \/ Replace(r)
    \/ write_json_report(r)

AlertNext ==
    \/ TruncatePayload
    \/ \E p \in Payloads : WritePayload(p)
    \/ Tick
    \/ \E r \in Slots :
         \/ \E opt \in Options, env \in EnvFiles : Start(r, opt, env)
         \/ RunStep(r)
         \/ StateError(r)
         \/ Crash(r)

AlertSpec == AlertInit /\ [][AlertNext]_alertVars

\* the timer starts the service again and again, each run goes on, and Telegram
\* does not refuse a chat for ever
AlertFairSpec ==
    /\ AlertSpec
    /\ \A r \in Slots : WF_alertVars(\E opt \in Options, env \in EnvFiles : Start(r, opt, env))
    /\ \A r \in Slots : WF_alertVars(RunStep(r))
    /\ \A chat \in AlertChats : SF_alertVars(\E r \in Slots : NextChat(r) = chat /\ send_message(r, TRUE))

-----------------------------------------------------------------------------
\* Between its runs and within them every file and every run is one the code makes.
TypeOK ==
    /\ clock \in 0 .. MaxClock /\ payload \in Payloads \cup {Torn}
    /\ {stateIno, tempIno} \subseteq Inodes \cup {NoInode}
    /\ stateIno # NoInode => stateIno # tempIno
    /\ \A r \in Slots : run[r].pc \in {"idle", "preflight", "load", "state", "send", "open",
                                       "write", "replace", "report"}
    /\ evidence.env \in {"missing", "ok", "fail"}

\* A suppressed alert is one that every chat of the matching entry was sent within
\* the window: neither a partial delivery nor a preview can silence an alert.
SuppressedWasDelivered ==
    \A r \in Slots : run[r].pc = "report" /\ run[r].status = "deduped" =>
        \A chat \in ToSet(run[r].matched.chats) : \E m \in delivered :
            m.chat = chat /\ m.key = run[r].alert.key /\ run[r].now < m.at + Ttl

\* When runs do not overlap the state can be read at every moment, whatever run
\* dies or fails while it writes: no crash locks the alerts out.
StateStaysReadable == ReadState # Torn

\* When runs do not overlap a recorded delivery is forgotten by none of them, nor
\* replaced by an older one.
RememberedStays ==
    \A k \in AlertKeys : ReadState.entry[k] # NoEntry =>
        /\ ReadState.entry[k]' # NoEntry
        /\ ReadState.entry[k].at <= ReadState.entry[k].at'

\* While Telegram and the disk work and no run dies, no chat gets an alert again
\* from a service run that began within the window of the one that sent it.
NoRepeatWithinTtl ==
    \A m, n \in delivered : m.chat = n.chat /\ m.key = n.key /\ m.at < n.at => m.at + Ttl <= n.at

\* Evidence the verifier calls ok is of an alert that the state records and that
\* every chat of the record has received.
VerifiedEvidenceIsReal ==
    verify_service_evidence = "ok" =>
        LET key == evidence.send.key  e == ReadState.entry[key] IN
        /\ e # NoEntry
        /\ \A chat \in ToSet(e.chats) : \E m \in delivered : m.chat = chat /\ m.key = key

\* A service run whose env file passed the preflight is never stopped by its configuration,
\* unless the file holds what the preflight lets through and the sender or systemd does not
\* take: an export line, or more recipients than the limit.
CheckedEnvIsUsable ==
    \A r \in Slots : run[r].opt.service /\ run[r].pc \notin {"idle", "preflight"} =>
        (run[r].env.exported = {} /\ Len(Distinct(run[r].env.ids)) <= DEFAULT_MAX_RECIPIENTS
           => ~ChatsRefused(IdsFound(run[r].opt, run[r].env)) /\ run[r].status # "config_error")

\* Whether every run that sends looks at the dedupe state first.
AllDedupe == \A opt \in Options : opt.send => opt.dedupe /\ ~opt.ignore

\* Nothing but a delivery silences an alert: what is suppressed was sent to every chat
\* within the window, also when runs overlap, and an env file that passed the preflight
\* serves if it has no export line and no more recipients than the sender takes.  Without
\* overlap the dedupe state is readable after any crash and evidence the verifier accepts
\* is of a delivery; and while nothing fails nobody gets an alert twice
\* (server_alert_telegram.py and its check and verify scripts).
AlertsAreTrue ==
    /\ TypeOK /\ SuppressedWasDelivered /\ CheckedEnvIsUsable
    /\ Serial => StateStaysReadable /\ VerifiedEvidenceIsReal
    /\ Serial /\ ~MayFail /\ ~MayCrash /\ AllDedupe => NoRepeatWithinTtl

ReachedEveryone(p) == \A chat \in AlertChats : \E m \in delivered : m.chat = chat /\ m.key = p.key

\* An alert that stands reaches every chat although any single send may be refused.
AlertReachesEveryone ==
    \A p \in Payloads : p.notify =>
        (<>[](payload = p) => <>ReachedEveryone(p))
=============================================================================
