----------------------------- MODULE SettingsEnv -----------------------------
(***************************************************************************)
(* The settings editor (settings/service.py, routes/settings.py): an .env  *)
(* file, the environment of each process, the settings a process has       *)
(* cached, saves through the API, edits by hand and restarts.              *)
(*                                                                         *)
(* A file is a sequence of [key, value] lines; NoKey is a comment or empty *)
(* line.  Of a value only what the code tells apart is kept: "blank" is    *)
(* the empty text, "bad" fails the validation of its key, and every other  *)
(* value is good.                                                          *)
(*                                                                         *)
(* A definition marked "mutant" is a plausible mistake in the definition   *)
(* that follows it; nothing uses it but the tests of the properties.       *)
(***************************************************************************)
EXTENDS Integers, Sequences, FiniteSets, SequencesExt

CONSTANTS
    Processes,   \* "api" and the worker or beat processes
    KindOf,      \* of each key: "secret", "checked" (a validated secret), "bool",
                 \* "number" or "other" (not editable)
    GoodValues,  \* FalseValue is one of them
    FalseValue,
    StartFiles,  \* .env files at the start
    Shared,      \* one .env for all processes, or one for each container
    BaseEnv,     \* the environment every process is started with
    SettingsPayloads,    \* the values and the keys to clear that a request may name
    MaxSaves, MaxEdits   \* bounds on the saves and edits explored

Keys == DOMAIN KindOf
NoKey == "#"
Unset == "unset"
Down == [k \in {} |-> Unset]

Values == GoodValues \cup {"blank", "bad"}
Lines == [key : Keys \cup {NoKey}, value : Values]
KeysOnce(file) == \A i, j \in DOMAIN file : file[i].key = file[j].key /\ file[i].key # NoKey => i = j

\* Assumed of the constants by the modules that give them values.
KeysAssumption ==
    /\ IsFiniteSet(Keys) /\ Keys # {} /\ NoKey \notin Keys /\ "api" \in Processes
    /\ \A k \in Keys : KindOf[k] \in {"secret", "checked", "bool", "number", "other"}
ValuesAssumption ==
    /\ FalseValue \in GoodValues /\ GoodValues \cap {"blank", "bad", Unset} = {}
    /\ BaseEnv \in [Keys -> Values \cup {Unset}]
    /\ StartFiles \subseteq Seq(Lines)
    /\ \A r \in SettingsPayloads :
          /\ r.clear \subseteq Keys /\ DOMAIN r.values \subseteq Keys
          /\ \A k \in DOMAIN r.values : r.values[k] \in Values

VARIABLES files, environ, cached, reply, saved, saves, edits
settingsVars == <<files, environ, cached, reply, saved, saves, edits>>

FileOf(p) == IF Shared THEN "api" ELSE p
NoReply == [code |-> 0, valid |-> TRUE, wanted |-> {}]

SettingsInit ==
    /\ files \in [{FileOf(p) : p \in Processes} -> StartFiles]
    /\ environ = [p \in Processes |-> BaseEnv] /\ cached = [p \in Processes |-> Down]
    /\ reply = NoReply /\ saved = Down /\ saves = 0 /\ edits = 0

-----------------------------------------------------------------------------
IsSecret(k) == KindOf[k] \in {"secret", "checked"}

\* What dotenv reads of a file, the last line of a key; Settings() puts the
\* environment of the process over it.
InFile(file, k) ==
    LET at == {i \in DOMAIN file : file[i].key = k}
    IN  IF at = {} THEN Unset ELSE file[CHOOSE i \in at : \A j \in at : j <= i].value

\* The defaults of class Settings; a secret that is None is treated as a blank one.
Default(k) == IF IsSecret(k) THEN "blank" ELSE FalseValue

Settings(osEnv, file) ==
    [k \in Keys |-> IF osEnv[k] # Unset THEN osEnv[k]
                    ELSE IF InFile(file, k) # Unset THEN InFile(file, k) ELSE Default(k)]

\* Settings() raises for a boolean or a number that is none, an empty one included.
Loads(s) == \A k \in Keys : KindOf[k] \in {"bool", "number"} => s[k] \notin {"blank", "bad"}

\* _normalize_value; "bad" is an invalid value.
Normalized(k, raw) ==
    CASE KindOf[k] = "bool" -> IF raw = "blank" THEN FalseValue ELSE raw
      [] KindOf[k] = "number" -> IF raw = "blank" THEN "bad" ELSE raw
      [] OTHER -> raw

\* _normalize_updates: a blank secret is left alone, clearing wins over a value.
Updates(values, clear) ==
    [k \in {j \in DOMAIN values : ~(IsSecret(j) /\ values[j] = "blank")} \cup clear |->
        IF k \in clear THEN "blank" ELSE Normalized(k, values[k])]

\* The request names a key that is not editable, or a value that is not valid.
Invalid(values, clear) ==
    \/ \E k \in DOMAIN values \cup clear : KindOf[k] = "other"
    \/ \E k \in DOMAIN Updates(values, clear) \ clear : Updates(values, clear)[k] = "bad"

-----------------------------------------------------------------------------
\* _write_env_updates: the first line of each key is replaced, missing keys are added
\* at the end under a comment.
Line(k, v) == [key |-> k, value |-> v]
IsFirst(file, i) == \A j \in 1..(i - 1) : file[j].key # file[i].key

Replaced(file, upd) ==
    [i \in DOMAIN file |-> IF file[i].key \in DOMAIN upd /\ IsFirst(file, i)
                           THEN Line(file[i].key, upd[file[i].key]) ELSE file[i]]
Appended(upd, missing) ==
    IF missing = {} THEN <<>>
    ELSE <<Line(NoKey, "blank")>> \o SetToSeq({Line(k, upd[k]) : k \in missing})

ReplacedOnly(file, upd) == Replaced(file, upd)               \* mutant

Written(file, upd) ==
    Replaced(file, upd) \o Appended(upd, DOMAIN upd \ {file[i].key : i \in DOMAIN file})

\* get_settings after cache_clear: the settings, or none if Settings() raises.
Refreshed(osEnv, file) ==
    LET s == Settings(osEnv, file) IN IF Loads(s) THEN s ELSE Down

StartProcess(p) ==
    /\ cached[p] = Down /\ Loads(Settings(environ[p], files[FileOf(p)]))
    /\ cached' = [cached EXCEPT ![p] = Settings(environ[p], files[FileOf(p)])]
    /\ UNCHANGED <<files, environ, reply, saved, saves, edits>>

StopProcess(p) ==
    /\ cached' = [cached EXCEPT ![p] = Down]
    /\ environ' = [environ EXCEPT ![p] = BaseEnv]
    /\ cached[p] # Down \/ environ[p] # BaseEnv
    /\ UNCHANGED <<files, reply, saved, saves, edits>>

Answer(code, valid, wanted) == reply' = [code |-> code, valid |-> valid, wanted |-> wanted]

\* Neither the token nor localhost.
SaveForbidden ==
    /\ cached["api"] # Down /\ saves < MaxSaves
    /\ Answer(403, TRUE, {}) /\ saves' = saves + 1
    /\ UNCHANGED <<files, environ, cached, saved, edits>>

AppliedEnv(upd) == [k \in Keys |-> IF k \in DOMAIN upd THEN upd[k] ELSE environ["api"][k]]

Save(values, clear) ==
    /\ cached["api"] # Down /\ saves < MaxSaves /\ saves' = saves + 1
    /\ UNCHANGED edits
    /\ LET upd == Updates(values, clear)
           file == Written(files["api"], upd)
           fresh == IF upd = Down THEN cached["api"] ELSE Refreshed(AppliedEnv(upd), file)
       IN  IF Invalid(values, clear)
           THEN Answer(422, FALSE, {}) /\ UNCHANGED <<files, environ, cached, saved>>
           ELSE /\ files' = IF upd = Down THEN files ELSE [files EXCEPT !["api"] = file]
                /\ environ' = [environ EXCEPT !["api"] = AppliedEnv(upd)]
                /\ cached' = [cached EXCEPT !["api"] = fresh]
                /\ saved' = [k \in DOMAIN saved \cup DOMAIN upd |->
                                IF k \in DOMAIN upd THEN upd[k] ELSE saved[k]]
                /\ Answer(IF fresh = Down THEN 422 ELSE 200, TRUE,
                          {<<k, upd[k]>> : k \in DOMAIN upd})

SaveSome == \E r \in SettingsPayloads : Save(r.values, r.clear)

\* The form as it was read: a secret is shown blank.
FormValues == [k \in {j \in Keys : KindOf[j] # "other"} |->
                  IF IsSecret(k) THEN "blank" ELSE cached["api"][k]]
SaveForm == cached["api"] # Down /\ Save(FormValues, {})

\* The owner changes one line of a file, or adds one, while the editor knows nothing.
HandEdit ==
    /\ edits < MaxEdits /\ edits' = edits + 1
    /\ \E f \in DOMAIN files, k \in Keys, v \in GoodValues :
         /\ files' = [files EXCEPT ![f] = Written(@, [j \in {k} |-> v])]
         /\ saved' = [j \in DOMAIN saved \ {k} |-> saved[j]]
    /\ UNCHANGED <<environ, cached, reply, saves>>

SettingsNext == \/ \E p \in Processes : StartProcess(p) \/ StopProcess(p)
        \/ SaveForbidden \/ SaveSome \/ SaveForm \/ HandEdit

SettingsSpec == SettingsInit /\ [][SettingsNext]_settingsVars

-----------------------------------------------------------------------------
\* A process that starts sees what was saved last, so far as nobody has edited the file
\* since: the file holds what the environment of the API process held.
RestartedSeeSaves ==
    \A k \in DOMAIN saved, p \in Processes :
        cached[p] = Down => Settings(environ[p], files[FileOf(p)])[k] = saved[k]

\* A save answered 200 is what the API process uses from then on, until it is stopped.
SavedIsInForce ==
    cached["api"] # Down /\ environ["api"] # BaseEnv =>
        \A k \in DOMAIN saved : cached["api"][k] = saved[k]

\* Whatever is saved, a key the request does not name keeps its value for every process
\* that starts later, though the whole file is written anew.
OtherKeysSurvive ==
    reply' # reply /\ reply'.code # 403 /\ saves' # saves =>
         \A k \in Keys : k \notin {w[1] : w \in reply'.wanted} =>
             InFile(files'["api"], k) = InFile(files["api"], k)

\* Saving the form as it was read changes no setting of the API process: secrets are
\* blank in it, and the values shown are accepted again.  Only a key the form does not name
\* may change, to what the owner has written into the file meanwhile.
SaveOfReadIsNeutral ==
    SaveForm => /\ cached'["api"] # Down
                 /\ \A k \in Keys : cached'["api"][k] = cached["api"][k]
                        \/ (edits > 0 /\ k \notin {w[1] : w \in reply'.wanted})

\* docs/api/current-api.md: "clear" lists the keys to clear.  A request whose keys and
\* values are valid is not refused, and the server goes on working.
ValidSavesWork == reply.valid => reply.code # 422

\* With one file for all processes, in which no key stands twice, and no key set around it,
\* what was saved is in force and is what every process starts with; and a save that clears no
\* flag and no number works (settings/service.py, config.py).
OneFile ==
    /\ Shared /\ \A k \in Keys : BaseEnv[k] = Unset
    /\ \A f \in StartFiles : KeysOnce(f)
ClearsTexts == \A r \in SettingsPayloads : \A k \in r.clear : KindOf[k] \notin {"bool", "number"}
SettingsHold ==
    /\ (RestartedSeeSaves /\ SavedIsInForce) \/ ~OneFile
    /\ ValidSavesWork \/ ~ClearsTexts
=============================================================================
