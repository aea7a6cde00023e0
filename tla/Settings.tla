------------------------------ MODULE Settings ------------------------------
(* The server's configuration: rows of settings (config/dbconfig.go,          *)
(* config/flatten.go), the copy in memory, the pages that read all of it and  *)
(* post all of it back (web/handlers.go), and the two operations that change  *)
(* one part: the skills' sources (web/admin_skills_sources.go) and the policy *)
(* for installing them (web/admin_skill_policy.go).                           *)
EXTENDS Naturals, Sequences, FiniteSets

CONSTANTS Modes, Secrets,    \* values of two scalar settings: see Posted
          Sources,           \* skill sources
          Operators,         \* superadmins, each with a page
          AtOnce,            \* how many of their requests are served at once
          MaxSaves

VARIABLES
  db,        \* settings
  history,   \* settings_history, for each scalar key
  memory,    \* s.cfg
  page,      \* what each superadmin's page was filled with, or Blank
  ask,       \* their requests
  mutex,     \* s.configMu: who has it
  saves,
  meant      \* ghost: what somebody last wanted each setting to be

vars == <<db, history, memory, page, ask, mutex, saves, meant>>

Scalars == {"mode", "secret", "policy"}
Blank == [mode |-> "blank", secret |-> "blank", policy |-> "blank", skills |-> {}]
NoAsk == [kind |-> "idle", at |-> "idle", raw |-> Blank, source |-> "none"]
Resting == \A a \in Operators : ask[a] = NoAsk

\* buildNested makes a number of a text of digits, encoding/json reads it back
\* as a float64 and flattenConfig prints that: seven digits and more become
\* something else.  "long" stands for such a text, "digits" for a shorter one.
Posted(v) == IF v = "long" THEN "spoilt" ELSE v

Init ==
    \E m \in Modes, s \in Secrets :
        /\ db = [mode |-> m, secret |-> s, policy |-> "on", skills |-> {}]
        /\ history = [k \in Scalars |-> <<>>] /\ memory = db /\ meant = db
        /\ page = [a \in Operators |-> Blank] /\ ask = [a \in Operators |-> NoAsk]
        /\ mutex = "nobody" /\ saves = 0

At(a, k, s) == ask[a].kind = k /\ ask[a].at = s
Go(a, s) == ask' = [ask EXCEPT ![a].at = s]
Quit(a) == ask' = [ask EXCEPT ![a] = NoAsk]
Begin(a, k, s, raw, src) ==
    /\ ask[a] = NoAsk /\ Cardinality({b \in Operators : ask[b] # NoAsk}) < AtOnce
    /\ saves < MaxSaves /\ saves' = saves + 1
    /\ ask' = [ask EXCEPT ![a] = [kind |-> k, at |-> s, raw |-> raw, source |-> src]]

\* SaveRawToDB, one transaction: what differs is recorded and replaced.
SaveRawToDB(raw) ==
    /\ db' = raw
    /\ history' = [k \in Scalars |-> IF raw[k] = db[k] THEN history[k]
                                     ELSE Append(history[k], <<db[k], raw[k]>>)]

\* handleConfigGet: the page shows everything.
OpenPage(a) ==
    /\ ask[a] = NoAsk /\ page[a] # db /\ page' = [page EXCEPT ![a] = db]
    /\ UNCHANGED <<db, history, memory, ask, mutex, saves, meant>>

\* handleConfigSave: one setting is edited, every setting is posted, also those
\* that others have changed since the page was opened.
ConfigSave(a, k, v) ==
    LET raw == [page[a] EXCEPT ![k] = v, !.secret = IF k = "secret" THEN v ELSE Posted(page[a].secret)] IN
    /\ page[a] # Blank /\ v # page[a][k]
    /\ Begin(a, "save", "write", raw, "none")
    /\ page' = [page EXCEPT ![a] = [page[a] EXCEPT ![k] = v]] /\ meant' = [meant EXCEPT ![k] = v]
    /\ UNCHANGED <<db, history, memory, mutex>>
Write(a) ==
    /\ ask[a].at = "write" /\ SaveRawToDB(ask[a].raw) /\ Go(a, "load")
    /\ UNCHANGED <<memory, page, mutex, saves, meant>>

\* LoadFromDB, then cfg.Store.
LoadFromDB(a) ==
    /\ ask[a].at = "load" /\ ask' = [ask EXCEPT ![a].at = "store", ![a].raw = db]
    /\ UNCHANGED <<db, history, memory, page, mutex, saves, meant>>
Store(a) ==
    /\ ask[a].at = "store" /\ memory' = ask[a].raw /\ Quit(a)
    /\ UNCHANGED <<db, history, page, mutex, saves, meant>>

\* handleAdminSkillInstallPolicySet: numbers stay what they are on this way.
PolicySet(a, v) ==
    /\ Begin(a, "policy", "write", [db EXCEPT !.policy = v], "none") /\ meant' = [meant EXCEPT !.policy = v]
    /\ UNCHANGED <<db, history, memory, page, mutex>>

\* updateSkills: a copy of the configuration in memory with other sources
\* takes its place, and the sources it has then are stored, without history.
UpdateSkills(a, s) ==
    /\ Begin(a, "skills", "lock", Blank, s)
    /\ meant' = [meant EXCEPT !.skills = IF s \in @ THEN @ \ {s} ELSE @ \cup {s}]
    /\ UNCHANGED <<db, history, memory, page, mutex>>
LockSkills(a) ==
    /\ At(a, "skills", "lock") /\ mutex = "nobody" /\ mutex' = a
    /\ ask' = [ask EXCEPT ![a].at = "swap", ![a].raw = memory]
    /\ UNCHANGED <<db, history, memory, page, saves, meant>>
SwapSkills(a) ==
    LET s == ask[a].source old == ask[a].raw IN
    /\ At(a, "skills", "swap") /\ Go(a, "persist")
    /\ memory' = [old EXCEPT !.skills = IF s \in @ THEN @ \ {s} ELSE @ \cup {s}]
    /\ UNCHANGED <<db, history, page, mutex, saves, meant>>
\* Mutant: what is stored are the sources read at first.
PersistSkills_stale(a) ==
    /\ At(a, "skills", "persist") /\ db' = [db EXCEPT !.skills = ask[a].raw.skills]
    /\ mutex' = "nobody" /\ Quit(a)
    /\ UNCHANGED <<history, memory, page, saves, meant>>

PersistSkills(a) ==
    /\ At(a, "skills", "persist") /\ db' = [db EXCEPT !.skills = memory.skills]
    /\ mutex' = "nobody" /\ Quit(a)
    /\ UNCHANGED <<history, memory, page, saves, meant>>

Next == \E a \in Operators :
    \/ OpenPage(a) \/ Write(a) \/ LoadFromDB(a) \/ Store(a)
    \/ \E v \in Modes : ConfigSave(a, "mode", v)
    \/ \E v \in Secrets : ConfigSave(a, "secret", v)
    \/ \E v \in {"on", "off"} : PolicySet(a, v)
    \/ \E s \in Sources : UpdateSkills(a, s)
    \/ LockSkills(a) \/ SwapSkills(a) \/ PersistSkills(a)
Spec == Init /\ [][Next]_vars

-----------------------------------------------------------------------------
\* The history of a setting leads, change by change, to its value.
HistoryChains ==
    \A k \in Scalars : LET h == history[k] IN
        /\ h # <<>> => h[Len(h)][2] = db[k]
        /\ \A i \in 1..Len(h) - 1 : h[i][2] = h[i + 1][1]

\* Between requests the server works with what is stored.
MemoryIsDatabase == Resting => memory = db

\* A setting keeps the value it was given: nobody's save changes another.
NothingUndone == Resting => db = meant
SecretKept == Resting => db.secret = meant.secret
SettingsSafe == HistoryChains /\ MemoryIsDatabase /\ NothingUndone
=============================================================================
