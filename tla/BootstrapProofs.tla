---------------------------- MODULE BootstrapProofs ----------------------------
(***************************************************************************)
(* Proofs about Bootstrap, for any number of processes, accounts, tokens   *)
(* and sessions, any window and any number of failures.                    *)
(***************************************************************************)
EXTENDS Bootstrap, FiniteSetTheorems, TLAPS

Named(p) == pc[p] \notin {"down", "migrate", "rewrite", "compare", "revoke"}
Some == \E a \in Account : rows[a] # "none"
First(n) == {Listed[i] : i \in 1..(n - 1)}

(* Until a process has served, there is one process only.                  *)
Solo ==
    /\ \A p, q \in Proc : ~adopted /\ pc[p] # "down" /\ pc[q] # "down" => p = q
    /\ \A p \in Proc : Serving(p) => adopted
    /\ adopted /\ file => flag

(* Credentials and old pages, up to the step each process has reached.     *)
Encrypted ==
    /\ \A p \in Proc : pc[p] \notin {"down", "migrate"} => Legacy = {}
    /\ Legacy = {} /\ residue => halted \/ \E p \in Proc : pc[p] = "rewrite"
    /\ adopted => Legacy = {} /\ (residue => halted)

(* Sessions are those of the token whose fingerprint is stored, and after  *)
(* a process has compared them that is the present token.                  *)
Rotated ==
    /\ \A p \in Proc : Named(p) => known = token
    /\ \A s \in Session : sess[s].by \in {known, NoToken}

(* What has been imported is a beginning of the list, and once the import  *)
(* is over either the flag or an account that remains keeps it from being  *)
(* done again.                                                             *)
Imports ==
    /\ \A p \in Proc : pc[p] \in Steps \ {"import"} => item[p] = 1
    /\ \A p \in Proc : pc[p] = "import" => ~flag /\ file /\ imported = First(item[p])
    /\ imported # {} /\ ~flag => ~adopted /\ Some
    /\ imported # {} /\ ~torn => \/ imported = First(Len(Listed) + 1)
                                 \/ \E p \in Proc : pc[p] = "import"

IInv == StateOK /\ Solo /\ Encrypted /\ Rotated /\ Imports

-------------------------------------------------------------------------------
LEMMA Assumed ==
    /\ Listed \in Seq(Account) /\ Len(Listed) \in Nat \ {0}
    /\ \A i \in 1..Len(Listed) : Listed[i] \in Account
    /\ NoToken \notin Token
    /\ Ttl \in Nat \ {0} /\ MaxTime \in Nat \ {0}
BY BootstrapAssumption

(* Every reachable state is well typed, but for the lists of failures.     *)
LEMMA InitState == Init => StateOK
<1> SUFFICES ASSUME Init PROVE StateOK
  OBVIOUS
<1>1. now \in Time
  BY Assumed DEF Init, Time
<1>6. /\ token \in Token /\ file \in BOOLEAN /\ known \in Token \cup {NoToken}
      /\ flag \in BOOLEAN /\ settings \in {"none", "migrated", "saved"}
      /\ adopted \in BOOLEAN /\ halted \in BOOLEAN /\ torn \in BOOLEAN
      /\ imported \subseteq Account
  BY DEF Init
<1>2. rows \in [Account -> {"none", "plain", "cipher"}]
  <2>1. rows \in [Account -> {"none", "plain"}]
    BY DEF Init
  <2> QED BY <2>1
<1>3. sess \in [Session -> [by : Token \cup {NoToken}, until : 0..(MaxTime + Ttl)]]
  BY Assumed DEF Init, Closed
<1>4. /\ pc \in [Proc -> Steps \cup {"down", "serving", "attempt", "session"}]
      /\ why \in [Proc -> {"serve", "login"}]
      /\ item \in [Proc -> 1..(Len(Listed) + 1)]
  BY Assumed DEF Init
<1>5. residue \in BOOLEAN
  <2>1. residue = (\E a \in Account : rows[a] = "plain")
    BY DEF Init
  <2>2. (\E a \in Account : rows[a] = "plain") \in BOOLEAN
    OBVIOUS
  <2> QED BY <2>1, <2>2, Zenon
<1> QED BY <1>1, <1>2, <1>3, <1>4, <1>5, <1>6 DEF StateOK

LEMMA NextState == StateOK /\ [Next]_vars => StateOK'
<1> SUFFICES ASSUME StateOK, [Next]_vars PROVE StateOK'
  OBVIOUS
<1> USE Assumed DEF StateOK
<1>1. ASSUME UNCHANGED vars PROVE StateOK'
  BY <1>1 DEF vars, environment, accounts, access, procs, history
<1>2. ASSUME Tick PROVE StateOK'
  BY <1>2 DEF Tick, Time, accounts, access, procs, history
<1>3. ASSUME Redeploy PROVE StateOK'
  BY <1>3 DEF Redeploy, accounts, access, procs
<1>4. ASSUME NEW p \in Proc, Start(p) \/ Login(p) \/ Look(p) PROVE StateOK'
  <2>1. \E reason \in {"serve", "login"} : Bootstraps(p, reason)
    BY <1>4 DEF Start, Login, Look
  <2>2. 1 \in 1..(Len(Listed) + 1)
    BY Assumed
  <2> QED BY <2>1, <2>2 DEF Bootstraps, Goto, Steps, environment, accounts, access, history
<1>5. ASSUME NEW p \in Proc, Crash(p) PROVE StateOK'
  BY <1>5 DEF Crash, Goto, Steps, environment, accounts, access
<1>6. ASSUME NEW p \in Proc, Boot(p) PROVE StateOK'
  <2> USE DEF Goto, Steps, environment, accounts, access, history
  <2>1. CASE Migrate(p)
    <3>1. rows' \in [Account -> {"none", "plain", "cipher"}]
      BY <2>1 DEF Migrate
    <3>2. pc' \in [Proc -> Steps \cup {"down", "serving", "attempt", "session"}]
      BY <2>1 DEF Migrate
    <3> QED BY <2>1, <3>1, <3>2 DEF Migrate
  <2>2. CASE Rewrite(p)
    BY <2>2 DEF Rewrite
  <2>3. CASE Compare(p)
    BY <2>3 DEF Compare
  <2>4. CASE Revoke(p)
    BY <2>4 DEF Revoke, Closed
  <2>5. CASE Purge(p)
    BY <2>5 DEF Purge, Closed
  <2>6. CASE MigrateSettings(p)
    BY <2>6 DEF MigrateSettings
  <2>7. CASE CheckImport(p)
    BY <2>7 DEF CheckImport, Ready
  <2>8. CASE ImportNext(p)
    BY <2>8 DEF ImportNext
  <2>9. CASE ImportDone(p)
    BY <2>9 DEF ImportDone, Ready
  <2> QED BY <1>6, <2>1, <2>2, <2>3, <2>4, <2>5, <2>6, <2>7, <2>8, <2>9 DEF Boot
<1>7. ASSUME NEW p \in Proc, Serve(p) PROVE StateOK'
  <2> USE DEF Goto, Steps, environment, accounts, access, procs, history
  <2>1. CASE Attempt(p)
    BY <2>1 DEF Attempt
  <2>2. CASE CreateSession(p)
    BY <2>2 DEF CreateSession, Time
  <2>3. CASE EndSession(p)
    BY <2>3 DEF EndSession, Closed
  <2>4. CASE SaveSettings(p)
    BY <2>4 DEF SaveSettings
  <2>5. CASE ChangeAccounts(p)
    BY <2>5 DEF ChangeAccounts
  <2> QED BY <1>4, <1>7, <2>1, <2>2, <2>3, <2>4, <2>5 DEF Serve
<1> QED BY <1>1, <1>2, <1>3, <1>4, <1>5, <1>6, <1>7 DEF Next

-------------------------------------------------------------------------------
LEMMA InitInv == Init => IInv
<1> SUFFICES ASSUME Init PROVE IInv
  OBVIOUS
<1>1. StateOK
  BY InitState
<1>2. Solo
  BY DEF Init, Solo, Serving
<1>3. Encrypted
  BY DEF Init, Encrypted, Legacy
<1>4. Rotated
  BY DEF Init, Rotated, Named, Closed
<1>5. Imports
  BY DEF Init, Imports
<1> QED BY <1>1, <1>2, <1>3, <1>4, <1>5 DEF IInv

LEMMA NextSolo == ASSUME IInv, [Next]_vars PROVE Solo'
<1> USE DEF IInv, StateOK, Solo, Goto, Steps, Serving
<1>1. CASE UNCHANGED vars \/ Tick
  BY <1>1 DEF vars, environment, accounts, procs, history, Tick
<1>2. CASE Redeploy
  BY <1>2 DEF Redeploy, AllDown, accounts, procs
<1>3. ASSUME NEW p \in Proc, Start(p) PROVE Solo'
  BY <1>3 DEF Start, AllDown, Bootstraps, environment, accounts, history
<1>4. ASSUME NEW p \in Proc, Crash(p) PROVE Solo'
  BY <1>4 DEF Crash, environment, accounts
<1>5. ASSUME NEW p \in Proc, Migrate(p) \/ Rewrite(p) \/ Compare(p) \/ Revoke(p)
                             \/ Purge(p) \/ MigrateSettings(p) \/ ImportNext(p)
      PROVE Solo'
  <2>1. /\ adopted' = adopted /\ file' = file /\ flag' = flag
        /\ pc[p] \in Steps
        /\ \E l \in Steps : pc' = [pc EXCEPT ![p] = l]
    BY <1>5 DEF Migrate, Rewrite, Compare, Revoke, Purge, MigrateSettings, ImportNext,
       environment, accounts, history
  <2> QED BY <2>1
<1>6. ASSUME NEW p \in Proc, CheckImport(p) \/ ImportDone(p) PROVE Solo'
  BY <1>6 DEF CheckImport, ImportDone, Ready, environment
<1>7. ASSUME NEW p \in Proc, Serve(p) PROVE Solo'
  <2>1. /\ adopted' = adopted /\ file' = file /\ flag' = flag
        /\ Serving(p)
        /\ \/ pc' = pc
           \/ \E l \in Steps \cup {"serving", "session", "attempt"} : pc' = [pc EXCEPT ![p] = l]
    BY <1>7 DEF Serve, Login, Look, Bootstraps, Attempt, CreateSession, EndSession,
       SaveSettings, ChangeAccounts, environment, accounts, procs, history
  <2> QED BY <2>1
<1> QED BY <1>1, <1>2, <1>3, <1>4, <1>5, <1>6, <1>7 DEF Next, Boot

(* Rows are only migrated, imported, created and deleted: none becomes     *)
(* plain text again.                                                       *)
LEMMA NoNewLegacy == ASSUME IInv, [Next]_vars PROVE Legacy' \subseteq Legacy
<1> USE DEF IInv, StateOK, Legacy
<1>1. ASSUME rows' = rows PROVE Legacy' \subseteq Legacy
  BY <1>1
<1>2. CASE UNCHANGED vars \/ Tick \/ Redeploy
  BY <1>1, <1>2 DEF vars, accounts, Tick, Redeploy
<1>3. ASSUME NEW p \in Proc, Start(p) \/ Crash(p) PROVE Legacy' \subseteq Legacy
  BY <1>1, <1>3 DEF Start, Bootstraps, Crash, accounts
<1>4. ASSUME NEW p \in Proc, Boot(p) PROVE Legacy' \subseteq Legacy
  <2>1. CASE Migrate(p)
    BY <2>1 DEF Migrate
  <2>2. CASE ImportNext(p)
    BY <2>2 DEF ImportNext
  <2>3. CASE ~Migrate(p) /\ ~ImportNext(p)
    BY <1>1, <1>4, <2>3 DEF Boot, Rewrite, Compare, Revoke, Purge, MigrateSettings,
       CheckImport, ImportDone, accounts
  <2> QED BY <2>1, <2>2, <2>3
<1>5. ASSUME NEW p \in Proc, Serve(p) PROVE Legacy' \subseteq Legacy
  <2>1. CASE ChangeAccounts(p)
    BY <2>1 DEF ChangeAccounts
  <2>2. CASE ~ChangeAccounts(p)
    BY <1>1, <1>5, <2>2 DEF Serve, Login, Look, Bootstraps, Attempt, CreateSession,
       EndSession, SaveSettings, accounts
  <2> QED BY <2>1, <2>2
<1> QED BY <1>2, <1>3, <1>4, <1>5 DEF Next

LEMMA NextEncrypted == ASSUME IInv, [Next]_vars PROVE Encrypted'
<1> USE DEF IInv, StateOK, Encrypted, Goto, Steps
<1>1. Legacy' \subseteq Legacy
  BY NoNewLegacy
<1>2. ASSUME rows' = rows, residue' = residue, halted' = halted, adopted' => adopted,
             NEW p \in Proc, NEW l, pc' = [pc EXCEPT ![p] = l],
             l \in {"down", "migrate"} \/ pc[p] \notin {"down", "migrate"},
             pc[p] # "rewrite", l # "rewrite"
      PROVE Encrypted'
  <2>1. Legacy' = Legacy
    BY <1>2 DEF Legacy
  <2> QED BY <1>2, <2>1
<1>3. CASE UNCHANGED vars \/ Tick \/ Redeploy
  <2>1. Legacy' = Legacy
    BY <1>3 DEF Legacy, vars, accounts, Tick, Redeploy
  <2> QED BY <1>3, <2>1 DEF vars, accounts, procs, history, Tick, Redeploy
<1>4. ASSUME NEW p \in Proc, Start(p) PROVE Encrypted'
  BY <1>2, <1>4 DEF Start, Bootstraps, accounts, history
<1>5. ASSUME NEW p \in Proc, Crash(p) PROVE Encrypted'
  <2>1. Legacy' = Legacy
    BY <1>5 DEF Crash, Legacy, accounts
  <2> QED BY <1>5, <2>1 DEF Crash, accounts
<1>6. ASSUME NEW p \in Proc, Boot(p) PROVE Encrypted'
  <2>1. CASE Migrate(p)
    <3>1. Legacy' = {}
      BY <2>1 DEF Migrate, Legacy
    <3>2. pc' = [pc EXCEPT ![p] = IF Legacy = {} THEN "compare" ELSE "rewrite"]
      BY <2>1 DEF Migrate
    <3>3. UNCHANGED <<residue, adopted, halted>> /\ pc[p] = "migrate"
      BY <2>1 DEF Migrate, history
    <3>4. \A q \in Proc : pc'[q] = IF q = p THEN IF Legacy = {} THEN "compare" ELSE "rewrite"
                                           ELSE pc[q]
      BY <3>2
    <3> QED BY <3>1, <3>3, <3>4
  <2>2. CASE Rewrite(p)
    <3>1. residue' = FALSE /\ UNCHANGED <<adopted, halted>> /\ Legacy' = {}
      BY <1>1, <2>2 DEF Rewrite, history
    <3> QED BY <3>1
  <2>3. CASE CheckImport(p) \/ ImportDone(p)
    <3>1. Legacy' = Legacy /\ Legacy = {}
      BY <2>3 DEF CheckImport, ImportDone, Legacy
    <3>2. UNCHANGED <<residue, halted>>
      BY <2>3 DEF CheckImport, ImportDone
    <3>3. /\ pc[p] \in {"check", "import"}
          /\ \E l : pc' = [pc EXCEPT ![p] = l] /\ l # "rewrite"
      BY <2>3 DEF CheckImport, ImportDone, Ready
    <3>4. \A q \in Proc : pc[q] = "rewrite" => adopted
      BY <3>3 DEF Solo
    <3>5. residue => halted \/ \E q \in Proc : pc[q] = "rewrite"
      BY <3>1
    <3>6. residue => halted
      BY <3>1, <3>4, <3>5
    <3> QED BY <3>1, <3>2, <3>3, <3>6
  <2>4. CASE ImportNext(p)
    <3>1. /\ Legacy' = {} /\ UNCHANGED <<residue, halted, adopted, pc>>
          /\ Legacy = {}
      BY <1>1, <2>4 DEF ImportNext
    <3> QED BY <3>1
  <2>5. CASE Compare(p) \/ Revoke(p) \/ Purge(p) \/ MigrateSettings(p)
    <3>1. /\ UNCHANGED <<rows, residue, halted, adopted>>
          /\ pc[p] \notin {"down", "migrate", "rewrite"}
          /\ \E l \in Steps \ {"rewrite"} : pc' = [pc EXCEPT ![p] = l]
      BY <2>5 DEF Compare, Revoke, Purge, MigrateSettings, accounts, history
    <3> QED BY <1>2, <3>1
  <2> QED BY <1>6, <2>1, <2>2, <2>3, <2>4, <2>5 DEF Boot
<1>7. ASSUME NEW p \in Proc, Serve(p) PROVE Encrypted'
  <2>1. CASE ChangeAccounts(p)
    <3>1. UNCHANGED <<residue, halted, adopted, pc>> /\ pc[p] = "serving"
      BY <2>1 DEF ChangeAccounts, procs, history
    <3>2. Legacy' = {} /\ Legacy = {}
      BY <1>1, <3>1
    <3> QED BY <3>1, <3>2
  <2>2. CASE EndSession(p) \/ SaveSettings(p)
    <3>1. UNCHANGED <<rows, residue, halted, adopted, pc>>
      BY <2>2 DEF EndSession, SaveSettings, accounts, procs, history
    <3>2. Legacy' = Legacy
      BY <3>1 DEF Legacy
    <3> QED BY <3>1, <3>2
  <2>3. CASE Login(p) \/ Look(p) \/ Attempt(p) \/ CreateSession(p)
    <3>1. /\ UNCHANGED <<rows, residue, halted, adopted>>
          /\ pc[p] \in {"serving", "attempt", "session"}
          /\ \E l \in {"migrate", "serving", "session"} : pc' = [pc EXCEPT ![p] = l]
      BY <2>3 DEF Login, Look, Bootstraps, Attempt, CreateSession, accounts, history
    <3> QED BY <1>2, <3>1
  <2> QED BY <1>7, <2>1, <2>2, <2>3 DEF Serve
<1> QED BY <1>3, <1>4, <1>5, <1>6, <1>7 DEF Next

LEMMA NextRotated == ASSUME IInv, [Next]_vars PROVE Rotated'
<1> USE DEF IInv, StateOK, Rotated, Named, Goto, Steps
<1>1. ASSUME known' = known, token' = token, sess' = sess,
             NEW p \in Proc, NEW l, pc' = [pc EXCEPT ![p] = l],
             \/ l \in {"down", "migrate", "rewrite", "compare", "revoke"}
             \/ Named(p) \/ known = token
      PROVE Rotated'
  BY <1>1
<1>2. CASE UNCHANGED vars \/ Tick \/ Redeploy
  BY <1>2 DEF vars, environment, access, procs, Tick, Redeploy, AllDown
<1>3. ASSUME NEW p \in Proc, Start(p) \/ Crash(p) PROVE Rotated'
  BY <1>1, <1>3 DEF Start, Bootstraps, Crash, environment, access
<1>4. ASSUME NEW p \in Proc, Boot(p) PROVE Rotated'
  <2>1. CASE Revoke(p)
    BY <2>1 DEF Revoke, Closed, environment
  <2>2. CASE Purge(p)
    BY <2>2 DEF Purge, Closed, environment
  <2>3. CASE ImportNext(p)
    BY <2>3 DEF ImportNext, environment, access
  <2>4. CASE Migrate(p) \/ Rewrite(p) \/ Compare(p)
    BY <1>1, <2>4 DEF Migrate, Rewrite, Compare, environment, access
  <2>5. CASE MigrateSettings(p)
    BY <1>1, <2>5 DEF MigrateSettings, environment, access
  <2>6. CASE CheckImport(p)
    BY <1>1, <2>6 DEF CheckImport, Ready, environment, access
  <2>7. CASE ImportDone(p)
    BY <1>1, <2>7 DEF ImportDone, Ready, environment, access
  <2> QED BY <1>4, <2>1, <2>2, <2>3, <2>4, <2>5, <2>6, <2>7 DEF Boot
<1>5. ASSUME NEW p \in Proc, Serve(p) PROVE Rotated'
  <2>1. CASE Login(p) \/ Look(p)
    BY <1>1, <2>1 DEF Login, Look, Bootstraps, environment, access
  <2>2. CASE Attempt(p)
    <3>1. /\ UNCHANGED <<known, token, sess>> /\ pc[p] = "attempt"
          /\ \E l \in {"serving", "session"} : pc' = [pc EXCEPT ![p] = l]
      BY <2>2 DEF Attempt, environment
    <3> QED BY <1>1, <3>1
  <2>3. CASE CreateSession(p)
    <3>1. /\ UNCHANGED <<known, token>> /\ pc[p] = "session"
          /\ pc' = [pc EXCEPT ![p] = "serving"]
      BY <2>3 DEF CreateSession, environment
    <3>2. PICK s \in Session : sess' = [sess EXCEPT ![s] = [by |-> token, until |-> now + Ttl]]
      BY <2>3 DEF CreateSession
    <3>3. known = token
      BY <3>1
    <3>4. \A r \in Session : sess'[r].by \in {known', NoToken}
      BY <3>1, <3>2, <3>3
    <3> QED BY <3>1, <3>3, <3>4
  <2>4. CASE EndSession(p)
    <3>1. UNCHANGED <<known, token, pc>>
      BY <2>4 DEF EndSession, environment, procs
    <3>2. PICK s \in Session : sess' = [sess EXCEPT ![s] = Closed]
      BY <2>4 DEF EndSession
    <3>3. \A r \in Session : sess'[r].by \in {known', NoToken}
      BY <3>1, <3>2 DEF Closed
    <3> QED BY <3>1, <3>3
  <2>5. CASE SaveSettings(p) \/ ChangeAccounts(p)
    BY <2>5 DEF SaveSettings, ChangeAccounts, environment, access, procs
  <2> QED BY <1>5, <2>1, <2>2, <2>3, <2>4, <2>5 DEF Serve
<1> QED BY <1>2, <1>3, <1>4, <1>5 DEF Next

LEMMA NextImports == ASSUME IInv, [Next]_vars PROVE Imports'
<1> USE Assumed DEF IInv, StateOK, Imports, Some, First, Goto, Steps
<1>1. ASSUME UNCHANGED <<rows, flag, imported, torn>>,
             adopted' => adopted, file' = file,
             NEW p \in Proc, NEW l, pc' = [pc EXCEPT ![p] = l],
             pc[p] # "import", l # "import",
             \/ item' = item /\ (l \in Steps => pc[p] \in Steps)
             \/ item' = [item EXCEPT ![p] = 1]
      PROVE Imports'
  <2>1. \A q \in Proc : pc'[q] = "import" <=> pc[q] = "import"
    BY <1>1
  <2>2. \A q \in Proc : pc[q] = "import" => item'[q] = item[q]
    BY <1>1
  <2>3. \A q \in Proc : pc'[q] \in Steps \ {"import"} => item'[q] = 1
    BY <1>1
  <2> QED BY <1>1, <2>1, <2>2, <2>3
<1>2. ASSUME UNCHANGED <<rows, flag, imported, torn, adopted, file, pc, item>>
      PROVE Imports'
  BY <1>2
<1>3. CASE UNCHANGED vars \/ Tick
  BY <1>2, <1>3 DEF vars, environment, accounts, procs, history, Tick
<1>4. CASE Redeploy
  BY <1>4 DEF Redeploy, AllDown, accounts, procs
<1>5. ASSUME NEW p \in Proc, Start(p) PROVE Imports'
  BY <1>1, <1>5 DEF Start, Bootstraps, environment, accounts, history
<1>6. ASSUME NEW p \in Proc, Crash(p) PROVE Imports'
  <2>1. /\ UNCHANGED <<rows, flag, imported, file, adopted, item>>
        /\ pc' = [pc EXCEPT ![p] = "down"]
        /\ torn' = (torn \/ pc[p] = "import")
    BY <1>6 DEF Crash, environment, accounts
  <2> QED BY <2>1
<1>7. ASSUME NEW p \in Proc, Migrate(p) PROVE Imports'
  <2>1. /\ UNCHANGED <<flag, imported, torn, adopted, file, item>>
        /\ \E l \in {"compare", "rewrite"} : pc' = [pc EXCEPT ![p] = l]
        /\ pc[p] = "migrate"
        /\ Some => Some'
    BY <1>7 DEF Migrate, environment, history
  <2>2. \A q \in Proc : pc'[q] = "import" <=> pc[q] = "import"
    BY <2>1
  <2> QED BY <2>1, <2>2
<1>8. ASSUME NEW p \in Proc, Rewrite(p) \/ Compare(p) \/ Revoke(p) \/ Purge(p)
                             \/ MigrateSettings(p)
      PROVE Imports'
  <2>1. /\ UNCHANGED <<rows, flag, imported, torn, adopted, file, item>>
        /\ \E l \in Steps \ {"import"} : pc' = [pc EXCEPT ![p] = l]
        /\ pc[p] \in Steps \ {"import"}
    BY <1>8 DEF Rewrite, Compare, Revoke, Purge, MigrateSettings, environment,
       accounts, history
  <2> QED BY <1>1, <2>1
<1>9. ASSUME NEW p \in Proc, CheckImport(p) PROVE Imports'
  <2>1. /\ UNCHANGED <<rows, imported, torn, file, item>> /\ pc[p] = "check"
    BY <1>9 DEF CheckImport, environment
  <2>2. CASE ~flag /\ ~Some /\ file /\ Goto(p, "import") /\ UNCHANGED <<flag, adopted>>
    <3>1. imported = {}
      BY <2>2
    <3>2. pc' = [pc EXCEPT ![p] = "import"]
      BY <2>2
    <3>3. item[p] = 1 /\ imported = First(item[p])
      BY <2>1, <3>1
    <3> QED BY <2>1, <2>2, <3>1, <3>2, <3>3
  <2>3. CASE (flag \/ Some \/ ~file) /\ Ready(p) /\ flag' = (flag \/ Some)
    <3>1. pc' = [pc EXCEPT ![p] = IF why[p] = "login" THEN "attempt" ELSE "serving"]
      BY <2>3 DEF Ready
    <3>2. \A q \in Proc : pc[q] # "import"
      BY <2>1 DEF Solo
    <3>3. \A q \in Proc : pc'[q] # "import"
      BY <3>1, <3>2
    <3>4. imported # {} => flag'
      BY <2>3
    <3>5. \A q \in Proc : pc'[q] \in Steps => pc[q] \in Steps
      BY <3>1
    <3> QED BY <2>1, <3>2, <3>3, <3>4, <3>5
  <2> QED BY <1>9, <2>2, <2>3 DEF CheckImport
<1>10. ASSUME NEW p \in Proc, ImportNext(p) PROVE Imports'
  <2> DEFINE n == item[p]
  <2>1. /\ UNCHANGED <<file, flag, pc, adopted, torn>> /\ pc[p] = "import"
        /\ n \in 1..Len(Listed)
        /\ rows' = [rows EXCEPT ![Listed[n]] = "cipher"]
        /\ imported' = imported \cup {Listed[n]}
        /\ item' = [item EXCEPT ![p] = n + 1]
    BY <1>10 DEF ImportNext, environment
  <2>2. ~adopted /\ \A q \in Proc : pc[q] = "import" => q = p
    BY <2>1 DEF Solo
  <2>3. imported' = First(n + 1)
    <3>1. 1..((n + 1) - 1) = (1..(n - 1)) \cup {n}
      BY <2>1
    <3> QED BY <2>1, <3>1
  <2>4. Listed[n] \in Account /\ rows'[Listed[n]] = "cipher"
    BY <2>1
  <2>5. \A q \in Proc : pc'[q] = "import" => item'[q] = n + 1
    BY <2>1, <2>2
  <2>6. \A q \in Proc : pc'[q] \in Steps \ {"import"} => item'[q] = 1
    BY <2>1
  <2> QED BY <2>1, <2>2, <2>3, <2>4, <2>5, <2>6
<1>11. ASSUME NEW p \in Proc, ImportDone(p) PROVE Imports'
  <2>1. /\ UNCHANGED <<rows, imported, torn, file, item>> /\ pc[p] = "import"
        /\ flag' = TRUE /\ item[p] > Len(Listed)
        /\ pc' = [pc EXCEPT ![p] = IF why[p] = "login" THEN "attempt" ELSE "serving"]
    BY <1>11 DEF ImportDone, Ready, environment
  <2>2. \A q \in Proc : pc[q] = "import" => q = p
    BY <2>1 DEF Solo
  <2>3. \A q \in Proc : pc'[q] # "import" /\ (pc'[q] \in Steps => pc[q] \in Steps /\ q # p)
    BY <2>1, <2>2
  <2>4. item[p] = Len(Listed) + 1
    BY <2>1
  <2>5. imported = First(Len(Listed) + 1)
    BY <2>1, <2>4
  <2>6. \A q \in Proc : pc'[q] \in Steps => item'[q] = 1
    BY <2>1, <2>3, <2>2
  <2> QED BY <2>1, <2>3, <2>5, <2>6
<1>12. ASSUME NEW p \in Proc, Serve(p) PROVE Imports'
  <2>1. CASE ChangeAccounts(p)
    <3>1. /\ UNCHANGED <<file, flag, pc, adopted, torn, item, imported>>
          /\ pc[p] = "serving"
      BY <2>1 DEF ChangeAccounts, environment, procs, history
    <3>2. adopted
      BY <3>1 DEF Solo, Serving
    <3> QED BY <3>1, <3>2
  <2>2. CASE EndSession(p) \/ SaveSettings(p)
    BY <1>2, <2>2 DEF EndSession, SaveSettings, environment, accounts, procs, history
  <2>3. CASE Login(p) \/ Look(p)
    BY <1>1, <2>3, ZenonT(60) DEF Login, Look, Bootstraps, environment, accounts, history
  <2>4. CASE Attempt(p) \/ CreateSession(p)
    <3>1. /\ UNCHANGED <<rows, flag, imported, torn, adopted, file, item>>
          /\ pc[p] \in {"attempt", "session"}
          /\ \E l \in {"serving", "session"} : pc' = [pc EXCEPT ![p] = l]
      BY <2>4 DEF Attempt, CreateSession, environment, accounts, history
    <3> QED BY <1>1, <3>1
  <2> QED BY <1>12, <2>1, <2>2, <2>3, <2>4 DEF Serve
<1> QED BY <1>3, <1>4, <1>5, <1>6, <1>7, <1>8, <1>9, <1>10, <1>11, <1>12 DEF Next, Boot

LEMMA Inductive == Spec => []IInv
<1>1. IInv /\ [Next]_vars => IInv'
  BY NextState, NextSolo, NextEncrypted, NextRotated, NextImports DEF IInv
<1> QED BY InitInv, <1>1, PTL DEF Spec

-------------------------------------------------------------------------------
(* What a process serves is encrypted and rewritten, unless a process died *)
(* between the two.                                                        *)
THEOREM Rewritten == Spec => []ServesRewritten
<1>1. IInv => ServesRewritten
  BY DEF IInv, Solo, Encrypted, ServesRewritten
<1> QED BY Inductive, <1>1, PTL

(* No session of an earlier token is served, for any number of processes   *)
(* that start at once and any number of rotations.                         *)
THEOREM AfterRotation == Spec => []ServesAfterRotation
<1>1. IInv => ServesAfterRotation
  BY DEF IInv, Rotated, Named, Serving, ServesAfterRotation
<1> QED BY Inductive, <1>1, PTL

(* An import that nobody dies in is of the whole list, however long it is. *)
THEOREM Whole == Spec => []ImportedWhole
<1>1. IInv => ImportedWhole
  <2>1. (Len(Listed) + 1) - 1 = Len(Listed)
    BY Assumed
  <2> QED BY <2>1 DEF IInv, Imports, First, ImportedWhole
<1> QED BY Inductive, <1>1, PTL

(* No account is imported a second time.                                   *)
LEMMA Once ==
    ASSUME IInv, [Next]_vars, NEW p \in Proc, pc[p] = "import", item'[p] = item[p] + 1
    PROVE  Listed[item[p]] \notin imported
<1> USE Assumed DEF IInv, StateOK, Goto
<1>1. item[p] \in Nat /\ item' # item
  <2>1. item[p] + 1 # item[p]
    OBVIOUS
  <2> QED BY <2>1
<1>2. ImportNext(p)
  <2>1. CASE UNCHANGED vars \/ Tick \/ Redeploy
    BY <1>1, <2>1 DEF vars, procs, Tick, Redeploy
  <2>2. ASSUME NEW q \in Proc, Start(q) \/ Crash(q) \/ Serve(q) PROVE FALSE
    <3>1. CASE Crash(q)
      BY <1>1, <3>1 DEF Crash
    <3>2. CASE Start(q) \/ Login(q) \/ Look(q)
      <4>1. item' = [item EXCEPT ![q] = 1] /\ pc[q] # "import"
        BY <3>2 DEF Start, Login, Look, Bootstraps
      <4> QED BY <1>1, <4>1
    <3>3. CASE Attempt(q) \/ CreateSession(q) \/ EndSession(q) \/ SaveSettings(q)
               \/ ChangeAccounts(q)
      BY <1>1, <3>3 DEF Attempt, CreateSession, EndSession, SaveSettings,
         ChangeAccounts, procs
    <3> QED BY <2>2, <3>1, <3>2, <3>3 DEF Serve
  <2>3. ASSUME NEW q \in Proc, Boot(q) PROVE ImportNext(p)
    <3>1. CASE ImportNext(q)
      <4>1. item' = [item EXCEPT ![q] = item[q] + 1]
        BY <3>1 DEF ImportNext
      <4>2. q = p
        BY <1>1, <4>1
      <4> QED BY <3>1, <4>2
    <3>2. CASE ~ImportNext(q)
      BY <1>1, <2>3, <3>2 DEF Boot, Migrate, Rewrite, Compare, Revoke, Purge,
         MigrateSettings, CheckImport, ImportDone
    <3> QED BY <3>1, <3>2
  <2> QED BY <2>1, <2>2, <2>3 DEF Next
<1>3. item[p] \in 1..Len(Listed) /\ imported = First(item[p])
  BY <1>2 DEF ImportNext, Imports
<1>4. \A i \in 1..(item[p] - 1) : Listed[i] # Listed[item[p]]
  BY <1>3, BootstrapAssumption
<1> QED BY <1>3, <1>4 DEF First

THEOREM EachOnce == Spec => ImportedOnce
<1>1. IInv /\ [Next]_vars
        => [\A p \in Proc :
                pc[p] = "import" /\ item'[p] = item[p] + 1
                    => Listed[item[p]] \notin imported]_vars
  BY Once
<1> QED BY Inductive, <1>1, PTL DEF Spec, ImportedOnce

(* Nothing but a logout and a second revocation ends a valid session.      *)
LEMMA Lasts ==
    ASSUME IInv, [Next]_vars, NEW s \in Session,
           Valid(s), sess[s].by = token, sess'[s] # sess[s]
    PROVE  pc' = pc \/ (known = token /\ \E p \in Proc : pc[p] = "revoke")
<1> USE DEF IInv, StateOK, Goto
<1>1. sess' # sess /\ sess[s].by # NoToken /\ ~Expired(s)
  BY DEF Valid
<1>2. CASE UNCHANGED vars \/ Tick \/ Redeploy
  BY <1>1, <1>2 DEF vars, access, Tick, Redeploy
<1>3. ASSUME NEW p \in Proc, Start(p) \/ Crash(p) PROVE FALSE
  BY <1>1, <1>3 DEF Start, Bootstraps, Crash, access
<1>4. ASSUME NEW p \in Proc, Boot(p)
      PROVE known = token /\ \E q \in Proc : pc[q] = "revoke"
  <2>1. CASE Revoke(p)
    <3>1. pc[p] = "revoke"
      BY <2>1 DEF Revoke
    <3>2. known = token
      BY <1>1 DEF Rotated
    <3> QED BY <3>1, <3>2
  <2>2. CASE Purge(p)
    <3>1. sess'[s] = sess[s]
      BY <1>1, <2>2 DEF Purge
    <3> QED BY <3>1
  <2>3. CASE ~Revoke(p) /\ ~Purge(p)
    BY <1>1, <1>4, <2>3 DEF Boot, Migrate, Rewrite, Compare, MigrateSettings,
       CheckImport, ImportNext, ImportDone, access
  <2> QED BY <2>1, <2>2, <2>3
<1>5. ASSUME NEW p \in Proc, Serve(p) PROVE pc' = pc
  <2>1. CASE CreateSession(p)
    <3>1. PICK r \in Session : /\ sess[r] = Closed
                               /\ sess' = [sess EXCEPT ![r] = [by |-> token, until |-> now + Ttl]]
      BY <2>1 DEF CreateSession
    <3>2. r # s
      BY <1>1, <3>1 DEF Closed
    <3>3. sess'[s] = sess[s]
      BY <3>1, <3>2
    <3> QED BY <3>3
  <2>2. CASE ~CreateSession(p)
    BY <1>1, <1>5, <2>2 DEF Serve, Login, Look, Bootstraps, Attempt, EndSession,
       SaveSettings, ChangeAccounts, access, procs
  <2> QED BY <2>1, <2>2
<1> QED BY <1>2, <1>3, <1>4, <1>5 DEF Next

THEOREM Lasting == Spec => SessionsLast
<1>1. IInv /\ [Next]_vars
        => [\A s \in Session :
                Valid(s) /\ sess[s].by = token /\ sess'[s] # sess[s]
                  => pc' = pc \/ (known = token /\ \E p \in Proc : pc[p] = "revoke")]_vars
  BY Lasts
<1> QED BY Inductive, <1>1, PTL DEF Spec, SessionsLast
-------------------------------------------------------------------------------
(* The throttle.  What the table has of the window is what was let in, and *)
(* it never has more than MaxFailures rows.                                *)
Counted ==
    /\ FailuresOK /\ IsFiniteSet(fails)
    /\ InWindow(fails) = InWindow(tried)

(* A failed attempt always finds a rowid.                                  *)
LEMMA SomeUnused ==
    ASSUME NEW table, IsFiniteSet(table) PROVE Unused(table) # {}
<1> DEFINE used == {r[1] : r \in table}
           n == Cardinality(table)
<1>1. n \in Nat
  BY FS_CardinalityType
<1>2. IsFiniteSet(used) /\ Cardinality(used) <= n
  <2> DEFINE f == [r \in table |-> r[1]]
  <2>1. f \in Surjection(table, used)
    BY DEF Surjection
  <2> HIDE DEF f, used
  <2> QED BY <2>1, FS_Surjection
<1>3. IsFiniteSet(1..(n + 1)) /\ Cardinality(1..(n + 1)) = n + 1
  <2>1. 1 \in Int /\ n + 1 \in Int /\ ~(1 > n + 1) /\ (n + 1) - 1 + 1 = n + 1
    BY <1>1
  <2> HIDE DEF n
  <2>2. /\ IsFiniteSet(1..(n + 1))
        /\ Cardinality(1..(n + 1)) = IF 1 > n + 1 THEN 0 ELSE (n + 1) - 1 + 1
    BY <2>1, FS_Interval, Zenon
  <2> QED BY <2>1, <2>2
<1> SUFFICES ASSUME 1..(n + 1) \subseteq used PROVE FALSE
  BY DEF Unused
<1>4. Cardinality(1..(n + 1)) <= Cardinality(used) /\ Cardinality(used) \in Nat
  BY <1>2, FS_Subset, FS_CardinalityType
<1> HIDE DEF n, used
<1> QED BY <1>1, <1>2, <1>3, <1>4

LEMMA InitCounted == Init => Counted
<1> SUFFICES ASSUME Init PROVE Counted
  OBVIOUS
<1>1. fails = {} /\ tried = {}
  BY DEF Init
<1>2. IsFiniteSet({}) /\ Cardinality({}) = 0
  BY FS_EmptySet
<1> QED BY <1>1, <1>2, BootstrapAssumption DEF Counted, FailuresOK, InWindow

LEMMA NextCounted == ASSUME IInv, Counted, [Next]_vars PROVE Counted'
<1>t. now \in Time /\ Time \subseteq Nat
  BY DEF IInv, StateOK, Time
<1>1. CASE UNCHANGED <<now, fails, tried>>
  BY <1>1 DEF Counted, FailuresOK, InWindow, Within
<1>2. CASE Tick
  <2>1. now' = now + 1 /\ UNCHANGED <<fails, tried>>
    BY <1>2 DEF Tick, access, history
  <2>2. \A u \in Time : Within(u)' => Within(u)
    BY <1>t, <2>1, BootstrapAssumption DEF Within
  <2>3. InWindow(fails)' = InWindow(tried)'
    <3>1. \A r \in fails \cup tried : r[2] \in Time
      BY DEF Counted, FailuresOK
    <3>2. \A r : Within(r[2]) /\ r \in fails <=> Within(r[2]) /\ r \in tried
      BY DEF Counted, InWindow
    <3>3. \A r \in fails \cup tried : Within(r[2])' => (r \in fails <=> r \in tried)
      BY <2>2, <3>1, <3>2
    <3> QED BY <2>1, <3>3 DEF InWindow
  <2> QED BY <2>1, <2>3 DEF Counted, FailuresOK
<1>3. ASSUME NEW p \in Proc, Attempt(p) PROVE Counted'
  <2> DEFINE kept == {r \in fails : Recent(r[2])}
  <2>0. now' = now
    BY <1>3 DEF Attempt, environment
  <2>1. /\ kept = InWindow(fails) /\ IsFiniteSet(kept) /\ kept \subseteq fails
        /\ Cardinality(kept) \in Nat /\ Cardinality(kept) <= MaxFailures
    <3>1. kept = InWindow(fails) /\ kept \subseteq fails
      BY DEF InWindow, Recent
    <3> HIDE DEF kept
    <3>2. /\ IsFiniteSet(kept) /\ Cardinality(kept) <= Cardinality(fails)
          /\ Cardinality(kept) \in Nat /\ Cardinality(fails) \in Nat
          /\ Cardinality(fails) <= MaxFailures
      BY <3>1, FS_Subset, FS_CardinalityType DEF Counted, FailuresOK
    <3> QED BY <3>1, <3>2, BootstrapAssumption
  <2>2. CASE fails' = kept /\ tried' = tried
    <3>1. InWindow(fails)' = InWindow(tried)'
      <4>1. \A r : r \in kept => Within(r[2])
        BY <2>1 DEF InWindow
      <4> HIDE DEF kept
      <4> QED BY <2>0, <2>1, <2>2, <4>1 DEF Counted, InWindow, Within
    <3> QED BY <2>1, <2>2, <3>1 DEF Counted, FailuresOK
  <2>3. CASE fails' = {} /\ tried' = {}
    <3>1. IsFiniteSet({}) /\ Cardinality({}) = 0
      BY FS_EmptySet
    <3> QED BY <2>3, <3>1, BootstrapAssumption DEF Counted, FailuresOK, InWindow
  <2>4. ASSUME ~Throttled(Cardinality(kept)), NEW id \in Unused(kept),
               fails' = kept \cup {<<id, now>>}, tried' = InWindow(tried) \cup {<<id, now>>}
        PROVE  Counted'
    <3>1. id \in Nat
      BY <2>1 DEF Unused
    <3>2. fails' \subseteq Nat \X Time /\ tried' \subseteq Nat \X Time
      BY <1>t, <2>1, <2>4, <3>1 DEF Counted, FailuresOK, InWindow
    <3>3. fails' = tried'
      BY <2>1, <2>4 DEF Counted
    <3>4. <<id, now>> \notin kept
      BY DEF Unused
    <3> HIDE DEF kept
    <3>5. IsFiniteSet(fails') /\ Cardinality(fails') = Cardinality(kept) + 1
      BY <2>1, <2>4, <3>4, FS_AddElement
    <3>6. Cardinality(fails') <= MaxFailures
      BY <2>1, <2>4, <3>5, BootstrapAssumption DEF Throttled
    <3> QED BY <3>2, <3>3, <3>5, <3>6 DEF Counted, FailuresOK, InWindow
  <2>5. \/ fails' = kept /\ tried' = tried
        \/ fails' = {} /\ tried' = {}
        \/ /\ ~Throttled(Cardinality(kept))
           /\ \E id \in Unused(kept) : /\ fails' = kept \cup {<<id, now>>}
                                       /\ tried' = InWindow(tried) \cup {<<id, now>>}
    BY <1>3 DEF Attempt
  <2> QED BY <2>2, <2>3, <2>4, <2>5
<1>4. ASSUME NEW p \in Proc, Start(p) \/ Crash(p) \/ Boot(p)
      PROVE  UNCHANGED <<now, fails, tried>>
  BY <1>4 DEF Start, Bootstraps, Crash, Boot, Migrate, Rewrite, Compare, Revoke, Purge,
              MigrateSettings, CheckImport, ImportNext, ImportDone, environment,
              access, history
<1>5. ASSUME NEW p \in Proc, Serve(p), ~Attempt(p)
      PROVE  UNCHANGED <<now, fails, tried>>
  BY <1>5 DEF Serve, Login, Look, Bootstraps, CreateSession, EndSession, SaveSettings,
              ChangeAccounts, environment, access, history
<1>6. CASE UNCHANGED vars \/ Redeploy
  BY <1>1, <1>6 DEF vars, Redeploy, environment, access, history
<1> QED BY <1>1, <1>2, <1>3, <1>4, <1>5, <1>6 DEF Next

LEMMA CountedInductive == Spec => [](IInv /\ Counted)
<1>1. Init => IInv /\ Counted
  BY InitInv, InitCounted
<1>2. (IInv /\ Counted) /\ [Next]_vars => (IInv /\ Counted)'
  BY NextState, NextSolo, NextEncrypted, NextRotated, NextImports, NextCounted DEF IInv
<1> QED BY <1>1, <1>2, PTL DEF Spec

(* Every variable keeps its type, the failures with them.                  *)
THEOREM TypeCorrect == Spec => []TypeOK
<1>1. IInv /\ Counted => TypeOK
  BY DEF IInv, Counted, TypeOK
<1> QED BY <1>1, CountedInductive, PTL

(* db.py 3544-3580: no failure that was let in is forgotten within the     *)
(* window or counted after it, and no window has more than MaxFailures.    *)
THEOREM Throttle == Spec => []WindowCounted
<1>1. Counted => WindowCounted
  <2> SUFFICES ASSUME Counted PROVE Cardinality(InWindow(fails)) <= MaxFailures
    BY DEF Counted, WindowCounted
  <2>1. InWindow(fails) \subseteq fails
    BY DEF InWindow
  <2>2. /\ Cardinality(InWindow(fails)) <= Cardinality(fails)
        /\ Cardinality(InWindow(fails)) \in Nat /\ Cardinality(fails) \in Nat
    BY <2>1, FS_Subset, FS_CardinalityType DEF Counted
  <2> QED BY <2>2, BootstrapAssumption DEF Counted, FailuresOK
<1> QED BY <1>1, CountedInductive, PTL
===============================================================================
