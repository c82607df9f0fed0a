------------------------- MODULE ProvisioningProofs -------------------------
(***************************************************************************)
(* Theorems about Provisioning, for every set of terminals, inputs and     *)
(* relay lists, every number of slots, retries and setups.                 *)
(***************************************************************************)
EXTENDS Provisioning, RelaysProofs

Fields == {"pc", "id", "ask", "relays", "routes", "attempt", "lost", "device", "outcome"}

-----------------------------------------------------------------------------
(* Setups are told apart by the number they began with. *)

Shape == /\ run = [p \in Procs |-> run[p]]
         /\ \A p \in Procs : DOMAIN run[p] = Fields

Identities ==
  /\ started \in Nat
  /\ \A p \in Procs : run[p].id \in 0..started /\ (run[p].pc # "idle" => run[p].id # 0)
  /\ \A p, q \in Procs : p # q /\ run[p].id # 0 => run[p].id # run[q].id
  /\ \A k \in account : k.setup \in 1..started
  /\ config # Nothing => config.by \in 1..started

\* A device is kept only once its key is at the account; keys are there only of
\* setups that asked; and a configuration only of setups that came to save one.
Wireguard == "mullvad-wireguard-socks"
Local(p) ==
  /\ run[p].pc = "registered" => Key(run[p].id, run[p].attempt) \in account
  /\ run[p].pc \in {"exits", "save", "render", "validate"} /\ run[p].ask.source = Wireguard =>
       run[p].device \in account
  /\ run[p].pc \in {"sent", "registered"} => run[p].ask.accountOk
  /\ run[p].pc = "relays" => TakenBy(run[p].id) = {}
  /\ run[p].pc = "provision" /\ ~run[p].ask.accountOk => TakenBy(run[p].id) = {}
  /\ run[p].pc # "idle" => run[p].outcome = "none"
  /\ run[p].pc \notin {"idle", "render", "validate"} /\ config # Nothing =>
       config.by # run[p].id
  /\ run[p].outcome \in FreeOutcomes =>
       TakenBy(run[p].id) = {} /\ (config # Nothing => config.by # run[p].id)

SetupInv == Shape /\ Identities /\ SavedDeviceIsRegistered /\ \A p \in Procs : Local(p)

LEMMA IdleShape ==
  /\ DOMAIN Idle = Fields
  /\ \A r, outcome : /\ DOMAIN Ended(r, outcome) = Fields
                     /\ Ended(r, outcome).pc = "idle" /\ Ended(r, outcome).id = r.id
                     /\ Ended(r, outcome).outcome = outcome
BY DEF Idle, Ended, Fields

\* A step of p leaves the other setups alone, and p's number as it is.
Onward(p) ==
  /\ DOMAIN run'[p] = Fields /\ run'[p].id = run[p].id
  /\ run' = [q \in Procs |-> run'[q]]
  /\ \A q \in Procs \ {p} : run'[q] = run[q]

LEMMA EndOnward ==
  ASSUME Shape, NEW p \in Procs, NEW outcome, End(p, outcome)
  PROVE  Onward(p) /\ run'[p].pc = "idle" /\ run'[p].outcome = outcome
BY IdleShape DEF Shape, End, Onward

LEMMA GoOnward ==
  ASSUME Shape, NEW p \in Procs, NEW pc, Go(p, pc)
  PROVE  /\ Onward(p) /\ run'[p].pc = pc /\ run'[p].outcome = run[p].outcome
         /\ run'[p].ask = run[p].ask /\ run'[p].device = run[p].device
         /\ run'[p].attempt = run[p].attempt
BY DEF Shape, Go, Onward, Fields

LEMMA RelaysOnward ==
  ASSUME Shape, NEW p \in Procs, NEW relays, NEW routes, NEW pc,
         run' = [run EXCEPT ![p].relays = relays, ![p].routes = routes, ![p].pc = pc]
  PROVE  /\ Onward(p) /\ run'[p].pc = pc /\ run'[p].id = run[p].id
         /\ run'[p].ask = run[p].ask /\ run'[p].outcome = run[p].outcome
BY DEF Shape, Onward, Fields

LEMMA AgainOnward ==
  ASSUME Shape, NEW p \in Procs, NEW outcome, AgainOr(p, outcome)
  PROVE  /\ Onward(p)
         /\ \/ run'[p].pc = "idle" /\ run'[p].outcome = outcome
            \/ /\ run'[p].pc = "provision" /\ run'[p].ask = run[p].ask
               /\ run'[p].outcome = run[p].outcome
<1> DEFINE r == [run[p] EXCEPT !.lost = IF Registered(p) THEN @ + 1 ELSE @]
<1>1. DOMAIN r = Fields /\ r.id = run[p].id /\ r.ask = run[p].ask /\ r.outcome = run[p].outcome
  BY DEF Shape, Fields
<1>2. DOMAIN [r EXCEPT !.pc = "provision"] = Fields
      /\ [r EXCEPT !.pc = "provision"].pc = "provision"
      /\ [r EXCEPT !.pc = "provision"].id = run[p].id
      /\ [r EXCEPT !.pc = "provision"].ask = run[p].ask
      /\ [r EXCEPT !.pc = "provision"].outcome = run[p].outcome
  BY <1>1 DEF Fields
<1>3. run' = [run EXCEPT ![p] = IF Retries(p) THEN [r EXCEPT !.pc = "provision"]
                                ELSE Ended(r, outcome)]
  BY DEF AgainOr
<1> HIDE DEF r
<1> QED BY <1>1, <1>2, <1>3, IdleShape DEF Shape, Onward

-----------------------------------------------------------------------------
(* Every step keeps it. *)

\* What p does to the account and the configuration concerns its own number.
LEMMA OthersKeep ==
  ASSUME SetupInv, NEW p \in Procs, run[p].pc # "idle", Onward(p), started' = started,
         account \subseteq account', \A k \in account' \ account : k.setup = run[p].id,
         \/ config' = config
         \/ /\ config'.by = run[p].id
            /\ config'.source = Wireguard => config'.device \in account',
         Local(p)'
  PROVE  SetupInv'
<1>1. /\ run'[p].id = run[p].id /\ DOMAIN run'[p] = Fields
      /\ run' = [q \in Procs |-> run'[q]]
      /\ \A q \in Procs \ {p} : run'[q] = run[q]
      /\ run[p].id \in 1..started
  BY DEF Onward, SetupInv, Identities
<1>2. Shape' BY <1>1 DEF SetupInv, Shape
<1>3. Identities' BY <1>1 DEF SetupInv, Identities
<1>4. SavedDeviceIsRegistered' BY DEF SetupInv, SavedDeviceIsRegistered, Wireguard
<1>5. ASSUME NEW q \in Procs \ {p} PROVE Local(q)'
  <2>1. run'[q] = run[q] /\ Local(q) BY <1>1 DEF SetupInv
  <2>2. run[q].id # run[p].id BY <1>1 DEF SetupInv, Identities
  <2>3. TakenBy(run[q].id)' = TakenBy(run[q].id) BY <2>1, <2>2 DEF TakenBy
  <2>4. config' # Nothing => config' = config \/ config'.by # run[q].id BY <2>2
  <2> QED BY <2>1, <2>3, <2>4 DEF Local
<1> QED BY <1>2, <1>3, <1>4, <1>5 DEF SetupInv

\* A setup that ends keeps nothing; how it ended tells whether it cost a slot.
LEMMA EndKeeps ==
  ASSUME SetupInv, NEW p \in Procs, run[p].pc # "idle", NEW outcome, End(p, outcome),
         account' = account, started' = started,
         \/ config' = config
         \/ /\ config'.by = run[p].id
            /\ config'.source = Wireguard => config'.device \in account',
         outcome \in FreeOutcomes =>
           /\ config' = config /\ TakenBy(run[p].id) = {}
           /\ config # Nothing => config.by # run[p].id
  PROVE  SetupInv'
<1>1. Shape BY DEF SetupInv
<1>2. Onward(p) /\ run'[p].pc = "idle" /\ run'[p].outcome = outcome /\ run'[p].id = run[p].id
  BY <1>1, EndOnward DEF Onward
<1>3. TakenBy(run[p].id)' = TakenBy(run[p].id) BY <1>2 DEF TakenBy
<1>4. Local(p)' BY <1>2, <1>3 DEF Local
<1> QED BY <1>2, <1>4, OthersKeep

\* No answer is one of the outcomes that are free.
LEMMA CostlyOutcomes ==
  {"none", "keygen", "network", "refused", "response", "threw", "exit", "schema", "save", "plan",
   "render", "validation", "final save", "complete", "crashed"} \cap FreeOutcomes = {}
BY DEF FreeOutcomes

LEMMA AgainKeeps ==
  ASSUME SetupInv, NEW p \in Procs, run[p].pc \in {"sent", "registered"},
         NEW outcome \in {"network", "refused"}, AgainOr(p, outcome),
         UNCHANGED <<account, config, started>>
  PROVE  SetupInv'
<1>1. Shape /\ Local(p) BY DEF SetupInv
<1>2. Onward(p) /\ run'[p].id = run[p].id BY <1>1, AgainOnward DEF Onward
<1>3. \/ run'[p].pc = "idle" /\ run'[p].outcome = outcome
      \/ /\ run'[p].pc = "provision" /\ run'[p].ask = run[p].ask
         /\ run'[p].outcome = run[p].outcome
  BY <1>1, AgainOnward
<1>4. Local(p)' BY <1>1, <1>2, <1>3, CostlyOutcomes DEF Local
<1> QED BY <1>2, <1>4, OthersKeep

LEMMA StepKeeps ==
  ASSUME SetupInv, NEW p \in Procs, Step(p) \/ Register(p) \/ Crash(p)
  PROVE  SetupInv'
<1>1. Shape /\ Local(p) BY DEF SetupInv
<1>2. run[p].pc # "idle"
  BY DEF Step, Register, Crash, Answer, FetchRelays, FetchRelaysFails, RefuseAccount, SendRequest,
         AnswerDevice, AnswerLost, AnswerThrottled, AnswerRefused, AnswerUnreadable, ResolveExits,
         SaveInitial, Render, Validate, Registered, At
<1>3. /\ Canonical(run[p]).by = run[p].id /\ Canonical(run[p]).source = run[p].ask.source
      /\ Canonical(run[p]).device = run[p].device
      /\ \A phase : /\ WithPhase(Canonical(run[p]), phase).by = run[p].id
                    /\ WithPhase(Canonical(run[p]), phase).source = run[p].ask.source
                    /\ WithPhase(Canonical(run[p]), phase).device = run[p].device
  BY DEF Canonical, WithPhase
<1> USE DEF At, Registered
<1>4. CASE FetchRelays(p)
  <2>1. PICK payload \in Payloads, unanswered \in SUBSET {h \in DOMAIN Rank : Rank[h] = 1} :
          LET relays == Normalized(payload)
          IN \/ \E outcome : End(p, outcome)
             \/ run' = [run EXCEPT ![p].relays = relays,
                                   ![p].routes = PlannedRoutes(run[p].ask, relays),
                                   ![p].pc = IF run[p].ask.source = Wireguard
                                             THEN "provision" ELSE "exits"]
    BY <1>4 DEF FetchRelays, Wireguard
  <2> DEFINE relays == Normalized(payload)
             routes == PlannedRoutes(run[p].ask, relays)
             pc == IF run[p].ask.source = Wireguard THEN "provision" ELSE "exits"
  <2>2. run[p].pc = "relays" /\ UNCHANGED <<account, config, started>>
    BY <1>4 DEF FetchRelays
  <2>3. CASE \E outcome : End(p, outcome)
    BY <1>1, <2>2, <2>3, EndKeeps DEF Local
  <2>4. CASE run' = [run EXCEPT ![p].relays = relays, ![p].routes = routes, ![p].pc = pc]
    <3>0. pc \in {"provision", "exits"} /\ (pc = "exits" => run[p].ask.source # Wireguard)
      OBVIOUS
    <3> HIDE DEF relays, routes, pc
    <3>1. /\ Onward(p) /\ run'[p].pc = pc /\ run'[p].id = run[p].id
          /\ run'[p].ask = run[p].ask /\ run'[p].outcome = run[p].outcome
      BY <1>1, <2>4, RelaysOnward
    <3>2. Local(p)'
      BY <1>1, <2>2, <3>0, <3>1 DEF Local, TakenBy
    <3> QED BY <1>2, <2>2, <3>1, <3>2, OthersKeep
  <2> QED BY <2>1, <2>3, <2>4
<1>5. CASE FetchRelaysFails(p)
  BY <1>1, <1>5, EndKeeps DEF FetchRelaysFails, Local
<1>6. CASE RefuseAccount(p)
  BY <1>1, <1>6, EndKeeps, CostlyOutcomes DEF RefuseAccount, Local
<1>7. CASE SendRequest(p)
  <2>1. /\ Onward(p) /\ run'[p].pc = "sent" /\ run'[p].id = run[p].id
        /\ run'[p].ask = run[p].ask /\ run'[p].outcome = run[p].outcome
    BY <1>1, <1>7 DEF SendRequest, Shape, Onward, Fields
  <2>2. Local(p)' BY <1>1, <1>7, <2>1 DEF SendRequest, Local, TakenBy, FreeOutcomes
  <2> QED BY <1>2, <1>7, <2>1, <2>2, OthersKeep DEF SendRequest
<1>8. CASE Register(p)
  <2>1. Go(p, "registered") /\ run[p].pc = "sent"
    BY <1>8 DEF Register
  <2>2. /\ Onward(p) /\ run'[p].pc = "registered" /\ run'[p].id = run[p].id
        /\ run'[p].ask = run[p].ask /\ run'[p].outcome = run[p].outcome
        /\ run'[p].attempt = run[p].attempt
    BY <1>1, <2>1, GoOnward DEF Onward
  <2>3. /\ account' = account \cup {Key(run[p].id, run[p].attempt)}
        /\ config' = config /\ started' = started
        /\ Key(run[p].id, run[p].attempt).setup = run[p].id
    BY <1>8 DEF Register, Key
  <2>4. Local(p)' BY <1>1, <2>1, <2>2, <2>3 DEF Local, FreeOutcomes
  <2> QED BY <1>2, <2>2, <2>3, <2>4, OthersKeep
<1>9. CASE AnswerDevice(p)
  <2>1. /\ Onward(p) /\ run'[p].pc = "exits" /\ run'[p].id = run[p].id
        /\ run'[p].device = Key(run[p].id, run[p].attempt)
        /\ run'[p].ask = run[p].ask /\ run'[p].outcome = run[p].outcome
    BY <1>1, <1>9 DEF AnswerDevice, Shape, Onward, Fields
  <2>2. /\ run[p].pc = "registered" /\ account' = account /\ config' = config
        /\ run'[p].device \in account /\ run'[p].outcome = "none"
        /\ config # Nothing => config.by # run[p].id
    BY <1>1, <1>9, <2>1 DEF AnswerDevice, Local
  <2>3. Local(p)' BY <2>1, <2>2 DEF Local, FreeOutcomes
  <2> QED BY <1>2, <1>9, <2>1, <2>3, OthersKeep DEF AnswerDevice
<1>10. CASE AnswerLost(p) \/ AnswerThrottled(p)
  BY <1>10, AgainKeeps DEF AnswerLost, AnswerThrottled
<1>11. CASE AnswerRefused(p) \/ AnswerUnreadable(p)
  BY <1>2, <1>11, EndKeeps, CostlyOutcomes DEF AnswerRefused, AnswerUnreadable
<1>12. CASE ResolveExits(p)
  <2>1. CASE Go(p, "save")
    <3>1. /\ Onward(p) /\ run'[p].pc = "save" /\ run'[p].id = run[p].id
          /\ run'[p].ask = run[p].ask /\ run'[p].outcome = run[p].outcome
          /\ run'[p].device = run[p].device
      BY <1>1, <2>1, GoOnward DEF Onward
    <3>2. Local(p)' BY <1>1, <1>12, <3>1 DEF ResolveExits, Local, FreeOutcomes
    <3> QED BY <1>2, <1>12, <3>1, <3>2, OthersKeep DEF ResolveExits
  <2>2. CASE \E outcome \in {"exit", "schema"} : End(p, outcome)
    BY <1>2, <1>12, <2>2, EndKeeps, CostlyOutcomes DEF ResolveExits
  <2> QED BY <1>12, <2>1, <2>2 DEF ResolveExits
<1>13. CASE SaveInitial(p)
  <2>1. /\ run[p].pc = "save" /\ account' = account /\ started' = started
        /\ run[p].ask.source = Wireguard => run[p].device \in account
    BY <1>1, <1>13 DEF SaveInitial, Local
  <2>2. CASE Go(p, "render")
    <3>1. /\ Onward(p) /\ run'[p].pc = "render" /\ run'[p].id = run[p].id
          /\ run'[p].ask = run[p].ask /\ run'[p].outcome = run[p].outcome
          /\ run'[p].device = run[p].device
      BY <1>1, <2>2, GoOnward DEF Onward
    <3>2. Local(p)' BY <1>1, <2>1, <3>1 DEF Local, FreeOutcomes
    <3> QED BY <1>2, <1>3, <1>13, <2>1, <2>2, <3>1, <3>2, OthersKeep DEF SaveInitial
  <2>3. CASE End(p, "save")
    BY <1>2, <1>3, <1>13, <2>1, <2>3, EndKeeps, CostlyOutcomes DEF SaveInitial
  <2> QED BY <1>13, <2>2, <2>3 DEF SaveInitial
<1>14. CASE Render(p)
  <2>1. /\ run[p].pc = "render" /\ account' = account /\ started' = started
        /\ run[p].ask.source = Wireguard => run[p].device \in account
    BY <1>1, <1>14 DEF Render, Local
  <2>2. CASE Go(p, "validate")
    <3>1. /\ Onward(p) /\ run'[p].pc = "validate" /\ run'[p].id = run[p].id
          /\ run'[p].ask = run[p].ask /\ run'[p].outcome = run[p].outcome
          /\ run'[p].device = run[p].device
      BY <1>1, <2>2, GoOnward DEF Onward
    <3>2. Local(p)' BY <1>1, <2>1, <3>1 DEF Local, FreeOutcomes
    <3> QED BY <1>2, <1>3, <1>14, <2>1, <2>2, <3>1, <3>2, OthersKeep DEF Render
  <2>3. CASE \E outcome \in {"render", "plan"} : End(p, outcome)
    BY <1>2, <1>3, <1>14, <2>1, <2>3, EndKeeps, CostlyOutcomes DEF Render
  <2> QED BY <1>14, <2>2, <2>3 DEF Render
<1>15. CASE Validate(p)
  <2>1. /\ run[p].pc = "validate" /\ account' = account /\ started' = started
        /\ run[p].ask.source = Wireguard => run[p].device \in account
    BY <1>1, <1>15 DEF Validate, Local
  <2>2. /\ \E outcome \in {"complete", "validation", "final save"} : End(p, outcome)
        /\ config' = config \/ \E phase : config' = WithPhase(Canonical(run[p]), phase)
    BY <1>15 DEF Validate
  <2> QED BY <1>2, <1>3, <2>1, <2>2, EndKeeps, CostlyOutcomes
<1>16. CASE Crash(p)
  BY <1>2, <1>16, EndKeeps, CostlyOutcomes DEF Crash
<1> QED BY <1>4, <1>5, <1>6, <1>7, <1>8, <1>9, <1>10, <1>11, <1>12, <1>13, <1>14, <1>15, <1>16
        DEF Step, Answer

LEMMA NextKeeps == SetupInv /\ [Next]_vars => SetupInv'
<1> SUFFICES ASSUME SetupInv, [Next]_vars PROVE SetupInv'
  OBVIOUS
<1>1. ASSUME NEW p \in Procs, CollectInputs(p) PROVE SetupInv'
  <2>1. PICK begun : /\ run' = [run EXCEPT ![p] = begun]
                     /\ DOMAIN begun = Fields /\ begun.id = started + 1
                     /\ \/ begun.pc = "relays" /\ begun.outcome = "none"
                        \/ begun.pc = "idle"
    <3>1. PICK ask \in Asks[p] :
            \E outcome : \/ run' = [run EXCEPT ![p] = [Begun(ask) EXCEPT !.pc = "relays"]]
                         \/ run' = [run EXCEPT ![p] = [Begun(ask) EXCEPT !.outcome = outcome]]
      BY <1>1 DEF CollectInputs
    <3> DEFINE begun == Begun(ask)
    <3>4. PICK outcome : \/ run' = [run EXCEPT ![p] = [begun EXCEPT !.pc = "relays"]]
                         \/ run' = [run EXCEPT ![p] = [begun EXCEPT !.outcome = outcome]]
      BY <3>1
    <3>2. /\ DOMAIN begun = Fields /\ begun.id = started + 1
          /\ begun.pc = "idle" /\ begun.outcome = "none"
      BY DEF Begun, Idle, Fields
    <3>3. /\ DOMAIN [begun EXCEPT !.pc = "relays"] = Fields
          /\ [begun EXCEPT !.pc = "relays"].id = started + 1
          /\ [begun EXCEPT !.pc = "relays"].pc = "relays"
          /\ [begun EXCEPT !.pc = "relays"].outcome = "none"
          /\ DOMAIN [begun EXCEPT !.outcome = outcome] = Fields
          /\ [begun EXCEPT !.outcome = outcome].id = started + 1
          /\ [begun EXCEPT !.outcome = outcome].pc = "idle"
      BY <3>2 DEF Fields
    <3> HIDE DEF begun
    <3> QED BY <3>3, <3>4
  <2>2. /\ UNCHANGED <<account, config>> /\ started' = started + 1 /\ run[p].pc = "idle"
        /\ Shape /\ Identities
    BY <1>1 DEF CollectInputs, At, SetupInv
  <2>3. run'[p] = begun /\ \A q \in Procs \ {p} : run'[q] = run[q]
    BY <2>1, <2>2 DEF Shape
  <2>4. Shape' BY <2>1, <2>2, <2>3 DEF Shape
  <2>5. Identities' BY <2>1, <2>2, <2>3 DEF Identities
  <2>6. SavedDeviceIsRegistered' BY <2>2 DEF SetupInv, SavedDeviceIsRegistered
  <2>7. /\ TakenBy(started + 1) = {} /\ (config # Nothing => config.by # started + 1)
    BY <2>2 DEF TakenBy, Identities
  <2>8. Local(p)'
    BY <2>1, <2>2, <2>3, <2>7 DEF Local, TakenBy, FreeOutcomes
  <2>9. \A q \in Procs \ {p} : Local(q)'
    BY <2>2, <2>3 DEF SetupInv, Local, TakenBy
  <2> QED BY <2>4, <2>5, <2>6, <2>8, <2>9 DEF SetupInv
<1>2. ASSUME NEW p \in Procs, Step(p) \/ Register(p) \/ Crash(p) PROVE SetupInv'
  BY <1>2, StepKeeps
<1>3. CASE UNCHANGED vars
  BY <1>3 DEF vars, SetupInv, Shape, Identities, SavedDeviceIsRegistered, Local, TakenBy
<1> QED BY <1>1, <1>2, <1>3 DEF Next

LEMMA InitIs == Init => SetupInv
<1> SUFFICES ASSUME Init PROVE SetupInv
  OBVIOUS
<1>1. /\ account = {} /\ config = Nothing /\ started = 0
      /\ run = [p \in Procs |-> Idle]
  BY DEF Init
<1>2. Shape BY <1>1, IdleShape DEF Shape
<1>3. Identities BY <1>1 DEF Identities, Idle
<1>4. SavedDeviceIsRegistered BY <1>1 DEF SavedDeviceIsRegistered
<1>5. ASSUME NEW p \in Procs PROVE Local(p)
  BY <1>1 DEF Local, Idle, FreeOutcomes
<1> QED BY <1>2, <1>3, <1>4, <1>5 DEF SetupInv

LEMMA SetupInvariant == Spec => []SetupInv
BY InitIs, NextKeeps, PTL DEF Spec

\* Whatever was lost, retried or overlapped, the key a saved configuration tunnels
\* with is one the account knows.
THEOREM TunnelKeyIsKnown == Spec => []SavedDeviceIsRegistered
<1>1. SetupInv => SavedDeviceIsRegistered BY DEF SetupInv
<1> QED BY <1>1, SetupInvariant, PTL

\* A setup that was cancelled or refused has cost no slot and saved nothing.
THEOREM RefusedIsFree == Spec => []RefusalIsFree
<1>1. SetupInv => RefusalIsFree BY DEF SetupInv, Local, RefusalIsFree
<1> QED BY <1>1, SetupInvariant, PTL

-----------------------------------------------------------------------------
(* What a setup costs.  n slots are accounted for by the attempts made and the *)
(* answers lost: before an answer no more than were lost, after it one more.   *)

Asking == {"relays", "provision", "sent"}

Charged(r, n) ==
  /\ r.attempt \in 0..RetryLimit /\ r.lost \in 0..RetryLimit
  /\ n <= RetryLimit
  /\ n <= IF r.pc \in Asking THEN r.lost ELSE r.lost + 1
  /\ r.pc = "provision" => r.lost <= r.attempt /\ r.attempt < RetryLimit
  /\ r.pc = "relays" => r.lost = 0 /\ r.attempt = 0
  /\ r.pc \in {"sent", "registered"} => r.lost < r.attempt

Pcs == {"idle", "relays", "provision", "sent", "registered", "exits", "save", "render", "validate"}
Phases == {"unvalidated", "validated", "error"}

Costs(p) ==
  /\ run[p].pc \in Pcs /\ run[p].outcome \in Outcomes
  /\ Charged(run[p], Cardinality(TakenBy(run[p].id)))

CostInv ==
  /\ account \subseteq Keys /\ IsFiniteSet(account) /\ Cardinality(account) <= SlotLimit
  /\ started <= MaxSetups
  /\ config # Nothing => config.phase \in Phases
  /\ \A p \in Procs : Costs(p)

LEMMA TakenIsFinite ==
  ASSUME IsFiniteSet(account), NEW id
  PROVE  IsFiniteSet(TakenBy(id)) /\ Cardinality(TakenBy(id)) \in Nat
<1>1. TakenBy(id) \in SUBSET account BY DEF TakenBy
<1> QED BY <1>1, FS_Subset, FS_CardinalityType

LEMMA NoneTaken ==
  ASSUME SetupInv, NEW id, id \notin 1..started
  PROVE  Cardinality(TakenBy(id)) = 0
<1>1. TakenBy(id) = {} BY DEF TakenBy, SetupInv, Identities
<1> QED BY <1>1, FS_EmptySet

LEMMA InitCosts == Init => CostInv
<1> SUFFICES ASSUME Init PROVE CostInv
  OBVIOUS
<1>1. account = {} /\ config = Nothing /\ started = 0 /\ run = [p \in Procs |-> Idle]
  BY DEF Init
<1>2. \A id : Cardinality(TakenBy(id)) = 0
  <2>1. \A id : TakenBy(id) = {} BY <1>1 DEF TakenBy
  <2> QED BY <2>1, FS_EmptySet
<1>3. ASSUME NEW p \in Procs PROVE Costs(p)
  <2>1. /\ run[p].pc = "idle" /\ run[p].outcome = "none"
        /\ run[p].attempt = 0 /\ run[p].lost = 0
    BY <1>1 DEF Idle
  <2>2. Charged(run[p], 0) BY <2>1, LimitsAssumption DEF Charged, Asking
  <2>3. Charged(run[p], Cardinality(TakenBy(run[p].id))) BY <1>2, <2>2
  <2> QED BY <2>1, <2>3 DEF Costs, Pcs, Outcomes
<1> QED BY <1>1, <1>3, FS_EmptySet, LimitsAssumption DEF CostInv

\* A step of p that registers nothing concerns the others in no way.
LEMMA SameAccountKeeps ==
  ASSUME SetupInv, CostInv, NEW p \in Procs, Onward(p), account' = account, started' = started,
         config' # Nothing => config'.phase \in Phases,
         run'[p].pc \in Pcs, run'[p].outcome \in Outcomes,
         Charged(run'[p], Cardinality(TakenBy(run[p].id)))
  PROVE  CostInv'
<1>1. /\ run'[p].id = run[p].id
      /\ \A q \in Procs \ {p} : run'[q] = run[q]
  BY DEF Onward
<1>2. \A id : TakenBy(id)' = TakenBy(id) BY DEF TakenBy
<1>3. Costs(p)' BY <1>1, <1>2 DEF Costs
<1>4. \A q \in Procs \ {p} : Costs(q)' BY <1>1, <1>2 DEF CostInv, Costs
<1> QED BY <1>3, <1>4 DEF CostInv

\* A setup that ends keeps what it lost.
LEMMA EndCosts ==
  ASSUME SetupInv, CostInv, NEW p \in Procs, NEW outcome \in Outcomes, End(p, outcome),
         account' = account, started' = started,
         config' # Nothing => config'.phase \in Phases
  PROVE  CostInv'
<1>1. Shape BY DEF SetupInv
<1>2. Onward(p) /\ run'[p].pc = "idle" /\ run'[p].outcome = outcome
  BY <1>1, EndOnward
<1>3. run'[p].lost = run[p].lost /\ run'[p].attempt = 0
  BY <1>1 DEF End, Ended, Idle, Shape
<1>4. Costs(p) BY DEF CostInv
<1>5. Charged(run'[p], Cardinality(TakenBy(run[p].id)))
  BY <1>2, <1>3, <1>4, LimitsAssumption, TakenIsFinite DEF Costs, Charged, Asking, CostInv
<1> QED BY <1>2, <1>5, SameAccountKeeps DEF Pcs

\* An attempt that failed: what Mullvad registered is one more that is lost.
LEMMA AgainCosts ==
  ASSUME SetupInv, CostInv, NEW p \in Procs, run[p].pc \in {"sent", "registered"},
         NEW outcome \in {"network", "refused"}, AgainOr(p, outcome),
         UNCHANGED <<account, config, started>>
  PROVE  CostInv'
<1>1. Shape /\ Costs(p) BY DEF SetupInv, CostInv
<1> DEFINE r == [run[p] EXCEPT !.lost = IF Registered(p) THEN @ + 1 ELSE @]
<1>2. /\ DOMAIN r = Fields /\ r.attempt = run[p].attempt
      /\ r.lost = run[p].lost + (IF run[p].pc = "registered" THEN 1 ELSE 0)
  BY <1>1 DEF Shape, Fields, Registered, At, Costs, Charged
<1>3. run' = [run EXCEPT ![p] = IF Retries(p) THEN [r EXCEPT !.pc = "provision"]
                                ELSE Ended(r, outcome)]
  BY DEF AgainOr
<1>4. /\ [r EXCEPT !.pc = "provision"].pc = "provision"
      /\ [r EXCEPT !.pc = "provision"].lost = r.lost
      /\ [r EXCEPT !.pc = "provision"].attempt = r.attempt
      /\ Ended(r, outcome).lost = r.lost /\ Ended(r, outcome).attempt = 0
      /\ Ended(r, outcome).pc = "idle"
  BY <1>2 DEF Fields, Ended, Idle
<1> HIDE DEF r
<1>5. /\ Onward(p)
      /\ run'[p].outcome \in {run[p].outcome, outcome}
  BY <1>1, AgainOnward
<1>6. /\ run'[p].lost = r.lost
      /\ \/ run'[p].pc = "provision" /\ run'[p].attempt = r.attempt /\ Retries(p)
         \/ run'[p].pc = "idle" /\ run'[p].attempt = 0
  BY <1>1, <1>3, <1>4 DEF Shape
<1>7. Charged(run'[p], Cardinality(TakenBy(run[p].id)))
  BY <1>1, <1>2, <1>6, LimitsAssumption, TakenIsFinite
  DEF Costs, Charged, Asking, Retries, CostInv
<1>8. run'[p].pc \in Pcs /\ run'[p].outcome \in Outcomes
  BY <1>1, <1>5, <1>6 DEF Costs, Pcs, Outcomes
<1>9. config' # Nothing => config'.phase \in Phases BY DEF CostInv
<1> QED BY <1>5, <1>7, <1>8, <1>9, SameAccountKeeps

LEMMA RegisterCosts ==
  ASSUME SetupInv, CostInv, NEW p \in Procs, Register(p)
  PROVE  CostInv'
<1>1. Shape /\ Costs(p) BY DEF SetupInv, CostInv
<1>2. /\ Onward(p) /\ run'[p].pc = "registered" /\ run'[p].outcome = run[p].outcome
      /\ run'[p].attempt = run[p].attempt /\ run'[p].lost = run[p].lost
      /\ run[p].pc = "sent"
  BY <1>1, GoOnward DEF Register, Go, At, Shape, Fields
<1>3. /\ account' = account \cup {Key(run[p].id, run[p].attempt)}
      /\ config' = config /\ started' = started
      /\ Cardinality(account) < SlotLimit
  BY DEF Register
<1>4. Key(run[p].id, run[p].attempt) \in Keys
  <2>1. run[p].id \in 1..started /\ started \in Nat /\ started <= MaxSetups
    BY <1>2 DEF SetupInv, Identities, CostInv
  <2>2. run[p].attempt \in 1..RetryLimit
    BY <1>1, <1>2, LimitsAssumption DEF Costs, Charged
  <2> QED BY <2>1, <2>2, LimitsAssumption DEF Key, Keys
<1>5. /\ account' \subseteq Keys /\ IsFiniteSet(account') /\ Cardinality(account') <= SlotLimit
  <2>1. /\ IsFiniteSet(account')
        /\ Cardinality(account') \in {Cardinality(account), Cardinality(account) + 1}
    BY <1>3, FS_AddElement DEF CostInv
  <2>2. Cardinality(account) \in Nat BY FS_CardinalityType DEF CostInv
  <2> QED BY <1>3, <1>4, <2>1, <2>2, LimitsAssumption DEF CostInv
<1>6. Costs(p)'
  <2>1. TakenBy(run[p].id)' = TakenBy(run[p].id) \cup {Key(run[p].id, run[p].attempt)}
    BY <1>2, <1>3 DEF TakenBy, Key, Onward
  <2>2. Cardinality(TakenBy(run[p].id))' <= Cardinality(TakenBy(run[p].id)) + 1
        /\ Cardinality(TakenBy(run[p].id))' \in Nat
        /\ Cardinality(TakenBy(run[p].id)) \in Nat
    <3>1. IsFiniteSet(TakenBy(run[p].id)) /\ Cardinality(TakenBy(run[p].id)) \in Nat
      BY TakenIsFinite DEF CostInv
    <3> DEFINE T == TakenBy(run[p].id)
               k == Key(run[p].id, run[p].attempt)
    <3>2. Cardinality(T \cup {k}) \in {Cardinality(T), Cardinality(T) + 1}
      <4> HIDE DEF T, k
      <4> QED BY <3>1, FS_AddElement DEF T
    <3> QED BY <2>1, <3>1, <3>2
  <2>3. Charged(run'[p], Cardinality(TakenBy(run[p].id))')
    BY <1>1, <1>2, <2>2, LimitsAssumption DEF Costs, Charged, Asking
  <2> QED BY <1>1, <1>2, <2>3 DEF Costs, Pcs, Onward
<1>7. ASSUME NEW q \in Procs \ {p} PROVE Costs(q)'
  <2>1. run'[q] = run[q] /\ Costs(q) BY <1>2 DEF Onward, CostInv
  <2>2. run[q].id # run[p].id BY <1>2 DEF SetupInv, Identities
  <2>3. TakenBy(run[q].id)' = TakenBy(run[q].id) BY <1>3, <2>1, <2>2 DEF TakenBy, Key
  <2> QED BY <2>1, <2>3 DEF Costs
<1> QED BY <1>3, <1>5, <1>6, <1>7 DEF CostInv

\* The stages whose only trace is where the setup is next.
LEMMA GoCosts ==
  ASSUME SetupInv, CostInv, NEW p \in Procs, NEW pc \in Pcs, Go(p, pc),
         pc \notin Asking \cup {"registered"}, run[p].pc \notin Asking,
         account' = account, started' = started,
         config' # Nothing => config'.phase \in Phases
  PROVE  CostInv'
<1>1. Shape /\ Costs(p) BY DEF SetupInv, CostInv
<1>2. /\ Onward(p) /\ run'[p].pc = pc /\ run'[p].outcome = run[p].outcome
      /\ run'[p].attempt = run[p].attempt /\ run'[p].lost = run[p].lost
  BY <1>1, GoOnward DEF Go, Shape, Fields
<1>3. Charged(run'[p], Cardinality(TakenBy(run[p].id)))
  BY <1>1, <1>2 DEF Costs, Charged, Asking
<1> QED BY <1>1, <1>2, <1>3, SameAccountKeeps DEF Costs

LEMMA StepCosts ==
  ASSUME SetupInv, CostInv, NEW p \in Procs, Step(p) \/ Crash(p)
  PROVE  CostInv'
<1>1. Shape /\ Costs(p) BY DEF SetupInv, CostInv
<1>2. config # Nothing => config.phase \in Phases BY DEF CostInv
<1>3. /\ Canonical(run[p]).phase \in Phases
      /\ \A phase \in Phases : WithPhase(Canonical(run[p]), phase).phase \in Phases
  BY DEF Canonical, WithPhase, Phases
<1>4. IsFiniteSet(TakenBy(run[p].id)) /\ Cardinality(TakenBy(run[p].id)) \in Nat
  BY TakenIsFinite DEF CostInv
<1> USE DEF At, Registered
<1>5. ASSUME \E outcome \in Outcomes : End(p, outcome), account' = account, started' = started,
             config' # Nothing => config'.phase \in Phases
      PROVE  CostInv'
  BY <1>5, EndCosts
<1>6. CASE FetchRelays(p)
  <2>1. PICK payload \in Payloads, unanswered \in SUBSET {h \in DOMAIN Rank : Rank[h] = 1} :
          LET relays == Normalized(payload)
          IN \/ \E outcome \in Outcomes : End(p, outcome)
             \/ run' = [run EXCEPT ![p].relays = relays,
                                   ![p].routes = PlannedRoutes(run[p].ask, relays),
                                   ![p].pc = IF run[p].ask.source = Wireguard
                                             THEN "provision" ELSE "exits"]
    <3>1. {"relays", "dns", "aliases", "location"} \subseteq Outcomes
      BY DEF Outcomes, FreeOutcomes
    <3> QED BY <1>6, <3>1 DEF FetchRelays, Wireguard, PlanVerdict
  <2> DEFINE relays == Normalized(payload)
             routes == PlannedRoutes(run[p].ask, relays)
             pc == IF run[p].ask.source = Wireguard THEN "provision" ELSE "exits"
  <2>2. run[p].pc = "relays" /\ UNCHANGED <<account, config, started>>
    BY <1>6 DEF FetchRelays
  <2>3. CASE run' = [run EXCEPT ![p].relays = relays, ![p].routes = routes, ![p].pc = pc]
    <3>0. pc \in {"provision", "exits"} OBVIOUS
    <3> HIDE DEF relays, routes, pc
    <3>1. /\ Onward(p) /\ run'[p].pc = pc /\ run'[p].outcome = run[p].outcome
          /\ run'[p].attempt = run[p].attempt /\ run'[p].lost = run[p].lost
      BY <1>1, <2>3, RelaysOnward, ZenonT(30) DEF Shape, Fields
    <3>2. Charged(run'[p], Cardinality(TakenBy(run[p].id)))
      BY <1>1, <1>4, <2>2, <3>0, <3>1, LimitsAssumption DEF Costs, Charged, Asking
    <3> QED BY <1>1, <1>2, <2>2, <3>0, <3>1, <3>2, SameAccountKeeps DEF Costs, Pcs
  <2> QED BY <1>2, <1>5, <2>1, <2>2, <2>3
<1>7. CASE FetchRelaysFails(p) \/ RefuseAccount(p) \/ AnswerRefused(p) \/ AnswerUnreadable(p)
           \/ Crash(p)
  <2>1. {"relays", "account", "keygen", "refused", "response", "threw", "crashed"} \subseteq Outcomes
    BY DEF Outcomes, FreeOutcomes
  <2> QED BY <1>2, <1>5, <1>7, <2>1
          DEF FetchRelaysFails, RefuseAccount, AnswerRefused, AnswerUnreadable, Crash
<1>8. CASE SendRequest(p)
  <2>1. /\ Onward(p) /\ run'[p].pc = "sent" /\ run'[p].outcome = run[p].outcome
        /\ run'[p].attempt = run[p].attempt + 1 /\ run'[p].lost = run[p].lost
    BY <1>1, <1>8 DEF SendRequest, Shape, Onward, Fields
  <2>2. Charged(run'[p], Cardinality(TakenBy(run[p].id)))
    BY <1>1, <1>4, <1>8, <2>1, LimitsAssumption DEF SendRequest, Costs, Charged, Asking
  <2> QED BY <1>1, <1>2, <1>8, <2>1, <2>2, SameAccountKeeps DEF SendRequest, Costs, Pcs
<1>9. CASE AnswerDevice(p)
  <2>1. /\ Onward(p) /\ run'[p].pc = "exits" /\ run'[p].outcome = run[p].outcome
        /\ run'[p].attempt = run[p].attempt /\ run'[p].lost = run[p].lost
    BY <1>1, <1>9 DEF AnswerDevice, Shape, Onward, Fields
  <2>2. Charged(run'[p], Cardinality(TakenBy(run[p].id)))
    BY <1>1, <1>4, <1>9, <2>1, LimitsAssumption DEF AnswerDevice, Costs, Charged, Asking
  <2> QED BY <1>1, <1>2, <1>9, <2>1, <2>2, SameAccountKeeps DEF AnswerDevice, Costs, Pcs
<1>10. CASE AnswerLost(p) \/ AnswerThrottled(p)
  BY <1>10, AgainCosts DEF AnswerLost, AnswerThrottled
<1>11. CASE ResolveExits(p)
  <2>1. \/ Go(p, "save")
        \/ \E outcome \in {"exit", "schema"} : End(p, outcome)
    BY <1>11 DEF ResolveExits
  <2>2. {"exit", "schema"} \subseteq Outcomes BY DEF Outcomes
  <2> QED BY <1>2, <1>5, <1>11, <2>1, <2>2, GoCosts DEF ResolveExits, Asking, Pcs
<1>12. CASE SaveInitial(p)
  <2>1. "save" \in Outcomes BY DEF Outcomes
  <2> QED BY <1>2, <1>3, <1>5, <1>12, <2>1, GoCosts DEF SaveInitial, Asking, Pcs
<1>13. CASE Render(p)
  <2>1. \/ Go(p, "validate") /\ config' = config
        \/ /\ \E outcome \in {"render", "plan"} : End(p, outcome)
           /\ config' \in {config, WithPhase(Canonical(run[p]), "error")}
    BY <1>13 DEF Render
  <2>2. {"render", "plan"} \subseteq Outcomes /\ "error" \in Phases BY DEF Outcomes, Phases
  <2> QED BY <1>2, <1>3, <1>5, <1>13, <2>1, <2>2, GoCosts DEF Render, Asking, Pcs
<1>14. CASE Validate(p)
  <2>1. /\ \E outcome \in {"complete", "validation", "final save"} : End(p, outcome)
        /\ \/ config' = config
           \/ \E phase \in Phases : config' = WithPhase(Canonical(run[p]), phase)
    BY <1>14 DEF Validate, Phases
  <2>2. {"complete", "validation", "final save"} \subseteq Outcomes BY DEF Outcomes
  <2> QED BY <1>2, <1>3, <1>5, <1>14, <2>1, <2>2 DEF Validate
<1> QED BY <1>6, <1>7, <1>8, <1>9, <1>10, <1>11, <1>12, <1>13, <1>14 DEF Step, Answer

LEMMA CollectCosts ==
  ASSUME SetupInv, CostInv, NEW p \in Procs, CollectInputs(p)
  PROVE  CostInv'
<1>1. /\ UNCHANGED <<account, config>> /\ started' = started + 1 /\ started < MaxSetups
      /\ Shape /\ Identities
  BY DEF CollectInputs, SetupInv
<1>2. PICK begun : /\ run' = [run EXCEPT ![p] = begun]
                   /\ begun.id = started + 1 /\ begun.attempt = 0 /\ begun.lost = 0
                   /\ begun.pc \in {"relays", "idle"} /\ begun.outcome \in Outcomes
  <2>1. PICK ask \in Asks[p] :
          \E outcome \in Outcomes :
            \/ run' = [run EXCEPT ![p] = [Begun(ask) EXCEPT !.pc = "relays"]]
            \/ run' = [run EXCEPT ![p] = [Begun(ask) EXCEPT !.outcome = outcome]]
    <3>1. \A ask : InputVerdict(ask) # "ok" => InputVerdict(ask) \in Outcomes
      BY DEF InputVerdict, Outcomes, FreeOutcomes
    <3>2. "cancelled" \in Outcomes BY DEF Outcomes, FreeOutcomes
    <3> QED BY <3>1, <3>2 DEF CollectInputs
  <2> DEFINE begun == Begun(ask)
  <2>2. PICK outcome \in Outcomes :
          \/ run' = [run EXCEPT ![p] = [begun EXCEPT !.pc = "relays"]]
          \/ run' = [run EXCEPT ![p] = [begun EXCEPT !.outcome = outcome]]
    BY <2>1
  <2>3. /\ DOMAIN begun = Fields /\ begun.id = started + 1
        /\ begun.attempt = 0 /\ begun.lost = 0
        /\ begun.pc = "idle" /\ begun.outcome = "none"
    BY DEF Begun, Idle, Fields
  <2>4. "none" \in Outcomes BY DEF Outcomes
  <2> HIDE DEF begun
  <2>5. LET r == [begun EXCEPT !.pc = "relays"]
        IN /\ r.id = started + 1 /\ r.attempt = 0 /\ r.lost = 0
           /\ r.pc = "relays" /\ r.outcome \in Outcomes
    BY <2>3, <2>4 DEF Fields
  <2>6. LET r == [begun EXCEPT !.outcome = outcome]
        IN /\ r.id = started + 1 /\ r.attempt = 0 /\ r.lost = 0
           /\ r.pc = "idle" /\ r.outcome \in Outcomes
    BY <2>3 DEF Fields
  <2> QED BY <2>2, <2>5, <2>6
<1>3. run'[p] = begun /\ \A q \in Procs \ {p} : run'[q] = run[q]
  BY <1>1, <1>2 DEF Shape
<1>4. \A id : TakenBy(id)' = TakenBy(id) BY <1>1 DEF TakenBy
<1>5. Costs(p)'
  <2>1. Cardinality(TakenBy(started + 1)) = 0
    BY <1>1, NoneTaken DEF Identities
  <2>2. Charged(begun, 0) BY <1>2, LimitsAssumption DEF Charged, Asking
  <2> QED BY <1>2, <1>3, <1>4, <2>1, <2>2 DEF Costs, Pcs
<1>6. \A q \in Procs \ {p} : Costs(q)' BY <1>3, <1>4 DEF CostInv, Costs
<1>7. started' <= MaxSetups BY <1>1, LimitsAssumption DEF Identities
<1> QED BY <1>1, <1>5, <1>6, <1>7 DEF CostInv

LEMMA NextCosts == SetupInv /\ CostInv /\ [Next]_vars => CostInv'
<1> SUFFICES ASSUME SetupInv, CostInv, [Next]_vars PROVE CostInv'
  OBVIOUS
<1>1. CASE Next BY <1>1, CollectCosts, StepCosts, RegisterCosts DEF Next
<1>2. CASE UNCHANGED vars
  BY <1>2 DEF vars, CostInv, Costs, TakenBy
<1> QED BY <1>1, <1>2

LEMMA CostInvariant == Spec => []CostInv
BY SetupInvariant, InitCosts, NextCosts, PTL DEF Spec

\* Setups stay at their steps, end in one of the listed ways, and the account holds
\* no more devices than Mullvad allows and only keys that some attempt made.
THEOREM ProvisioningTypes == Spec => []TypeOK
<1>1. SetupInv /\ CostInv => TypeOK
  BY DEF SetupInv, Identities, CostInv, Costs, Charged, Pcs, Phases, TypeOK
<1> QED BY <1>1, SetupInvariant, CostInvariant, PTL

\* A setup costs one slot, and one more for each answer that was lost on the way,
\* never more than the attempts it may make.
THEOREM SlotsAreCounted == Spec => []OneSlotUnlessLost
<1>1. ASSUME SetupInv, CostInv PROVE OneSlotUnlessLost
  <2>1. SUFFICES ASSUME NEW p \in Procs
                 PROVE  LET n == Cardinality(TakenBy(run[p].id))
                        IN n <= 1 + run[p].lost /\ n <= RetryLimit
    BY DEF OneSlotUnlessLost
  <2>2. Charged(run[p], Cardinality(TakenBy(run[p].id)))
    BY <1>1 DEF CostInv, Costs
  <2>3. Cardinality(TakenBy(run[p].id)) \in Nat BY <1>1, TakenIsFinite DEF CostInv
  <2> QED BY <2>2, <2>3, LimitsAssumption DEF Charged
<1> QED BY <1>1, SetupInvariant, CostInvariant, PTL

-----------------------------------------------------------------------------
(* The routes of a setup stand apart: their names because they are numbered,   *)
(* their listeners because the mode derives, counts or checks them.            *)

Apart(routes, mode, ports) ==
  \A i, j \in DOMAIN routes : i # j =>
    /\ routes[i].id # routes[j].id
    /\ \A base \in {ports.socks, ports.http} :
         <<routes[i].bindIp, ComputePublishedPort(mode, base, i - 1)>>
         # <<routes[j].bindIp, ComputePublishedPort(mode, base, j - 1)>>

\* What a location resolves to is a target of some relay at hand.
LEMMA ResolvedIsTarget ==
  ASSUME NEW relays, NEW location, Resolves(relays, location)
  PROVE  \E r \in relays : Resolved(relays, location) \in {Country(r), City(r), Exact(r)}
<1>1. Index(relays, location) # {} BY FS_EmptySet DEF Resolves
<1>2. Resolved(relays, location) \in Targets(relays) BY <1>1 DEF Resolved, Index
<1> QED BY <1>2 DEF Targets

\* A location that resolves goes by a name.
LEMMA LabelIsName ==
  ASSUME NEW payload \in Payloads, Supported(payload), NEW location,
         Resolves(Normalized(payload), location)
  PROVE  CanonicalLabel(Resolved(Normalized(payload), location)) \in Names
<1> DEFINE relays == Normalized(payload)
<1>1. ASSUME NEW r \in relays
      PROVE  r.host \in Names /\ r.countryName \in Names /\ r.cityName \in Names
  <2>1. Seq(STRING) \subseteq Names BY WordsAreNames
  <2>2. CASE payload.format = "app"
    <3>1. PICK q \in payload.relays : r = [q EXCEPT !.active = TRUE, !.socks = FALSE]
      BY <2>2 DEF Normalized
    <3>2. \A name \in {"host", "countryName", "cityName"} : r[name] = q[name]
      BY <3>1, PayloadsAssumption
    <3> QED BY <2>1, <3>2, PayloadsAssumption
  <2>3. CASE payload.format = "legacy"
    <3>1. r \in payload.relays BY <2>3 DEF Normalized
    <3> QED BY <2>1, <3>1, PayloadsAssumption
  <2> QED BY <2>2, <2>3 DEF Supported
<1> HIDE DEF relays
<1> DEFINE t == Resolved(relays, location)
<1>2. PICK r \in relays : t \in {Country(r), City(r), Exact(r)} BY ResolvedIsTarget DEF relays
<1> HIDE DEF t
<1>3. CanonicalLabel(t) \in {r.countryName, r.countryName \o r.cityName, r.host}
  <2>1. CASE t = Country(r) BY <2>1 DEF CanonicalLabel, Country
  <2>2. CASE t = City(r) BY <2>2 DEF CanonicalLabel, City
  <2>3. CASE t = Exact(r) BY <2>3 DEF CanonicalLabel, Exact
  <2> QED BY <1>2, <2>1, <2>2, <2>3
<1>4. r.countryName \o r.cityName \in Names BY <1>1 DEF Names
<1> QED BY <1>1, <1>3, <1>4 DEF t, relays

\* Loopback addresses and private ports follow from the place of a route; public
\* addresses that are not all different are refused.
LEMMA ListenersDiffer ==
  ASSUME NEW count \in Nat, NEW mode, NEW domain, NEW ips, NEW base \in Nat,
         ExposureVerdict(count, mode, "published-routes", domain, ips) = "ok",
         NEW i \in 1..count, NEW j \in 1..count, i # j
  PROVE  LET ip == RouteBindIps(count, mode, "published-routes", ips)
         IN <<ip[i], ComputePublishedPort(mode, base, i - 1)>>
            # <<ip[j], ComputePublishedPort(mode, base, j - 1)>>
<1>1. CASE mode = "private-network"
  BY <1>1 DEF ComputePublishedPort
<1>2. CASE mode = "loopback"
  <2>1. DeriveLoopbackBindIp(i - 1) # DeriveLoopbackBindIp(j - 1)
    <3> DEFINE a == i - 1
               b == j - 1
    <3>1. a \in Nat /\ b \in Nat /\ a # b OBVIOUS
    <3> HIDE DEF a, b
    <3>2. a = 254 * (a \div 254) + (a % 254) /\ b = 254 * (b \div 254) + (b % 254) BY <3>1
    <3>3. a \div 254 # b \div 254 \/ (a % 254) + 1 # (b % 254) + 1 BY <3>1, <3>2
    <3>4. <<127, 0, a \div 254, (a % 254) + 1>> # <<127, 0, b \div 254, (b % 254) + 1>>
      BY <3>3
    <3> QED BY <3>4 DEF a, b, DeriveLoopbackBindIp
  <2> QED BY <1>2, <2>1 DEF RouteBindIps
<1>3. CASE mode \notin {"private-network", "loopback"}
  <2>1. ips[i] # ips[j]
    BY <1>3 DEF ExposureVerdict, SharedHost, PublicVerdict
  <2> QED BY <1>3, <2>1 DEF RouteBindIps, SharedHost
<1> QED BY <1>1, <1>2, <1>3

LEMMA PlannedApart ==
  ASSUME NumeralsDiffer, NEW p \in Procs, NEW ask \in Asks[p], InputVerdict(ask) = "ok",
         NEW payload \in Payloads, Supported(payload),
         PlanVerdict(ask, Normalized(payload)) = "ok"
  PROVE  Apart(PlannedRoutes(ask, Normalized(payload)), ask.mode, ask.ports)
<1> DEFINE relays == Normalized(payload)
           n == Len(Locations(ask))
           names == [i \in 1..n |-> CanonicalLabel(Resolved(relays, Locations(ask)[i]))]
           labels == UniqueNames(names)
           ips == RouteBindIps(n, ask.mode, "published-routes", BindIps(ask))
           routes == PlannedRoutes(ask, relays)
<1>1. n \in Nat BY AsksAssumption DEF Locations
<1>2. names \in [1..n -> Names]
  <2>1. \A i \in 1..n : Resolves(relays, Locations(ask)[i]) BY DEF PlanVerdict
  <2> QED BY <2>1, LabelIsName
<1>3. \A i, j \in 1..n : labels[i] = labels[j] => i = j
  <2> HIDE DEF n, names
  <2>1. 0 \in 0..n BY <1>1
  <2> QED BY <1>1, <1>2, <2>1, UniqueNamesKeep, SMTT(30)
<1>4. ExposureVerdict(n, ask.mode, "published-routes", ask.domain, BindIps(ask)) = "ok"
  BY DEF InputVerdict
<1>5. /\ DOMAIN routes = 1..n
      /\ \A i \in 1..n : routes[i].id = labels[i] /\ routes[i].bindIp = ips[i]
  <2>1. names = [i \in 1..n |-> CanonicalLabel([k \in 1..n |-> Resolved(relays, Locations(ask)[k])][i])]
    OBVIOUS
  <2> HIDE DEF relays
  <2>2. PlannedRoutes(ask, relays) =
          [i \in 1..n |->
            [id |-> labels[i], requested |-> Locations(ask)[i],
             target |-> Resolved(relays, Locations(ask)[i]), bindIp |-> ips[i],
             hostname |-> DeriveHostname(labels[i], ips[i], ask.domain, ask.mode)]]
    BY <2>1 DEF PlannedRoutes
  <2> HIDE DEF labels, ips, n
  <2> QED BY <2>2
<1>6. ASSUME NEW i \in 1..n, NEW j \in 1..n, i # j, NEW base \in {ask.ports.socks, ask.ports.http}
      PROVE  <<ips[i], ComputePublishedPort(ask.mode, base, i - 1)>>
             # <<ips[j], ComputePublishedPort(ask.mode, base, j - 1)>>
  <2>1. base \in Nat BY AsksAssumption
  <2> HIDE DEF n
  <2> QED BY <1>1, <1>4, <1>6, <2>1, ListenersDiffer
<1> HIDE DEF n, labels, ips, routes
<1>7. Apart(routes, ask.mode, ask.ports) BY <1>3, <1>5, <1>6 DEF Apart
<1> QED BY <1>7 DEF routes

LEMMA PlannedEntry ==
  ASSUME NEW p \in Procs, NEW ask \in Asks[p], NEW relays, PlanVerdict(ask, relays) = "ok"
  PROVE  EntryCandidates(relays, PlannedRoutes(ask, relays)[1]) # {}
<1>1. 1 \in 1..Len(Locations(ask)) BY AsksAssumption DEF Locations
<1> DEFINE pref == PlannedRoutes(ask, relays)[1]
           t == Resolved(relays, Locations(ask)[1])
<1>2. pref.target = t BY <1>1 DEF PlannedRoutes
<1>3. Resolves(relays, Locations(ask)[1]) BY <1>1 DEF PlanVerdict
<1>4. PICK r \in relays : t \in {Country(r), City(r), Exact(r)} BY <1>3, ResolvedIsTarget
<1> HIDE DEF pref, t
<1>5. r \in InPlace(relays, pref)
  BY <1>2, <1>4 DEF InPlace, Country, City, Exact
<1> QED BY <1>5 DEF EntryCandidates, pref

\* What a setup holds past its relays, and what is saved, stands apart; and the
\* relay it enters by is among the relays it holds.
Chosen(p) ==
  /\ run[p].pc # "idle" => run[p].ask \in Asks[p] /\ InputVerdict(run[p].ask) = "ok"
  /\ run[p].pc \notin {"idle", "relays"} =>
       /\ Apart(run[p].routes, run[p].ask.mode, run[p].ask.ports)
       /\ EntryCandidates(run[p].relays, run[p].routes[1]) # {}
  /\ run[p].outcome # "plan"

RoutesInv ==
  /\ config # Nothing => Apart(config.routes, config.mode, config.ports)
  /\ \A p \in Procs : Chosen(p)

LEMMA InitRoutes == Init => RoutesInv
BY DEF Init, RoutesInv, Chosen, Idle

\* A step past the relays: p goes on with the routes it has, or ends.
LEMMA HeldRoutesKeep ==
  ASSUME RoutesInv, NEW p \in Procs, run[p].pc # "idle", Onward(p),
         \/ run'[p].pc = "idle"
         \/ /\ run[p].pc # "relays"
            /\ run'[p].ask = run[p].ask /\ run'[p].routes = run[p].routes
            /\ run'[p].relays = run[p].relays,
         run'[p].outcome # "plan",
         \/ config' = config
         \/ /\ run[p].pc # "relays" /\ config'.routes = run[p].routes
            /\ config'.mode = run[p].ask.mode /\ config'.ports = run[p].ask.ports
  PROVE  RoutesInv'
<1>1. Chosen(p)' BY DEF RoutesInv, Chosen
<1>2. \A q \in Procs \ {p} : Chosen(q)' BY DEF RoutesInv, Chosen, Onward
<1>3. config' # Nothing => Apart(config'.routes, config'.mode, config'.ports)
  BY DEF RoutesInv, Chosen
<1> QED BY <1>1, <1>2, <1>3 DEF RoutesInv

LEMMA StepRoutes ==
  ASSUME NumeralsDiffer, SetupInv, CostInv, RoutesInv, NEW p \in Procs, Step(p) \/ Register(p) \/ Crash(p)
  PROVE  RoutesInv'
<1>1. Shape /\ run[p].outcome # "plan" BY DEF SetupInv, RoutesInv, Chosen
<1>2. /\ Canonical(run[p]).routes = run[p].routes /\ Canonical(run[p]).mode = run[p].ask.mode
      /\ Canonical(run[p]).ports = run[p].ask.ports
      /\ \A phase : LET c == WithPhase(Canonical(run[p]), phase)
                    IN /\ c.routes = run[p].routes /\ c.mode = run[p].ask.mode
                       /\ c.ports = run[p].ask.ports
  BY DEF Canonical, WithPhase
<1> USE DEF At, Registered
<1>3. ASSUME run[p].pc # "idle", \E outcome : outcome # "plan" /\ End(p, outcome),
             \/ config' = config
             \/ /\ run[p].pc # "relays"
                /\ \E phase : config' = WithPhase(Canonical(run[p]), phase)
      PROVE  RoutesInv'
  BY <1>1, <1>2, <1>3, EndOnward, HeldRoutesKeep
<1>4. ASSUME run[p].pc \notin {"idle", "relays"}, \E pc : Go(p, pc),
             config' = config \/ config' = Canonical(run[p])
      PROVE  RoutesInv'
  <2>1. /\ Onward(p) /\ run'[p].ask = run[p].ask /\ run'[p].routes = run[p].routes
        /\ run'[p].relays = run[p].relays /\ run'[p].outcome = run[p].outcome
    BY <1>1, <1>4, GoOnward DEF Go, Shape, Fields
  <2> QED BY <1>1, <1>2, <1>4, <2>1, HeldRoutesKeep
<1>5. CASE FetchRelays(p)
  <2>1. PICK payload \in Payloads :
          LET relays == Normalized(payload)
          IN \/ \E outcome : outcome # "plan" /\ End(p, outcome)
             \/ /\ Supported(payload) /\ PlanVerdict(run[p].ask, relays) = "ok"
                /\ run' = [run EXCEPT ![p].relays = relays,
                                      ![p].routes = PlannedRoutes(run[p].ask, relays),
                                      ![p].pc = IF run[p].ask.source = Wireguard
                                                THEN "provision" ELSE "exits"]
    <3>1. \A ask, relays : PlanVerdict(ask, relays) # "plan" BY DEF PlanVerdict
    <3> QED BY <1>5, <3>1 DEF FetchRelays, Wireguard
  <2> DEFINE relays == Normalized(payload)
             routes == PlannedRoutes(run[p].ask, relays)
             pc == IF run[p].ask.source = Wireguard THEN "provision" ELSE "exits"
  <2>2. run[p].pc = "relays" /\ config' = config BY <1>5 DEF FetchRelays
  <2>3. CASE /\ Supported(payload) /\ PlanVerdict(run[p].ask, relays) = "ok"
             /\ run' = [run EXCEPT ![p].relays = relays, ![p].routes = routes, ![p].pc = pc]
    <3>1. run[p].ask \in Asks[p] /\ InputVerdict(run[p].ask) = "ok"
      BY <2>2 DEF RoutesInv, Chosen
    <3>2. /\ Apart(routes, run[p].ask.mode, run[p].ask.ports)
          /\ EntryCandidates(relays, routes[1]) # {}
      BY <2>3, <3>1, PlannedApart, PlannedEntry
    <3>3. pc \in {"provision", "exits"} OBVIOUS
    <3> HIDE DEF relays, routes, pc
    <3>4. /\ Onward(p) /\ run'[p].pc = pc /\ run'[p].ask = run[p].ask
          /\ run'[p].routes = routes /\ run'[p].relays = relays
          /\ run'[p].outcome = run[p].outcome
      BY <1>1, <2>3, RelaysOnward DEF Shape, Fields
    <3>5. Chosen(p)' BY <1>1, <3>1, <3>2, <3>3, <3>4 DEF Chosen
    <3>6. \A q \in Procs \ {p} : Chosen(q)' BY <3>4 DEF RoutesInv, Chosen, Onward
    <3> QED BY <2>2, <3>5, <3>6 DEF RoutesInv
  <2> QED BY <1>3, <2>1, <2>2, <2>3
<1>6. CASE FetchRelaysFails(p) \/ RefuseAccount(p) \/ AnswerRefused(p) \/ AnswerUnreadable(p)
           \/ Crash(p)
  BY <1>3, <1>6 DEF FetchRelaysFails, RefuseAccount, AnswerRefused, AnswerUnreadable, Crash
<1>7. CASE SendRequest(p)
  <2>1. /\ Onward(p) /\ run'[p].ask = run[p].ask /\ run'[p].routes = run[p].routes
        /\ run'[p].relays = run[p].relays /\ run'[p].outcome = run[p].outcome
    BY <1>1, <1>7 DEF SendRequest, Shape, Onward, Fields
  <2> QED BY <1>1, <1>7, <2>1, HeldRoutesKeep DEF SendRequest
<1>8. CASE AnswerDevice(p)
  <2>1. /\ Onward(p) /\ run'[p].ask = run[p].ask /\ run'[p].routes = run[p].routes
        /\ run'[p].relays = run[p].relays /\ run'[p].outcome = run[p].outcome
    BY <1>1, <1>8 DEF AnswerDevice, Shape, Onward, Fields
  <2> QED BY <1>1, <1>8, <2>1, HeldRoutesKeep DEF AnswerDevice
<1>9. CASE AnswerLost(p) \/ AnswerThrottled(p)
  <2>1. PICK outcome \in {"network", "refused"} : AgainOr(p, outcome)
    BY <1>9 DEF AnswerLost, AnswerThrottled
  <2>2. run[p].pc \in {"sent", "registered"} /\ config' = config
    BY <1>9 DEF AnswerLost, AnswerThrottled
  <2> DEFINE r == [run[p] EXCEPT !.lost = IF Registered(p) THEN @ + 1 ELSE @]
  <2>3. /\ DOMAIN r = Fields /\ r.ask = run[p].ask /\ r.routes = run[p].routes
        /\ r.relays = run[p].relays
    BY <1>1 DEF Shape, Fields
  <2>4. run' = [run EXCEPT ![p] = IF Retries(p) THEN [r EXCEPT !.pc = "provision"]
                                  ELSE Ended(r, outcome)]
    BY <2>1 DEF AgainOr
  <2>5. LET s == [r EXCEPT !.pc = "provision"]
        IN s.ask = r.ask /\ s.routes = r.routes /\ s.relays = r.relays
    BY <2>3 DEF Fields
  <2> HIDE DEF r
  <2>6. \/ run'[p].pc = "idle"
        \/ /\ run'[p].ask = run[p].ask /\ run'[p].routes = run[p].routes
           /\ run'[p].relays = run[p].relays
    BY <1>1, <2>3, <2>4, <2>5, IdleShape DEF Shape
  <2>7. Onward(p) /\ run'[p].outcome # "plan" BY <1>1, <2>1, AgainOnward
  <2> QED BY <2>2, <2>6, <2>7, HeldRoutesKeep
<1>10. CASE Register(p)
  BY <1>4, <1>10 DEF Register
<1>11. CASE ResolveExits(p)
  BY <1>3, <1>4, <1>11 DEF ResolveExits
<1>12. CASE SaveInitial(p)
  BY <1>3, <1>4, <1>12 DEF SaveInitial
<1>13. CASE Render(p)
  <2>1. RenderPlanned(run[p])
    <3>1. run[p].pc = "render" BY <1>13 DEF Render
    <3>2. /\ run[p].ask \in Asks[p] /\ EntryCandidates(run[p].relays, run[p].routes[1]) # {}
          /\ run[p].ask.source = Wireguard => run[p].device \in account
      BY <3>1 DEF RoutesInv, Chosen, SetupInv, Local
    <3>3. run[p].ask.source \in {Wireguard, "tailscale-exit"}
      BY <3>2, AsksAssumption DEF Wireguard
    <3>4. account \subseteq Keys BY DEF CostInv
    <3> QED BY <3>2, <3>3, <3>4, NothingAssumption DEF RenderPlanned, Canonical
  <2> QED BY <1>3, <1>4, <1>13, <2>1 DEF Render
<1>14. CASE Validate(p)
  BY <1>3, <1>14 DEF Validate
<1> QED BY <1>5, <1>6, <1>7, <1>8, <1>9, <1>10, <1>11, <1>12, <1>13, <1>14 DEF Step, Answer

LEMMA CollectRoutes ==
  ASSUME SetupInv, RoutesInv, NEW p \in Procs, CollectInputs(p)
  PROVE  RoutesInv'
<1>1. PICK ask \in Asks[p] :
        \/ InputVerdict(ask) = "ok" /\ run' = [run EXCEPT ![p] = [Begun(ask) EXCEPT !.pc = "relays"]]
        \/ \E outcome : outcome # "plan" /\ run' = [run EXCEPT ![p] = [Begun(ask) EXCEPT !.outcome = outcome]]
  <2>1. \A ask : InputVerdict(ask) # "plan"
    <3>1. \A ip : /\ AddressVerdict("public", ip) # "plan"
                   /\ AddressVerdict("private-network", ip) # "plan"
      BY DEF AddressVerdict, Unsafe
    <3>2. \A count, mode, domain, ips :
            ExposureVerdict(count, mode, "published-routes", domain, ips) # "plan"
      BY <3>1 DEF ExposureVerdict, SharedHost, SharedHostVerdict, PublicVerdict
    <3> QED BY <3>2 DEF InputVerdict
  <2> QED BY <2>1 DEF CollectInputs
<1>2. Shape /\ config' = config BY DEF CollectInputs, SetupInv
<1>3. /\ [Begun(ask) EXCEPT !.pc = "relays"].pc = "relays"
      /\ [Begun(ask) EXCEPT !.pc = "relays"].ask = ask
      /\ [Begun(ask) EXCEPT !.pc = "relays"].outcome = "none"
      /\ \A outcome : /\ [Begun(ask) EXCEPT !.outcome = outcome].pc = "idle"
                      /\ [Begun(ask) EXCEPT !.outcome = outcome].outcome = outcome
  <2> DEFINE begun == Begun(ask)
  <2>1. DOMAIN begun = Fields /\ begun.pc = "idle" /\ begun.ask = ask /\ begun.outcome = "none"
    BY DEF Begun, Idle, Fields
  <2> HIDE DEF begun
  <2>2. /\ [begun EXCEPT !.pc = "relays"].pc = "relays"
        /\ [begun EXCEPT !.pc = "relays"].ask = ask
        /\ [begun EXCEPT !.pc = "relays"].outcome = "none"
        /\ \A outcome : /\ [begun EXCEPT !.outcome = outcome].pc = "idle"
                        /\ [begun EXCEPT !.outcome = outcome].outcome = outcome
    BY <2>1 DEF Fields
  <2> QED BY <2>2 DEF begun
<1>4. /\ \A q \in Procs \ {p} : run'[q] = run[q]
      /\ \/ run'[p].pc = "relays" /\ run'[p].ask = ask /\ InputVerdict(ask) = "ok"
         \/ run'[p].pc = "idle"
      /\ run'[p].outcome # "plan"
  <2>1. PICK begun : /\ run' = [run EXCEPT ![p] = begun] /\ begun.outcome # "plan"
                     /\ \/ begun.pc = "relays" /\ begun.ask = ask /\ InputVerdict(ask) = "ok"
                        \/ begun.pc = "idle"
    <3> DEFINE asked == [Begun(ask) EXCEPT !.pc = "relays"]
               Told(outcome) == [Begun(ask) EXCEPT !.outcome = outcome]
    <3>1. /\ asked.pc = "relays" /\ asked.ask = ask /\ asked.outcome = "none"
          /\ \A outcome : Told(outcome).pc = "idle" /\ Told(outcome).outcome = outcome
      BY <1>3
    <3>2. \/ InputVerdict(ask) = "ok" /\ run' = [run EXCEPT ![p] = asked]
          \/ \E outcome : outcome # "plan" /\ run' = [run EXCEPT ![p] = Told(outcome)]
      BY <1>1
    <3> HIDE DEF asked, Told
    <3> QED BY <3>1, <3>2
  <2> QED BY <1>2, <2>1 DEF Shape
<1>5. Chosen(p)' BY <1>4 DEF Chosen
<1>6. \A q \in Procs \ {p} : Chosen(q)' BY <1>4 DEF RoutesInv, Chosen
<1> QED BY <1>2, <1>5, <1>6 DEF RoutesInv

LEMMA RoutesInvariant ==
  ASSUME NumeralsDiffer
  PROVE  Spec => []RoutesInv
<1>1. SetupInv /\ CostInv /\ RoutesInv /\ [Next]_vars => RoutesInv'
  <2> SUFFICES ASSUME SetupInv, CostInv, RoutesInv, [Next]_vars PROVE RoutesInv'
    OBVIOUS
  <2>1. CASE Next BY <2>1, StepRoutes, CollectRoutes DEF Next
  <2>2. CASE UNCHANGED vars BY <2>2 DEF vars, RoutesInv, Chosen
  <2> QED BY <2>1, <2>2
<1> QED BY <1>1, InitRoutes, SetupInvariant, CostInvariant, PTL DEF Spec

\* Two saved routes share neither an id nor a listener, whatever was asked for and
\* however the relays are called, as long as numbers are written differently.
THEOREM RoutesStandApart ==
  ASSUME NumeralsDiffer
  PROVE  Spec => []SavedRoutesStandApart
<1>1. RoutesInv => SavedRoutesStandApart BY DEF RoutesInv, Apart, SavedRoutesStandApart
<1> QED BY <1>1, RoutesInvariant, PTL

\* What setup accepted the renderer can plan: a location that resolved names a place
\* that has a relay, so the entry relay is found again, however ambiguous its label.
THEOREM AcceptedIsRenderable ==
  ASSUME NumeralsDiffer
  PROVE  Spec => []SavedCanBeRendered
<1>1. RoutesInv => SavedCanBeRendered BY DEF RoutesInv, Chosen, SavedCanBeRendered
<1> QED BY <1>1, RoutesInvariant, PTL
=============================================================================
