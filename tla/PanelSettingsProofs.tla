------------------------ MODULE PanelSettingsProofs ------------------------
(***************************************************************************)
(* Proofs about NetworkPolicy and PanelSettings, for all sets of           *)
(* resolvers, passwords, requests and exits, and any number of events.     *)
(***************************************************************************)
EXTENDS PanelSettings, TLAPS

-----------------------------------------------------------------------------
(* The three normalisations.                                               *)

(* What the API has normalised is a policy with every field in range.      *)
(* (normalizePolicyForAPI)                                                 *)
LEMMA ApiInRange ==
    ASSUME NEW p \in Policy
    PROVE  /\ ForApi(p) \in Policy
           /\ ForApi(p).mode \in Modes
           /\ ForApi(p).query \in QueryStrategies
           /\ ForApi(p).ipv6 \in IPv6Strategies
<1>. DEFINE q == ForApi(p)
<1>1. /\ p.publicDNS \in BOOLEAN /\ p.dns \in SUBSET Resolvers
      /\ p.blocks \in SUBSET Restrictions /\ p.quad9 \in SUBSET Formats
  BY DEF Policy
<1>2. q.mode \in Modes
  BY DEF ForApi, Modes
<1>3. q.publicDNS \in BOOLEAN
  BY <1>1 DEF ForApi
<1>4. q.dns \in SUBSET Resolvers
  BY PolicyAssumption DEF ForApi, CleanDNSServers
<1>5. q.query \in QueryStrategies
  BY DEF ForApi, QueryStrategies
<1>6. q.blocks \in SUBSET Restrictions
  BY <1>1 DEF ForApi
<1>7. q.ipv6 \in IPv6Strategies
  BY DEF ForApi, IPv6ForApi, IPv6Strategies
<1>8. q.quad9 \in SUBSET Formats
  BY <1>1 DEF ForApi
<1>9. q = [mode |-> q.mode, publicDNS |-> q.publicDNS, dns |-> q.dns,
           query |-> q.query, blocks |-> q.blocks, ipv6 |-> q.ipv6, quad9 |-> q.quad9]
  BY DEF ForApi
<1>. QED
  BY <1>2, <1>3, <1>4, <1>5, <1>6, <1>7, <1>8, <1>9 DEF Policy

(* Normalising again changes nothing but the choice on IPv6, and that only *)
(* where the request held an unknown one: the status page, a rollback and  *)
(* a second save see the policy that was saved.  (normalizePolicyForAPI)   *)
THEOREM ApiIsIdempotent ==
    ASSUME NEW p \in Policy
    PROVE  /\ ForApi(ForApi(p)) = [ForApi(p) EXCEPT !.ipv6 = ForApi(ForApi(p)).ipv6]
           /\ p.ipv6 # "odd" => ForApi(ForApi(p)) = ForApi(p)
<1>. DEFINE q == ForApi(p)
<1>1. q.mode \in Modes /\ q.query \in QueryStrategies /\ q.ipv6 \in IPv6Strategies
  BY ApiInRange
<1>2. ForApi(q).mode = q.mode
  BY <1>1 DEF ForApi
<1>3. ForApi(q).publicDNS = q.publicDNS
  BY <1>1 DEF ForApi
<1>4. ForApi(q).dns = q.dns
  <2>1. CASE q.mode = "compat"
    BY <2>1, <1>1 DEF ForApi
  <2>2. CASE q.mode # "compat"
    <3>1. q.dns = CleanDNSServers(p.dns, q.publicDNS)
      BY <2>2 DEF ForApi
    <3>2. ForApi(q).dns = CleanDNSServers(q.dns, ForApi(q).publicDNS)
      BY <2>2, <1>2 DEF ForApi
    <3>3. CleanDNSServers(q.dns, q.publicDNS) = q.dns
      BY <3>1, PolicyAssumption DEF CleanDNSServers
    <3>. QED
      BY <3>2, <3>3, <1>3
  <2>. QED
    BY <2>1, <2>2
<1>5. ForApi(q).query = q.query
  BY <1>1 DEF ForApi
<1>6. ForApi(q).blocks = q.blocks
  BY <1>1 DEF ForApi
<1>7. p.ipv6 # "odd" => ForApi(q).ipv6 = q.ipv6
  <2>1. SUFFICES ASSUME p.ipv6 # "odd"
                 PROVE  ForApi(q).ipv6 = q.ipv6
    OBVIOUS
  <2>2. p.ipv6 \in {"", "keep", "warn", "disable_hint"}
    BY <2>1 DEF Policy, IPv6Strategies
  <2>3. q.ipv6 = IPv6ForApi(q.mode, p.ipv6)
    BY DEF ForApi
  <2>4. ForApi(q).ipv6 = IPv6ForApi(q.mode, q.ipv6)
    BY <1>2 DEF ForApi
  <2>5. CASE q.mode = "dns_leak_guard"
    <3>1. q.ipv6 \in {"warn", "disable_hint"}
      BY <2>2, <2>3, <2>5 DEF IPv6ForApi, IPv6Strategies
    <3>. QED
      BY <2>4, <2>5, <3>1 DEF IPv6ForApi, IPv6Strategies
  <2>6. CASE q.mode = "strict"
    <3>1. q.ipv6 \in {"warn", "disable_hint"}
      BY <2>2, <2>3, <2>6 DEF IPv6ForApi, IPv6Strategies
    <3>. QED
      BY <2>4, <2>6, <3>1 DEF IPv6ForApi, IPv6Strategies
  <2>7. CASE q.mode \notin {"dns_leak_guard", "strict"}
    BY <1>1, <2>4, <2>7 DEF IPv6ForApi
  <2>. QED
    BY <2>5, <2>6, <2>7
<1>8. ForApi(q).quad9 = q.quad9
  BY <1>1 DEF ForApi
<1>9. q = [mode |-> q.mode, publicDNS |-> q.publicDNS, dns |-> q.dns,
           query |-> q.query, blocks |-> q.blocks, ipv6 |-> q.ipv6, quad9 |-> q.quad9]
  BY DEF ForApi
<1>10. ForApi(q) = [mode |-> q.mode, publicDNS |-> q.publicDNS, dns |-> q.dns,
                    query |-> q.query, blocks |-> q.blocks, ipv6 |-> ForApi(q).ipv6,
                    quad9 |-> q.quad9]
  BY <1>2, <1>3, <1>4, <1>5, <1>6, <1>8 DEF ForApi
<1>11. ForApi(q) = [q EXCEPT !.ipv6 = ForApi(q).ipv6]
  BY <1>9, <1>10
<1>12. p.ipv6 # "odd" => ForApi(q) = q
  BY <1>7, <1>9, <1>10
<1>. QED
  BY <1>11, <1>12

(* The store's own repair, run at every save and at every start, leaves a  *)
(* stored policy as it is.  (store.normalizeNetworkPolicy)                 *)
THEOREM StoreKeepsStored ==
    ASSUME NEW p, IsStored(p)
    PROVE  ForStore(p) = p
<1>1. CASE p = DefaultPolicy
  BY <1>1 DEF ForStore, DefaultPolicy, Modes, QueryStrategies, IPv6Strategies
<1>2. CASE /\ p \in Policy /\ p.ipv6 \in IPv6Strategies
           /\ ForApi(p) = [p EXCEPT !.ipv6 = ForApi(p).ipv6]
  <2>0. /\ ForApi(p).mode = p.mode /\ ForApi(p).publicDNS = p.publicDNS
        /\ ForApi(p).dns = p.dns /\ ForApi(p).query = p.query
        /\ ForApi(p).blocks = p.blocks /\ ForApi(p).quad9 = p.quad9
    BY <1>2 DEF Policy
  <2>1. /\ p.mode \in Modes
        /\ p.query \in QueryStrategies
        /\ p.ipv6 \in IPv6Strategies
    BY <1>2, <2>0, ApiInRange
  <2>2. ~(p.publicDNS /\ p.dns = {})
    <3>1. SUFFICES ASSUME p.publicDNS, p.dns = {}
                   PROVE  FALSE
      OBVIOUS
    <3>2. ForApi(p).dns \in {DefaultResolvers, CleanDNSServers(p.dns, TRUE)}
      BY <3>1 DEF ForApi
    <3>3. ForApi(p).dns # {}
      BY <3>2, PolicyAssumption DEF CleanDNSServers
    <3>. QED
      BY <3>1, <3>3, <2>0
  <2>3. p.mode # ""
    BY <2>1 DEF Modes
  <2>4. p = [mode |-> p.mode, publicDNS |-> p.publicDNS, dns |-> p.dns,
             query |-> p.query, blocks |-> p.blocks, ipv6 |-> p.ipv6,
             quad9 |-> p.quad9]
    BY <1>2 DEF Policy
  <2>. QED
    BY <2>1, <2>2, <2>3, <2>4 DEF ForStore
<1>. QED
  BY <1>1, <1>2 DEF IsStored

(* A request, whatever it holds, is stored in a form the store keeps.      *)
LEMMA ApiIsStored ==
    ASSUME NEW p \in Policy
    PROVE  ForApi(p) \in StoredPolicy
BY ApiInRange, ApiIsIdempotent DEF IsStored, StoredPolicy

LEMMA StoredIsPolicy ==
    ASSUME NEW p, IsStored(p)
    PROVE  p \in Policy
<1>1. DefaultPolicy \in Policy
  <2>1. "compat" \in Modes \cup {"", "odd"}
    BY DEF Modes
  <2>2. "AsIs" \in QueryStrategies \cup {"", "odd"}
    BY DEF QueryStrategies
  <2>3. "keep" \in IPv6Strategies \cup {"", "odd"}
    BY DEF IPv6Strategies
  <2>. QED
    BY <2>1, <2>2, <2>3 DEF DefaultPolicy, Policy
<1>. QED
  BY <1>1 DEF IsStored

(* The generator's normalisation and the API's agree on every policy the   *)
(* store can hold.  (normalizePolicyForAPI, xray.normalizeNetworkPolicy)   *)
LEMMA PreviewIsServed ==
    ASSUME NEW p, IsStored(p)
    PROVE  Preview(ForApi(p)) = XrayConfig(p)
<1>1. CASE p = DefaultPolicy
  BY <1>1 DEF Preview, XrayConfig, ForXray, ForApi, DefaultPolicy, Modes
<1>2. CASE /\ p \in Policy /\ p.ipv6 \in IPv6Strategies
           /\ ForApi(p) = [p EXCEPT !.ipv6 = ForApi(p).ipv6]
  <2>0. /\ ForApi(p).mode = p.mode /\ ForApi(p).publicDNS = p.publicDNS
        /\ ForApi(p).dns = p.dns /\ ForApi(p).query = p.query
        /\ ForApi(p).blocks = p.blocks /\ ForApi(p).quad9 = p.quad9
    BY <1>2 DEF Policy
  <2>1. p.mode \in Modes /\ p.query \in QueryStrategies
    BY <1>2, <2>0, ApiInRange
  <2>2. XrayConfig(p).dns = p.dns
    <3>1. p.mode = "compat" => p.dns = DefaultResolvers
      BY <2>0, <2>1 DEF ForApi
    <3>2. (p.mode # "custom" \/ p.publicDNS) => p.dns # {}
      <4>1. SUFFICES ASSUME p.mode # "custom" \/ p.publicDNS
                     PROVE  p.dns # {}
        OBVIOUS
      <4>2. ForApi(p).dns \in {DefaultResolvers, CleanDNSServers(p.dns, TRUE)}
        BY <4>1, <2>1 DEF ForApi
      <4>. QED
        BY <4>2, <2>0, PolicyAssumption DEF CleanDNSServers
    <3>. QED
      BY <3>1, <3>2, <2>1, <1>2 DEF XrayConfig, ForXray, Policy
  <2>3. XrayConfig(p).query = p.query
    <3>1. p.mode # "custom" => p.query = "UseIPv4"
      BY <2>0, <2>1 DEF ForApi
    <3>. QED
      BY <3>1, <2>1, <1>2 DEF XrayConfig, ForXray, Policy, QueryStrategies
  <2>4. XrayConfig(p).blocks = p.blocks
    <3>1. p.mode = "strict" => p.blocks = Restrictions
      BY <2>0, <2>1 DEF ForApi
    <3>2. p.mode \notin {"strict", "custom"} => p.blocks = {}
      BY <2>0, <2>1 DEF ForApi
    <3>. QED
      BY <3>1, <3>2, <2>1, <1>2 DEF XrayConfig, ForXray, Policy
  <2>. QED
    BY <2>0, <2>2, <2>3, <2>4 DEF Preview, XrayConfig
<1>. QED
  BY <1>1, <1>2 DEF IsStored

(* All readers of a policy agree, for every policy the store can hold: the *)
(* configuration of Xray is what the status page previews; the             *)
(* subscriptions are the same whether they read the stored policy or the   *)
(* normalised one; the system checks warn just when Xray is told to block  *)
(* something; and the diagnosis names the resolvers Xray is given, but for *)
(* a policy nobody ever saved.  (networkPolicyStatus, applyNetworkPolicy,  *)
(* dnsConfigFromPolicy, buildClashMetaSubscription, xrayDNSPolicyMessage)  *)
THEOREM ReadersAgree ==
    ASSUME NEW p, IsStored(p)
    PROVE  /\ Preview(ForApi(p)) = XrayConfig(p)
           /\ \A f \in Formats :
                 SubscriptionAddsQuad9(p, f) <=> SubscriptionAddsQuad9(ForApi(p), f)
           /\ ChecksWarn(p) <=> XrayConfig(p).blocks \cap {"fallback", "dns53", "quic"} # {}
           /\ p # DefaultPolicy => DiagnosedResolvers(p) = XrayConfig(p).dns
<1>1. Preview(ForApi(p)) = XrayConfig(p)
  BY PreviewIsServed
<1>2. ForApi(p).dns = XrayConfig(p).dns /\ ForApi(p).blocks = XrayConfig(p).blocks
  BY <1>1 DEF Preview
<1>3. CASE p = DefaultPolicy
  <2>1. ForApi(p).quad9 = p.quad9 /\ ForApi(p).blocks = p.blocks
    BY <1>3 DEF ForApi, DefaultPolicy, Modes
  <2>. QED
    BY <1>1, <1>2, <1>3, <2>1 DEF SubscriptionAddsQuad9, ChecksWarn
<1>4. CASE p # DefaultPolicy
  <2>1. p \in Policy /\ ForApi(p) = [p EXCEPT !.ipv6 = ForApi(p).ipv6]
    BY <1>4 DEF IsStored
  <2>2. /\ ForApi(p).quad9 = p.quad9 /\ ForApi(p).dns = p.dns
        /\ ForApi(p).blocks = p.blocks
    BY <2>1 DEF Policy
  <2>. QED
    BY <1>1, <1>2, <2>2 DEF SubscriptionAddsQuad9, ChecksWarn, DiagnosedResolvers
<1>. QED
  BY <1>3, <1>4

-----------------------------------------------------------------------------
(* Types of the state.                                                     *)

LEMMA NormalizedKeeps ==
    ASSUME NEW d \in Data
    PROVE  Normalized(d) = d
<1>1. ForStore(d.policy) = d.policy /\ ForStore(d.backup) = d.backup
  BY StoreKeepsStored DEF Data, StoredPolicy
<1>. QED
  BY <1>1 DEF Normalized, Data

LEMMA SeedIsData == Seed \in Data
<1>1. DefaultPolicy \in StoredPolicy
  BY StoredIsPolicy DEF StoredPolicy, IsStored
<1>2. NoExits \in UNION {[ids -> Exit] : ids \in SUBSET Exits}
  <2>1. NoExits \in [{} -> Exit]
    BY DEF NoExits
  <2>. QED
    BY <2>1
<1>. QED
  BY <1>1, <1>2, SettingsAssumption DEF Seed, Data

(* A handler that leaves data of the right type in memory leaves the rest  *)
(* so too.  (SaveLocked)                                                   *)
LEMMA BeginSaveTypes ==
    ASSUME TypeOK, Serving,
           NEW data \in Data, NEW promise \in Promise, NEW logs \in BOOLEAN,
           BeginSave(data, promise, logs)
    PROVE  /\ mem' = data
           /\ saving' \in SaveUnderWay
           /\ reset' \in [step : ResetSteps, at : Handles, copy : Data \cup {None},
                          met : BOOLEAN]
           /\ reset'.step = reset.step /\ reset'.copy = reset.copy
           /\ promised' \in Promise
           /\ file' = file /\ tmp' = tmp
<1>1. mem' = data
  BY NormalizedKeeps DEF BeginSave
<1>2. saving' \in SaveUnderWay
  BY DEF BeginSave, SaveUnderWay, Handles, Resetting
<1>3. /\ reset' \in [step : ResetSteps, at : Handles, copy : Data \cup {None}, met : BOOLEAN]
      /\ reset'.step = reset.step /\ reset'.copy = reset.copy
  BY DEF BeginSave, TypeOK, Resetting
<1>4. promised' \in Promise
  <2>1. DOMAIN promised = {"password", "policy", "backup"}
    BY DEF TypeOK, Promise
  <2>2. promised' = [password |-> promised'.password, policy |-> promised'.policy,
                     backup |-> promised'.backup]
    BY <2>1 DEF BeginSave
  <2>3. /\ promised'.password \in {{Unsure}, promised.password \cup promise.password}
        /\ promised'.policy \in {{Unsure}, promised.policy \cup promise.policy}
        /\ promised'.backup \in {{Unsure}, promised.backup \cup promise.backup}
    BY <2>1 DEF BeginSave
  <2>4. /\ promised'.password \in SUBSET (Passwords \cup {Generated, Unsure})
        /\ promised'.policy \in SUBSET (Policy \cup {Unsure})
        /\ promised'.backup \in SUBSET (Policy \cup {Unsure})
    BY <2>3 DEF TypeOK, Promise
  <2>. QED
    BY <2>2, <2>4 DEF Promise
<1>. QED
  BY <1>1, <1>2, <1>3, <1>4 DEF BeginSave

LEMMA HandlerTypes ==
    ASSUME TypeOK, Serving,
           NEW data \in Data, NEW promise \in Promise, NEW logs \in BOOLEAN,
           BeginSave(data, promise, logs),
           toLog' \in Nat, tests' \subseteq [id : Exits, copy : Exit],
           born' \subseteq Exits, events' \in 0 .. MaxEvents
    PROVE  TypeOK'
BY BeginSaveTypes, ConstantsDiffer DEF TypeOK

LEMMA CountTypes ==
    ASSUME TypeOK, Count
    PROVE  events' \in 0 .. MaxEvents
BY SettingsAssumption DEF TypeOK, Count

LEMMA StoredPolicies ==
    ASSUME NEW d \in Data
    PROVE  d.policy \in Policy /\ d.backup \in Policy
BY DEF Data, StoredPolicy

(* Every setting in memory, on disk, in the temporary file and in the      *)
(* command's copy is of its type, and the policies are in the form the     *)
(* store keeps.  (SaveLocked, Open and every handler above)                *)
THEOREM SettingsTypes == Spec => []TypeOK
<1>1. Init => TypeOK
  <2>1. SUFFICES ASSUME Init PROVE TypeOK
    OBVIOUS
  <2>2. promised \in Promise
    BY <2>1, StoredIsPolicy, SettingsAssumption DEF Init, Promise, IsStored
  <2>. QED
    BY <2>1, <2>2, SeedIsData, SettingsAssumption DEF Init, TypeOK, ResetSteps, Handles
<1>2. TypeOK /\ [Next]_vars => TypeOK'
  <2>1. SUFFICES ASSUME TypeOK, [Next]_vars PROVE TypeOK'
    OBVIOUS
  <2>. USE <2>1
  <2>2. ASSUME SaveStep PROVE TypeOK'
    <3>1. CASE OpenTmp
      BY <3>1, ConstantsDiffer DEF OpenTmp, TypeOK, Locked, SaveUnderWay, Handles
    <3>2. CASE WritePart
      BY <3>2 DEF WritePart, WriteAt, TypeOK
    <3>3. CASE WriteTmp
      <4>1. Written(mem, saving.met) \subseteq Data \cup {Torn}
        BY <3>3 DEF WriteTmp, Written, Locked, TypeOK
      <4>2. tmp' \in Data \cup {None, Empty, Torn} /\ file' \in Data \cup {Empty, Torn}
        BY <3>3, <4>1 DEF WriteTmp, WriteAt, TypeOK
      <4>3. saving' \in SaveUnderWay
        BY <3>3 DEF WriteTmp, TypeOK, Locked, SaveUnderWay
      <4>. QED
        BY <3>3, <4>2, <4>3, ConstantsDiffer DEF WriteTmp, TypeOK, Locked
    <3>4. CASE RenameTmp
      <4>1. saving' \in SaveUnderWay
        BY <3>4 DEF RenameTmp, TypeOK, Locked, SaveUnderWay
      <4>2. /\ reset' \in [step : ResetSteps, at : Handles, copy : Data \cup {None}, met : BOOLEAN]
            /\ reset'.step = reset.step /\ reset'.copy = reset.copy
        BY <3>4 DEF RenameTmp, TypeOK, AfterRename, Handles
      <4>. QED
        BY <3>4, <4>1, <4>2, ConstantsDiffer DEF RenameTmp, TypeOK, Locked
    <3>5. CASE Answer
      <4>1. promised' \in Promise
        BY <3>5 DEF Answer, TypeOK, Locked, SaveUnderWay
      <4>. QED
        BY <3>5, <4>1 DEF Answer, TypeOK
    <3>6. CASE SaveFails
      BY <3>6 DEF SaveFails, TypeOK
    <3>. QED
      BY <2>2, <3>1, <3>2, <3>3, <3>4, <3>5, <3>6 DEF SaveStep
  <2>3. ASSUME SettingRequest PROVE TypeOK'
    <3>1. ASSUME NEW q \in Passwords, ChangePassword(q) PROVE TypeOK'
      <4>1. mem \in Data
        BY <3>1 DEF ChangePassword, Serving, TypeOK
      <4>2. [mem EXCEPT !.password = q] \in Data
        BY <4>1 DEF Data
      <4>3. [promised EXCEPT !.password = {q}] \in Promise
        BY DEF TypeOK, Promise
      <4>4. events' \in 0 .. MaxEvents
        BY <3>1, CountTypes DEF ChangePassword
      <4>. QED
        BY <3>1, <4>2, <4>3, <4>4, HandlerTypes DEF ChangePassword, TypeOK
    <3>2. CASE LogPasswordChange
      <4>1. mem \in Data /\ toLog' \in Nat
        BY <3>2 DEF LogPasswordChange, Serving, TypeOK
      <4>. QED
        BY <3>2, <4>1, HandlerTypes DEF LogPasswordChange, TypeOK
    <3>3. ASSUME NEW q \in Requested, SavePolicy(q) PROVE TypeOK'
      <4>1. mem \in Data /\ q \in Policy
        BY <3>3, SettingsAssumption DEF SavePolicy, Serving, TypeOK
      <4>2. ForApi(q) \in StoredPolicy /\ ForApi(mem.policy) \in StoredPolicy
        BY <4>1, ApiIsStored, StoredPolicies
      <4>3. [mem EXCEPT !.policy = ForApi(q), !.backup = ForApi(mem.policy)] \in Data
        BY <4>1, <4>2 DEF Data
      <4>4. [promised EXCEPT !.policy = {ForApi(q)}, !.backup = promised.policy] \in Promise
        BY <4>2 DEF TypeOK, Promise, StoredPolicy
      <4>5. events' \in 0 .. MaxEvents
        BY <3>3, CountTypes DEF SavePolicy
      <4>. QED
        BY <3>3, <4>3, <4>4, <4>5, HandlerTypes DEF SavePolicy, TypeOK
    <3>4. CASE RollbackPolicy
      <4>1. mem \in Data
        BY <3>4 DEF RollbackPolicy, Serving, TypeOK
      <4>2. ForApi(mem.backup) \in StoredPolicy /\ ForApi(mem.policy) \in StoredPolicy
        BY <4>1, ApiIsStored, StoredPolicies
      <4>3. [mem EXCEPT !.policy = ForApi(mem.backup), !.backup = ForApi(mem.policy)] \in Data
        BY <4>1, <4>2 DEF Data
      <4>4. [promised EXCEPT !.policy = promised.backup, !.backup = promised.policy] \in Promise
        BY DEF TypeOK, Promise
      <4>5. events' \in 0 .. MaxEvents
        BY <3>4, CountTypes DEF RollbackPolicy
      <4>. QED
        BY <3>4, <4>3, <4>4, <4>5, HandlerTypes DEF RollbackPolicy, TypeOK
    <3>. QED
      BY <2>3, <3>1, <3>2, <3>3, <3>4 DEF SettingRequest
  <2>4. ASSUME ExitRequest PROVE TypeOK'
    <3>. DEFINE Records == UNION {[ids -> Exit] : ids \in SUBSET Exits}
    <3>0. ASSUME NEW exits \in Records, Serving, SaveExits(exits),
                 toLog' = toLog, tests' \subseteq tests, born' \subseteq Exits,
                 events' \in 0 .. MaxEvents
          PROVE  TypeOK'
      <4>1. [mem EXCEPT !.exits = exits] \in Data
        BY <3>0 DEF Serving, TypeOK, Data
      <4>2. tests' \subseteq [id : Exits, copy : Exit] /\ toLog' \in Nat
        BY <3>0 DEF TypeOK
      <4>3. promised \in Promise
        BY DEF TypeOK
      <4>. QED
        BY <3>0, <4>1, <4>2, <4>3, HandlerTypes DEF SaveExits
    <3>00. ASSUME Serving
           PROVE  /\ mem.exits \in Records /\ DOMAIN mem.exits \subseteq Exits
                  /\ \A x \in DOMAIN mem.exits : mem.exits[x] \in Exit
      BY <3>00 DEF Serving, TypeOK, Data
    <3>. HIDE DEF Records
    <3>1. ASSUME NEW ids \in SUBSET Exits, NEW new \in [ids -> Routes], CreateExits(new)
          PROVE  TypeOK'
      <4>. DEFINE added == [x \in DOMAIN new |->
                    [route |-> new[x], verdict |-> "untested", tested |-> None,
                     earned |-> FALSE, kept |-> FALSE]]
                  result == Put(added, mem.exits)
      <4>1. Serving
        BY <3>1 DEF CreateExits
      <4>2. \A x \in DOMAIN added : added[x] \in Exit
        BY DEF Exit
      <4>3. result \in [(DOMAIN added \cup DOMAIN mem.exits) -> Exit]
        BY <4>1, <4>2, <3>00 DEF Put
      <4>4. DOMAIN added \cup DOMAIN mem.exits \in SUBSET Exits
        BY <4>1, <3>00
      <4>5. result \in Records
        BY <4>3, <4>4 DEF Records
      <4>6. SaveExits(result) /\ toLog' = toLog /\ tests' = tests /\ born' \subseteq Exits
        BY <3>1 DEF CreateExits, TypeOK
      <4>7. events' \in 0 .. MaxEvents
        BY <3>1, CountTypes DEF CreateExits
      <4>. HIDE DEF result
      <4>. QED
        BY <4>1, <4>5, <4>6, <4>7, <3>0
    <3>2. ASSUME NEW x \in Exits, DeleteExit(x) PROVE TypeOK'
      <4>. DEFINE result == [y \in DOMAIN mem.exits \ {x} |-> mem.exits[y]]
      <4>1. Serving
        BY <3>2 DEF DeleteExit
      <4>2. result \in [(DOMAIN mem.exits \ {x}) -> Exit]
        BY <4>1, <3>00
      <4>3. result \in Records
        BY <4>1, <4>2, <3>00 DEF Records
      <4>4. events' \in 0 .. MaxEvents
        BY <3>2, CountTypes DEF DeleteExit
      <4>5. SaveExits(result) /\ toLog' = toLog /\ tests' = tests /\ born' \subseteq Exits
        BY <3>2 DEF DeleteExit, TypeOK
      <4>. HIDE DEF result
      <4>. QED
        BY <4>1, <4>3, <4>4, <4>5, <3>0
    <3>3. ASSUME NEW x \in Exits, StartTest(x) PROVE TypeOK'
      <4>1. mem.exits[x] \in Exit
        BY <3>3, <3>00 DEF StartTest
      <4>2. tests' \subseteq [id : Exits, copy : Exit]
        BY <3>3, <4>1 DEF StartTest, TypeOK
      <4>3. events' \in 0 .. MaxEvents
        BY <3>3, CountTypes DEF StartTest
      <4>. QED
        BY <3>3, <4>2, <4>3 DEF StartTest, TypeOK
    <3>4. ASSUME NEW x \in Exits, NEW route \in Routes, UpdateExit(x, route) PROVE TypeOK'
      <4>. DEFINE result == [mem.exits EXCEPT ![x].route = route,
                                   ![x].kept = @ \/ route # mem.exits[x].route]
      <4>1. Serving /\ x \in DOMAIN mem.exits
        BY <3>4 DEF UpdateExit
      <4>2. result \in [DOMAIN mem.exits -> Exit]
        BY <4>1, <3>00 DEF Exit
      <4>3. result \in Records
        BY <4>1, <4>2, <3>00 DEF Records
      <4>4. events' \in 0 .. MaxEvents
        BY <3>4, CountTypes DEF UpdateExit
      <4>5. SaveExits(result) /\ toLog' = toLog /\ tests' = tests /\ born' \subseteq Exits
        BY <3>4 DEF UpdateExit, TypeOK
      <4>. HIDE DEF result
      <4>. QED
        BY <4>1, <4>3, <4>4, <4>5, <3>0
    <3>5. ASSUME NEW t \in tests, FinishTest(t) PROVE TypeOK'
      <4>1. PICK o \in Outcomes : SaveExits(Put([x \in {t.id} |-> Tested(t.copy, o)], mem.exits))
        BY <3>5 DEF FinishTest
      <4>. DEFINE result == Put([x \in {t.id} |-> Tested(t.copy, o)], mem.exits)
      <4>2. Serving /\ t.id \in Exits /\ t.copy \in Exit
        BY <3>5 DEF FinishTest, TypeOK
      <4>3. o.earned \in BOOLEAN
        BY DEF Outcomes
      <4>4. Tested(t.copy, o) \in Exit
        BY <4>2, <4>3 DEF Tested, Exit
      <4>5. result \in [({t.id} \cup DOMAIN mem.exits) -> Exit]
        BY <4>2, <4>4, <3>00 DEF Put
      <4>6. result \in Records
        BY <4>2, <4>5, <3>00 DEF Records
      <4>7. toLog' = toLog /\ tests' \subseteq tests /\ born' \subseteq Exits
            /\ events' \in 0 .. MaxEvents
        BY <3>5 DEF FinishTest, TypeOK
      <4>8. SaveExits(result)
        BY <4>1
      <4>. HIDE DEF result
      <4>. QED
        BY <4>2, <4>6, <4>7, <4>8, <3>0
    <3>. QED
      BY <2>4, <3>1, <3>2, <3>3, <3>4, <3>5 DEF ExitRequest
  <2>5. ASSUME ResetStep PROVE TypeOK'
    <3>1. CASE ResetReads
      <4>1. file \in Data
        BY <3>1 DEF ResetReads, Readable, TypeOK
      <4>2. [file EXCEPT !.password = Generated] \in Data
        BY <4>1 DEF Data
      <4>3. reset' \in [step : ResetSteps, at : Handles, copy : Data \cup {None}, met : BOOLEAN]
            /\ reset'.copy # None
        BY <3>1, <4>2, ConstantsDiffer DEF ResetReads, ResetSteps, Handles, Locked
      <4>4. saving' \in SaveUnderWay \cup {None} /\ (saving' # None => saving # None)
        BY <3>1 DEF ResetReads, Locked, TypeOK, SaveUnderWay
      <4>5. promised' \in Promise
        BY <3>1 DEF ResetReads, TypeOK, AllUnsure, Promise
      <4>6. events' \in 0 .. MaxEvents
        BY <3>1, CountTypes DEF ResetReads
      <4>. QED
        BY <3>1, <4>3, <4>4, <4>5, <4>6 DEF ResetReads, TypeOK
    <3>2. CASE ResetOpens
      BY <3>2 DEF ResetOpens, TypeOK, ResetSteps, Handles
    <3>3. CASE ResetWritesPart
      BY <3>3 DEF ResetWritesPart, WriteAt, TypeOK
    <3>4. CASE ResetWrites
      <4>1. Written(reset.copy, reset.met) \subseteq Data \cup {Torn}
        BY <3>4 DEF ResetWrites, Written, TypeOK
      <4>2. tmp' \in Data \cup {None, Empty, Torn} /\ file' \in Data \cup {Empty, Torn}
        BY <3>4, <4>1 DEF ResetWrites, WriteAt, TypeOK
      <4>. QED
        BY <3>4, <4>2 DEF ResetWrites, TypeOK, ResetSteps
    <3>5. CASE ResetReplaces
      <4>1. saving' \in SaveUnderWay \cup {None} /\ (saving' # None => saving # None)
        BY <3>5 DEF ResetReplaces, Locked, TypeOK, SaveUnderWay, AfterRename, Handles
      <4>2. promised' \in Promise
        BY <3>5 DEF ResetReplaces, TypeOK, Promise
      <4>. QED
        BY <3>5, <4>1, <4>2 DEF ResetReplaces, TypeOK, ResetSteps
    <3>6. CASE ResetRestarts
      <4>1. promised' \in Promise
        BY <3>6 DEF ResetRestarts, TypeOK, Promise
      <4>. QED
        BY <3>6, <4>1 DEF ResetRestarts, Stopped, TypeOK, ResetSteps, Handles
    <3>7. CASE ResetAnnounces
      BY <3>7 DEF ResetAnnounces, TypeOK, ResetSteps
    <3>8. CASE ResetFails
      BY <3>8 DEF ResetFails, Stop, TypeOK, ResetSteps, Handles
    <3>9. CASE ResetKilled
      <4>1. events' \in 0 .. MaxEvents
        BY <3>9, CountTypes DEF ResetKilled
      <4>. QED
        BY <3>9, <4>1 DEF ResetKilled, Stop, TypeOK, ResetSteps, Handles
    <3>. QED
      BY <2>5, <3>1, <3>2, <3>3, <3>4, <3>5, <3>6, <3>7, <3>8, <3>9 DEF ResetStep
  <2>6. CASE PanelDies
    <3>1. events' \in 0 .. MaxEvents
      BY <2>6, CountTypes DEF PanelDies
    <3>. QED
      BY <2>6, <3>1 DEF PanelDies, Stopped, TypeOK
  <2>7. CASE StartPanel
    <3>1. mem' \in Data
      BY <2>7, NormalizedKeeps, SeedIsData DEF StartPanel, TypeOK
    <3>2. CASE UNCHANGED <<saving, reset, promised>>
      BY <2>7, <3>1, <3>2, ConstantsDiffer DEF StartPanel, TypeOK
    <3>3. CASE ~UNCHANGED <<saving, reset, promised>>
      <4>0. saving' = [step |-> "open", at |-> "gone", met |-> Resetting,
                       logs |-> FALSE, starting |-> TRUE, promise |-> promised]
        BY <2>7, <3>3 DEF StartPanel
      <4>1. saving' \in SaveUnderWay
        BY <4>0 DEF TypeOK, SaveUnderWay, Handles, Resetting
      <4>2. /\ reset' \in [step : ResetSteps, at : Handles, copy : Data \cup {None}, met : BOOLEAN]
            /\ reset'.step = reset.step /\ reset'.copy = reset.copy
        BY <2>7, <3>3 DEF StartPanel, TypeOK, Resetting
      <4>3. promised' \in Promise
        BY <2>7, <3>3 DEF StartPanel, TypeOK, AllUnsure, Promise
      <4>. QED
        BY <2>7, <3>1, <4>1, <4>2, <4>3, ConstantsDiffer DEF StartPanel, TypeOK
    <3>. QED
      BY <3>2, <3>3
  <2>8. CASE OtherSave
    <3>1. mem \in Data /\ promised \in Promise
      BY <2>8 DEF OtherSave, Serving, TypeOK
    <3>. QED
      BY <2>8, <3>1, HandlerTypes DEF OtherSave, TypeOK
  <2>9. CASE UNCHANGED vars
    BY <2>9 DEF vars, TypeOK
  <2>. QED
    BY <2>1, <2>2, <2>3, <2>4, <2>5, <2>6, <2>7, <2>8, <2>9 DEF Next
<1>. QED
  BY <1>1, <1>2, PTL DEF Spec

(* What the administrator is shown of the network policy is what Xray is   *)
(* told, in every reachable state.                                         *)
THEOREM ShownAsServed == Spec => []ShownIsServed
<1>1. TypeOK => ShownIsServed
  <2>1. ASSUME TypeOK, mem # None PROVE IsStored(mem.policy)
    BY <2>1 DEF TypeOK, Data, StoredPolicy
  <2>. QED
    BY <2>1, ReadersAgree DEF ShownIsServed
<1>. QED
  BY <1>1, SettingsTypes, PTL

-----------------------------------------------------------------------------
(* What is promised is kept, through every step of a save and of the       *)
(* command.                                                                *)

\* These settings are among the ones acknowledged or tried.
Keeps(d, promise) ==
    /\ Unsure \notin promise.password => Readable(d) /\ d.password \in promise.password
    /\ Unsure \notin promise.policy =>
          Readable(d) /\ \E q \in promise.policy : ForApi(d.policy) = ForApi(q)
    /\ Unsure \notin promise.backup =>
          Readable(d) /\ \E q \in promise.backup : ForApi(d.backup) = ForApi(q)

\* A save and the command that overlapped know it, and nothing is promised
\* until a save that met nobody is answered.
Meetings ==
    /\ reset.step = "idle" => ~reset.met
    /\ Locked /\ Resetting => saving.met
    /\ Locked /\ saving.met => reset.met /\ promised = AllUnsure
    /\ Resetting /\ reset.met => promised = AllUnsure

\* A save that met nobody has the temporary file for itself.
SaveFits ==
    Locked /\ ~saving.met =>
        /\ saving.step = "write" => saving.at = "tmp"
        /\ saving.step = "rename" => tmp = mem
        /\ saving.step = "answer" => file = mem
        /\ Keeps(mem, saving.promise)
        /\ \A s \in DOMAIN promised : saving.promise[s] \subseteq promised[s]

\* So has the command, and the file stays the one it read.
ResetFits ==
    Resetting /\ ~reset.met =>
        /\ reset.step \in {"read", "write", "replace"} =>
              reset.copy = [file EXCEPT !.password = Generated]
        /\ reset.step = "write" => reset.at = "tmp"
        /\ reset.step = "replace" => tmp = reset.copy
        /\ reset.step = "restart" =>
              file.password = Generated /\ Generated \in promised.password

Kept ==
    /\ Keeps(file, promised)
    /\ Serving => Keeps(mem, promised)
    /\ ~reset.met => Readable(file)

SettingsInv == Meetings /\ SaveFits /\ ResetFits /\ Kept

LEMMA DataReadable ==
    ASSUME NEW d \in Data
    PROVE  Readable(d)
BY ConstantsDiffer DEF Readable

LEMMA NothingPromised ==
    ASSUME NEW d
    PROVE  Keeps(d, AllUnsure)
BY DEF Keeps, AllUnsure

\* A promise that allows more binds less.
LEMMA KeepsLess ==
    ASSUME NEW d, NEW more, NEW less, Keeps(d, more),
           more.password \subseteq less.password,
           more.policy \subseteq less.policy,
           more.backup \subseteq less.backup
    PROVE  Keeps(d, less)
BY DEF Keeps

\* The same settings keep the same promise.
LEMMA KeepsSame ==
    ASSUME NEW d, NEW e \in Data, NEW promise, Keeps(d, promise),
           e.password = d.password, e.policy = d.policy, e.backup = d.backup
    PROVE  Keeps(e, promise)
BY DataReadable DEF Keeps

LEMMA PromiseFields ==
    ASSUME TypeOK
    PROVE  /\ DOMAIN promised = {"password", "policy", "backup"}
           /\ promised = [password |-> promised.password, policy |-> promised.policy,
                          backup |-> promised.backup]
BY DEF TypeOK, Promise

\* A policy the store holds is stable under the API's normalisation, once applied.
LEMMA StoredTwice ==
    ASSUME NEW p \in StoredPolicy
    PROVE  ForApi(ForApi(p)) = ForApi(p)
<1>1. p \in Policy /\ p.ipv6 # "odd"
  BY StoredIsPolicy DEF StoredPolicy, IsStored, DefaultPolicy, IPv6Strategies
<1>. QED
  BY <1>1, ApiIsIdempotent

(* A handler that leaves in memory what it is going to promise begins a    *)
(* save that fits.  (SaveLocked)                                           *)
LEMMA HandlerKeeps ==
    ASSUME TypeOK, SettingsInv, Serving,
           NEW data \in Data, NEW promise \in Promise, NEW logs \in BOOLEAN,
           BeginSave(data, promise, logs), Keeps(data, promise)
    PROVE  SettingsInv'
<1>1. /\ mem' = data /\ file' = file /\ tmp' = tmp
      /\ reset'.step = reset.step /\ reset'.copy = reset.copy
  BY BeginSaveTypes
<1>2. /\ Locked' /\ ~Serving' /\ (Resetting' <=> Resetting)
      /\ saving'.met = Resetting /\ saving'.step = "open" /\ saving'.promise = promise
  BY <1>1, BeginSaveTypes, ConstantsDiffer DEF BeginSave, Locked, Serving, Resetting
<1>3. DOMAIN promised = {"password", "policy", "backup"}
  BY PromiseFields
<1>4. CASE Resetting
  <2>1. reset'.met = TRUE
    BY <1>4 DEF BeginSave, TypeOK
  <2>2. promised' = AllUnsure
    BY <1>3, <1>4 DEF BeginSave, AllUnsure
  <2>3. reset'.step # "idle"
    BY <1>1, <1>4 DEF Resetting
  <2>. QED
    BY <1>2, <1>4, <2>1, <2>2, <2>3, NothingPromised
    DEF SettingsInv, Meetings, SaveFits, ResetFits, Kept
<1>5. CASE ~Resetting
  <2>1. reset'.met = reset.met
    BY <1>5 DEF BeginSave, TypeOK
  <2>2. /\ \A s \in DOMAIN promised' : promise[s] \subseteq promised'[s]
        /\ promised.password \subseteq promised'.password
        /\ promised.policy \subseteq promised'.policy
        /\ promised.backup \subseteq promised'.backup
    BY <1>3, <1>5 DEF BeginSave
  <2>3. Keeps(file, promised')
    BY <2>2, KeepsLess DEF SettingsInv, Kept
  <2>4. Meetings' /\ SaveFits' /\ ResetFits'
    BY <1>1, <1>2, <1>5, <2>1, <2>2 DEF SettingsInv, Meetings, SaveFits, ResetFits
  <2>5. Kept'
    BY <1>1, <1>2, <2>1, <2>3 DEF SettingsInv, Kept
  <2>. QED
    BY <2>4, <2>5 DEF SettingsInv
<1>. QED
  BY <1>4, <1>5

\* A handler that leaves password and policies alone promises what was promised.
LEMMA OtherHandlerKeeps ==
    ASSUME TypeOK, SettingsInv, Serving, NEW data \in Data,
           data.password = mem.password, data.policy = mem.policy,
           data.backup = mem.backup, BeginSave(data, promised, FALSE)
    PROVE  SettingsInv'
<1>1. Keeps(data, promised)
  BY KeepsSame DEF SettingsInv, Kept
<1>. QED
  BY <1>1, HandlerKeeps DEF TypeOK

(* Each step of a save, when the command is or is not under way.           *)
(* (SaveLocked)                                                            *)
LEMMA SaveStepKeeps ==
    ASSUME TypeOK, SettingsInv, SaveStep
    PROVE  SettingsInv'
<1>. USE DEF SettingsInv
<1>0. Locked /\ saving \in SaveUnderWay /\ mem \in Data
  BY DEF SaveStep, OpenTmp, WritePart, WriteTmp, RenameTmp, Answer, SaveFails, Locked, TypeOK
<1>1. Resetting => saving.met
  BY <1>0 DEF Meetings
<1>2. saving.met => reset.met /\ promised = AllUnsure
  BY <1>0 DEF Meetings
<1>3. Resetting => reset.met
  BY <1>1, <1>2
<1>4. CASE OpenTmp
  <2>1. /\ Locked' /\ ~Serving' /\ saving'.met = saving.met /\ saving'.step = "write"
        /\ saving'.at = "tmp" /\ saving'.promise = saving.promise
    BY <1>0, <1>4, ConstantsDiffer DEF OpenTmp, SaveUnderWay, Handles, Locked, Serving
  <2>. QED
    BY <1>0, <1>3, <1>4, <2>1
    DEF OpenTmp, Meetings, SaveFits, ResetFits, Kept, Resetting
<1>5. CASE WritePart
  <2>1. ~saving.met => saving.at = "tmp" /\ file' = file
    BY <1>0, <1>5 DEF WritePart, WriteAt, SaveFits
  <2>2. ResetFits' /\ Meetings' /\ SaveFits'
    BY <1>0, <1>1, <1>2, <1>3, <1>5, <2>1
    DEF WritePart, Meetings, SaveFits, ResetFits, Resetting, Locked
  <2>3. Kept'
    BY <1>0, <1>2, <1>5, <2>1, NothingPromised DEF WritePart, Kept, Serving, Locked
  <2>. QED
    BY <2>2, <2>3
<1>6. CASE WriteTmp
  <2>1. ~saving.met => file' = file /\ tmp' = mem
    BY <1>0, <1>6 DEF WriteTmp, WriteAt, Written, SaveFits
  <2>2. /\ Locked' /\ ~Serving' /\ saving'.met = saving.met /\ saving'.step = "rename"
        /\ saving'.promise = saving.promise
    BY <1>0, <1>6, ConstantsDiffer DEF WriteTmp, SaveUnderWay, Locked, Serving
  <2>3. ResetFits' /\ Meetings' /\ SaveFits'
    BY <1>0, <1>1, <1>2, <1>3, <1>6, <2>1, <2>2
    DEF WriteTmp, Meetings, SaveFits, ResetFits, Resetting
  <2>4. Kept'
    BY <1>0, <1>2, <1>6, <2>1, <2>2, NothingPromised DEF WriteTmp, Kept
  <2>. QED
    BY <2>3, <2>4
<1>7. CASE RenameTmp
  <2>1. ~saving.met => file' = mem
    BY <1>0, <1>7 DEF RenameTmp, SaveFits
  <2>2. /\ Locked' /\ ~Serving' /\ saving'.met = saving.met /\ saving'.step = "answer"
        /\ saving'.promise = saving.promise
    BY <1>0, <1>7, ConstantsDiffer DEF RenameTmp, SaveUnderWay, Locked, Serving
  <2>3. reset'.step = reset.step /\ reset'.met = reset.met
    BY <1>7 DEF RenameTmp, TypeOK
  <2>4. ResetFits' /\ Meetings' /\ SaveFits'
    BY <1>0, <1>1, <1>2, <1>3, <1>7, <2>1, <2>2, <2>3
    DEF RenameTmp, Meetings, SaveFits, ResetFits, Resetting
  <2>5. ~saving.met => Keeps(mem, promised)
    <3>1. ~saving.met => Keeps(mem, saving.promise)
      BY <1>0 DEF SaveFits
    <3>2. ~saving.met => /\ saving.promise.password \subseteq promised.password
                         /\ saving.promise.policy \subseteq promised.policy
                         /\ saving.promise.backup \subseteq promised.backup
      BY <1>0, PromiseFields DEF SaveFits
    <3>. QED
      BY <3>1, <3>2, KeepsLess
  <2>6. Kept'
    BY <1>0, <1>2, <1>7, <2>1, <2>2, <2>3, <2>5, NothingPromised, DataReadable
    DEF RenameTmp, Kept
  <2>. QED
    BY <2>4, <2>6
<1>8. CASE Answer
  <2>1. ~Locked'
    BY <1>8 DEF Answer, Locked
  <2>2. saving.met => promised' = AllUnsure
    BY <1>2, <1>8 DEF Answer
  <2>3. ~saving.met => promised' = saving.promise /\ file = mem /\ Keeps(mem, promised')
    BY <1>0, <1>8 DEF Answer, SaveFits
  <2>4. ResetFits' /\ Meetings' /\ SaveFits'
    BY <1>1, <1>2, <1>3, <1>8, <2>1, <2>2 DEF Answer, Meetings, SaveFits, ResetFits, Resetting
  <2>5. Kept'
    BY <1>8, <2>2, <2>3, NothingPromised DEF Answer, Kept
  <2>. QED
    BY <2>4, <2>5
<1>9. CASE SaveFails
  <2>1. ~Locked'
    BY <1>9 DEF SaveFails, Locked
  <2>2. Keeps(mem, promised)
    <3>1. CASE saving.met
      BY <3>1, <1>2, NothingPromised
    <3>2. CASE ~saving.met
      <4>1. /\ saving.promise.password \subseteq promised.password
            /\ saving.promise.policy \subseteq promised.policy
            /\ saving.promise.backup \subseteq promised.backup
        BY <1>0, <3>2, PromiseFields DEF SaveFits
      <4>. QED
        BY <1>0, <3>2, <4>1, KeepsLess DEF SaveFits
    <3>. QED
      BY <3>1, <3>2
  <2>3. ResetFits' /\ Meetings' /\ SaveFits'
    BY <1>1, <1>2, <1>3, <1>9, <2>1 DEF SaveFails, Meetings, SaveFits, ResetFits, Resetting
  <2>4. Kept'
    BY <1>9, <2>2 DEF SaveFails, Kept, Serving
  <2>. QED
    BY <2>3, <2>4
<1>. QED
  BY <1>4, <1>5, <1>6, <1>7, <1>8, <1>9 DEF SaveStep

(* The handlers of the settings and of the exits.  (ChangeAdminPassword,   *)
(* networkPolicySave, networkPolicyRollback, landingExits)                 *)
LEMMA RequestKeeps ==
    ASSUME TypeOK, TypeOK', SettingsInv, SettingRequest \/ ExitRequest
    PROVE  SettingsInv'
<1>0. Serving => mem \in Data /\ Keeps(mem, promised) /\ Readable(mem)
  BY DataReadable DEF Serving, TypeOK, SettingsInv, Kept
<1>1. ASSUME NEW q \in Passwords, ChangePassword(q) PROVE SettingsInv'
  <2>. DEFINE data == [mem EXCEPT !.password = q]
              promise == [promised EXCEPT !.password = {q}]
  <2>1. Serving /\ BeginSave(data, promise, TRUE)
    BY <1>1 DEF ChangePassword
  <2>2. /\ data \in Data /\ data.password = q
        /\ data.policy = mem.policy /\ data.backup = mem.backup
    BY <1>0, <2>1 DEF Data
  <2>3. promise \in Promise
    BY DEF TypeOK, Promise
  <2>4. /\ promise.password = {q} /\ promise.policy = promised.policy
        /\ promise.backup = promised.backup
    BY PromiseFields
  <2>5. Keeps(data, promise)
    BY <1>0, <2>1, <2>2, <2>4, DataReadable DEF Keeps
  <2>. HIDE DEF data, promise
  <2>. QED
    BY <2>1, <2>2, <2>3, <2>5, HandlerKeeps
<1>2. CASE LogPasswordChange
  BY <1>0, <1>2, OtherHandlerKeeps DEF LogPasswordChange
<1>3. ASSUME NEW q \in Requested, SavePolicy(q) PROVE SettingsInv'
  <2>. DEFINE data == [mem EXCEPT !.policy = ForApi(q), !.backup = ForApi(mem.policy)]
              promise == [promised EXCEPT !.policy = {ForApi(q)}, !.backup = promised.policy]
  <2>1. Serving /\ BeginSave(data, promise, FALSE)
    BY <1>3 DEF SavePolicy
  <2>2. /\ q \in Policy /\ mem.policy \in StoredPolicy
    BY <1>0, <2>1, SettingsAssumption DEF Data
  <2>3. ForApi(q) \in StoredPolicy /\ ForApi(mem.policy) \in StoredPolicy
    BY <2>2, ApiIsStored DEF StoredPolicy
  <2>4. /\ data \in Data /\ data.password = mem.password
        /\ data.policy = ForApi(q) /\ data.backup = ForApi(mem.policy)
    BY <1>0, <2>1, <2>3 DEF Data
  <2>5. promise \in Promise
    BY <2>3 DEF TypeOK, Promise, StoredPolicy
  <2>6. /\ promise.password = promised.password /\ promise.policy = {ForApi(q)}
        /\ promise.backup = promised.policy
    BY PromiseFields
  <2>7. ForApi(ForApi(mem.policy)) = ForApi(mem.policy)
    BY <2>2, StoredTwice
  <2>8. Keeps(data, promise)
    BY <1>0, <2>1, <2>4, <2>6, <2>7, DataReadable DEF Keeps
  <2>. HIDE DEF data, promise
  <2>. QED
    BY <2>1, <2>4, <2>5, <2>8, HandlerKeeps
<1>4. CASE RollbackPolicy
  <2>. DEFINE data == [mem EXCEPT !.policy = ForApi(mem.backup),
                                  !.backup = ForApi(mem.policy)]
              promise == [promised EXCEPT !.policy = promised.backup,
                                          !.backup = promised.policy]
  <2>1. Serving /\ BeginSave(data, promise, FALSE)
    BY <1>4 DEF RollbackPolicy
  <2>2. mem.policy \in StoredPolicy /\ mem.backup \in StoredPolicy
    BY <1>0, <2>1 DEF Data
  <2>3. ForApi(mem.backup) \in StoredPolicy /\ ForApi(mem.policy) \in StoredPolicy
    BY <2>2, ApiIsStored DEF StoredPolicy
  <2>4. /\ data \in Data /\ data.password = mem.password
        /\ data.policy = ForApi(mem.backup) /\ data.backup = ForApi(mem.policy)
    BY <1>0, <2>1, <2>3 DEF Data
  <2>5. promise \in Promise
    BY DEF TypeOK, Promise
  <2>6. /\ promise.password = promised.password /\ promise.policy = promised.backup
        /\ promise.backup = promised.policy
    BY PromiseFields
  <2>7. /\ ForApi(ForApi(mem.policy)) = ForApi(mem.policy)
        /\ ForApi(ForApi(mem.backup)) = ForApi(mem.backup)
    BY <2>2, StoredTwice
  <2>8. Keeps(data, promise)
    BY <1>0, <2>1, <2>4, <2>6, <2>7, DataReadable DEF Keeps
  <2>. HIDE DEF data, promise
  <2>. QED
    BY <2>1, <2>4, <2>5, <2>8, HandlerKeeps
<1>5. ASSUME NEW exits, Serving, SaveExits(exits)
      PROVE  SettingsInv'
  <2>. DEFINE data == [mem EXCEPT !.exits = exits]
  <2>0. saving' \in SaveUnderWay
    BY <1>5 DEF SaveExits, BeginSave, TypeOK, SaveUnderWay, Handles, Resetting
  <2>1. mem' = Normalized(data) /\ mem' # None
    BY <1>5, <2>0, ConstantsDiffer DEF SaveExits, BeginSave, TypeOK
  <2>2. /\ data.password = mem.password /\ data.policy = mem.policy
        /\ data.backup = mem.backup
    BY <1>0, <1>5 DEF Data
  <2>3. mem.policy \in StoredPolicy /\ mem.backup \in StoredPolicy
    BY <1>0, <1>5 DEF Data
  <2>4. Normalized(data) = data
    <3>1. ForStore(data.policy) = data.policy /\ ForStore(data.backup) = data.backup
      BY <2>2, <2>3, StoreKeepsStored DEF StoredPolicy
    <3>. QED
      BY <1>0, <1>5, <3>1 DEF Normalized, Data
  <2>5. mem' \in Data
    BY <1>5, <2>1 DEF TypeOK
  <2>6. data \in Data
    BY <2>1, <2>4, <2>5
  <2>7. BeginSave(data, promised, FALSE)
    BY <1>5 DEF SaveExits
  <2>. HIDE DEF data
  <2>. QED
    BY <1>5, <2>2, <2>6, <2>7, OtherHandlerKeeps
<1>6. CASE ExitRequest
  <2>1. ASSUME NEW x \in Exits, StartTest(x) PROVE SettingsInv'
    BY <2>1 DEF StartTest, SettingsInv, Meetings, SaveFits, ResetFits, Kept, Locked,
                Serving, Resetting
  <2>. QED
    BY <1>5, <1>6, <2>1
    DEF ExitRequest, CreateExits, DeleteExit, UpdateExit, FinishTest
<1>. QED
  BY <1>1, <1>2, <1>3, <1>4, <1>6 DEF SettingRequest

(* The command: reading, writing and replacing the file, the restart, and  *)
(* where it ends early.  (reset-password)                                  *)
LEMMA ResetKeeps ==
    ASSUME TypeOK, TypeOK', SettingsInv, ResetStep
    PROVE  SettingsInv'
<1>. USE DEF SettingsInv
<1>1. CASE ResetReads
  <2>1. /\ reset'.step = "read" /\ reset'.met = Locked
        /\ reset'.copy = [file EXCEPT !.password = Generated]
        /\ file' = file /\ tmp' = tmp /\ mem' = mem /\ Resetting'
    BY <1>1 DEF ResetReads, Resetting
  <2>2. CASE Locked
    <3>1. saving'.met = TRUE /\ Locked' /\ promised' = AllUnsure
      BY <1>1, <2>2, ConstantsDiffer DEF ResetReads, Locked, TypeOK, SaveUnderWay
    <3>. QED
      BY <2>1, <2>2, <3>1, NothingPromised
      DEF Meetings, SaveFits, ResetFits, Kept, Serving
  <2>3. CASE ~Locked
    <3>1. ~Locked' /\ promised' = promised /\ (Serving' <=> Serving) /\ Readable(file)
      BY <1>1, <2>3 DEF ResetReads, Locked, Serving
    <3>. QED
      BY <2>1, <2>3, <3>1 DEF Meetings, SaveFits, ResetFits, Kept
  <2>. QED
    BY <2>2, <2>3
<1>2. CASE ResetOpens
  <2>1. /\ reset'.step = "write" /\ reset'.at = "tmp" /\ reset'.met = reset.met
        /\ reset'.copy = reset.copy /\ Resetting /\ Resetting'
    BY <1>2 DEF ResetOpens, TypeOK, Resetting
  <2>2. Locked => saving.met
    BY <2>1 DEF Meetings
  <2>. QED
    BY <1>2, <2>1, <2>2
    DEF ResetOpens, Meetings, SaveFits, ResetFits, Kept, Serving, Locked
<1>3. CASE ResetWritesPart
  <2>1. Resetting /\ Resetting' /\ reset' = reset
    BY <1>3 DEF ResetWritesPart, Resetting
  <2>2. /\ ~reset.met => reset.at = "tmp" /\ file' = file
        /\ reset.met => promised = AllUnsure
        /\ Locked => saving.met
    BY <1>3, <2>1 DEF ResetWritesPart, WriteAt, ResetFits, Meetings
  <2>3. Kept'
    BY <1>3, <2>1, <2>2, NothingPromised DEF ResetWritesPart, Kept, Serving, Locked
  <2>. QED
    BY <1>3, <2>1, <2>2, <2>3
    DEF ResetWritesPart, Meetings, SaveFits, ResetFits, Locked
<1>4. CASE ResetWrites
  <2>1. /\ Resetting /\ Resetting' /\ reset'.step = "replace"
        /\ reset'.met = reset.met /\ reset'.copy = reset.copy
    BY <1>4 DEF ResetWrites, TypeOK, Resetting
  <2>2. /\ ~reset.met => file' = file /\ tmp' = reset.copy
        /\ reset.met => promised = AllUnsure
        /\ Locked => saving.met
    BY <1>4, <2>1 DEF ResetWrites, WriteAt, Written, ResetFits, Meetings
  <2>3. Kept'
    BY <1>4, <2>1, <2>2, NothingPromised DEF ResetWrites, Kept, Serving, Locked
  <2>. QED
    BY <1>4, <2>1, <2>2, <2>3 DEF ResetWrites, Meetings, SaveFits, ResetFits, Locked
<1>5. CASE ResetReplaces
  <2>1. /\ Resetting /\ Resetting' /\ reset'.step = "restart" /\ reset'.met = reset.met
        /\ file' = tmp /\ mem' = mem
    BY <1>5 DEF ResetReplaces, TypeOK, Resetting
  <2>2. /\ ~reset.met => promised'.password = promised.password \cup {Generated}
        /\ promised.password \subseteq promised'.password
        /\ promised'.policy = promised.policy /\ promised'.backup = promised.backup
    BY <1>5, PromiseFields DEF ResetReplaces
  <2>3. /\ reset.met => promised = AllUnsure
        /\ Locked => saving.met
    BY <2>1 DEF Meetings
  <2>4. Locked' <=> Locked
    BY <1>5, ConstantsDiffer DEF ResetReplaces, Locked, TypeOK, SaveUnderWay,
           AfterRename, Handles
  <2>5. Locked => saving'.met = saving.met
    BY <1>5 DEF ResetReplaces, Locked, TypeOK, SaveUnderWay
  <2>6. reset.met => promised' = promised
    BY <1>5 DEF ResetReplaces
  <2>7. ~reset.met => /\ tmp = [file EXCEPT !.password = Generated]
                      /\ Readable(file)
    BY <1>5, <2>1 DEF ResetReplaces, ResetFits, Kept
  <2>8. ~reset.met => /\ file' \in Data /\ file'.password = Generated
                      /\ file'.policy = file.policy /\ file'.backup = file.backup
    <3>1. Readable(file) => file \in Data
      BY DEF TypeOK, Readable
    <3>2. file \in Data => [file EXCEPT !.password = Generated] \in Data
      BY DEF Data
    <3>3. file \in Data => /\ [file EXCEPT !.password = Generated].password = Generated
                           /\ [file EXCEPT !.password = Generated].policy = file.policy
                           /\ [file EXCEPT !.password = Generated].backup = file.backup
      BY DEF Data
    <3>. QED
      BY <2>1, <2>7, <3>1, <3>2, <3>3
  <2>9. ~reset.met => Keeps(file', promised')
    BY <2>2, <2>8, DataReadable DEF Kept, Keeps
  <2>10. Keeps(mem, promised) => Keeps(mem, promised')
    BY <2>2, KeepsLess
  <2>11. Meetings' /\ SaveFits'
    BY <2>1, <2>3, <2>4, <2>5, <2>6 DEF Meetings, SaveFits
  <2>12. ResetFits'
    BY <2>1, <2>2, <2>8 DEF ResetFits
  <2>13. Kept'
    BY <2>1, <2>3, <2>4, <2>6, <2>8, <2>9, <2>10, DataReadable, NothingPromised
    DEF Kept, Serving
  <2>. QED
    BY <2>11, <2>12, <2>13
<1>6. CASE ResetRestarts
  <2>1. /\ reset'.step = "announce" /\ reset'.met = reset.met /\ ~Resetting' /\ Resetting
        /\ ~Locked' /\ ~Serving' /\ file' = file
    BY <1>6 DEF ResetRestarts, Stopped, TypeOK, Resetting, Locked, Serving
  <2>2. reset.met => Keeps(file, promised')
    BY <1>6 DEF ResetRestarts, Kept
  <2>3. ~reset.met => Keeps(file, promised')
    <3>1. ~reset.met => file.password = Generated /\ Readable(file)
      BY <1>6, <2>1 DEF ResetRestarts, ResetFits, Kept
    <3>2. ~reset.met => /\ promised'.password = {Generated}
                        /\ promised'.policy = promised.policy
                        /\ promised'.backup = promised.backup
      BY <1>6, PromiseFields DEF ResetRestarts
    <3>. QED
      BY <3>1, <3>2 DEF Kept, Keeps
  <2>. QED
    BY <2>1, <2>2, <2>3 DEF Meetings, SaveFits, ResetFits, Kept
<1>7. CASE ResetAnnounces \/ ResetFails \/ ResetKilled
  <2>1. /\ reset'.step \in {"announced", "killed"} /\ reset'.met = reset.met
        /\ UNCHANGED <<mem, file, tmp, saving, promised>>
    BY <1>7 DEF ResetAnnounces, ResetFails, ResetKilled, Stop, TypeOK
  <2>2. ~Resetting' /\ (Locked' <=> Locked) /\ (Serving' <=> Serving)
    BY <2>1 DEF Resetting, Locked, Serving
  <2>. QED
    BY <2>1, <2>2 DEF Meetings, SaveFits, ResetFits, Kept
<1>. QED
  BY <1>1, <1>2, <1>3, <1>4, <1>5, <1>6, <1>7 DEF ResetStep

(* Deaths and starts.  (Open)                                              *)
LEMMA ProcessKeeps ==
    ASSUME TypeOK, SettingsInv, PanelDies \/ StartPanel
    PROVE  SettingsInv'
<1>. USE DEF SettingsInv
<1>1. CASE PanelDies
  <2>1. ~Locked' /\ ~Serving' /\ (Resetting' <=> Resetting)
    BY <1>1 DEF PanelDies, Stopped, Locked, Serving, Resetting
  <2>. QED
    BY <1>1, <2>1 DEF PanelDies, Meetings, SaveFits, ResetFits, Kept
<1>2. CASE StartPanel
  <2>1. ~Locked
    BY <1>2 DEF StartPanel, Locked, TypeOK
  <2>2. mem' \in Data /\ (file # Empty => mem' = file)
    BY <1>2, NormalizedKeeps, SeedIsData DEF StartPanel, TypeOK
  <2>3. Keeps(mem', promised)
    BY <2>2, DataReadable DEF Kept, Keeps, Readable
  <2>4. file' = file /\ tmp' = tmp
    BY <1>2 DEF StartPanel
  <2>5. CASE UNCHANGED <<saving, reset, promised>>
    <3>1. ~Locked' /\ (Resetting' <=> Resetting)
      BY <2>1, <2>5 DEF Locked, Resetting
    <3>. QED
      BY <2>1, <2>3, <2>4, <2>5, <3>1 DEF Meetings, SaveFits, ResetFits, Kept
  <2>6. CASE ~UNCHANGED <<saving, reset, promised>>
    <3>1. saving' = [step |-> "open", at |-> "gone", met |-> Resetting,
                     logs |-> FALSE, starting |-> TRUE, promise |-> promised]
      BY <1>2, <2>6 DEF StartPanel
    <3>2. saving' \in SaveUnderWay
      BY <3>1 DEF TypeOK, SaveUnderWay, Handles, Resetting
    <3>3. /\ reset' = [reset EXCEPT !.met = @ \/ Resetting]
          /\ promised' = IF Resetting THEN AllUnsure ELSE promised
      BY <1>2, <2>6 DEF StartPanel
    <3>4. /\ Locked' /\ ~Serving' /\ (Resetting' <=> Resetting)
          /\ reset'.step = reset.step /\ reset'.copy = reset.copy
          /\ reset'.met = (reset.met \/ Resetting) /\ reset'.at = reset.at
      BY <3>2, <3>3, ConstantsDiffer DEF Locked, Serving, TypeOK, Resetting
    <3>5. CASE Resetting
      BY <2>4, <3>1, <3>3, <3>4, <3>5, NothingPromised
      DEF Meetings, SaveFits, ResetFits, Kept, Resetting
    <3>6. CASE ~Resetting
      <4>1. reset'.met = reset.met
        BY <3>4, <3>6 DEF TypeOK
      <4>. QED
        BY <2>3, <2>4, <3>1, <3>3, <3>4, <3>6, <4>1
        DEF Meetings, SaveFits, ResetFits, Kept
    <3>. QED
      BY <3>5, <3>6
  <2>. QED
    BY <2>5, <2>6
<1>. QED
  BY <1>1, <1>2

(* The invariant the three theorems below rest on: which file each writer  *)
(* has open, whether a save and the command met, and what memory and the   *)
(* file keep of what was acknowledged.  (SaveLocked, reset-password)       *)
THEOREM SettingsCorrect == Spec => []SettingsInv
<1>1. Init => SettingsInv
  <2>1. SUFFICES ASSUME Init PROVE SettingsInv
    OBVIOUS
  <2>2. ~Locked /\ ~Resetting /\ Readable(Seed)
    BY <2>1, SeedIsData, DataReadable DEF Init, Locked, Resetting
  <2>3. Keeps(Seed, promised)
    BY <2>1, <2>2 DEF Init, Keeps, Seed
  <2>. QED
    BY <2>1, <2>2, <2>3 DEF Init, SettingsInv, Meetings, SaveFits, ResetFits, Kept
<1>2. TypeOK /\ TypeOK' /\ SettingsInv /\ [Next]_vars => SettingsInv'
  <2>1. SUFFICES ASSUME TypeOK, TypeOK', SettingsInv, [Next]_vars PROVE SettingsInv'
    OBVIOUS
  <2>2. CASE OtherSave
    BY <2>1, <2>2, OtherHandlerKeeps DEF OtherSave, Serving, TypeOK
  <2>3. CASE UNCHANGED vars
    BY <2>1, <2>3
    DEF vars, SettingsInv, Meetings, SaveFits, ResetFits, Kept, Locked, Serving, Resetting
  <2>. QED
    BY <2>1, <2>2, <2>3, SaveStepKeeps, RequestKeeps, ResetKeeps, ProcessKeeps DEF Next
<1>. QED
  BY <1>1, <1>2, SettingsTypes, PTL DEF Spec

(* The password that was acknowledged last, or one tried since, is the one *)
(* asked for, on disk and in memory.  (ChangeAdminPassword, SaveLocked,    *)
(* reset-password)                                                         *)
THEOREM PasswordKept == Spec => []PasswordStands
<1>1. SettingsInv => PasswordStands
  BY DEF SettingsInv, Kept, Keeps, PasswordStands, Places, Serving
<1>. QED
  BY <1>1, SettingsCorrect, PTL

(* The policy that was acknowledged, and the one a rollback returns to,    *)
(* stand through any sequence of saves, rollbacks, deaths and failures;    *)
(* after a failed request only those tried since may stand in their place. *)
(* (networkPolicySave, networkPolicyRollback)                              *)
THEOREM PoliciesKept == Spec => []RollbackRestores
<1>1. SettingsInv => RollbackRestores
  BY DEF SettingsInv, Kept, Keeps, RollbackRestores, Places, Serving
<1>. QED
  BY <1>1, SettingsCorrect, PTL

(* The file can be read whenever the command and a save never overlapped,  *)
(* wherever either of them dies.  (SaveLocked)                             *)
THEOREM FileStaysReadable == Spec => []FileReadable
<1>1. SettingsInv => FileReadable
  BY DEF SettingsInv, Kept, FileReadable
<1>. QED
  BY <1>1, SettingsCorrect, PTL

-----------------------------------------------------------------------------
(* Verdicts on exits.                                                      *)

VerdictFits(exit) ==
    exit.verdict # "untested" =>
        /\ exit.kept \/ exit.tested = exit.route
        /\ exit.verdict = "works" <=> exit.earned

Fitting(d) == Readable(d) => \A x \in DOMAIN d.exits : VerdictFits(d.exits[x])

\* Wherever settings are kept or on their way, and in the tests under way.
Verdicts ==
    /\ Fitting(mem) /\ Fitting(file) /\ Fitting(tmp) /\ Fitting(reset.copy)
    /\ \A t \in tests : VerdictFits(t.copy)

(* A test says "works" just when one of the two proxies it met carried a   *)
(* request to the end.  (testSocks5, testLandingExit)                      *)
THEOREM WorksIsCarried ==
    ASSUME NEW first \in Proxy, NEW second \in Proxy
    PROVE  Works(TRUE, first, second) <=> Carried(first) \/ Carried(second)
<1>1. ASSUME NEW proxy \in Proxy
      PROVE  Get(TRUE, proxy) = "address" <=> Carried(proxy)
  <2>1. Authenticated(TRUE, proxy) <=>
          proxy.method = "none" \/ (proxy.method = "password" /\ proxy.accepts)
    BY DEF Authenticated, Proxy, Methods
  <2>. QED
    BY <2>1 DEF Get, Handshake, Carried, Proxy
<1>. QED
  BY <1>1 DEF Works

LEMMA TestedFits ==
    ASSUME NEW copy \in Exit, NEW o \in Outcomes
    PROVE  VerdictFits(Tested(copy, o))
<1>1. PICK first \in Proxies : \E second \in Proxies :
          /\ o.works <=> Works(TRUE, first, second)
          /\ o.earned <=> Carried(first) \/ Carried(second)
  BY DEF Outcomes
<1>2. o.works <=> o.earned
  BY <1>1, WorksIsCarried, SettingsAssumption
<1>3. o.works \in BOOLEAN /\ o.earned \in BOOLEAN
  BY DEF Outcomes
<1>4. /\ Tested(copy, o).verdict = (IF o.works THEN "works" ELSE "fails")
      /\ Tested(copy, o).tested = copy.route /\ Tested(copy, o).route = copy.route
      /\ Tested(copy, o).earned = o.earned
  BY DEF Tested, Exit
<1>. QED
  BY <1>2, <1>3, <1>4 DEF VerdictFits

\* A save puts into memory what fits, and touches no other copy.
LEMMA SaveFitting ==
    ASSUME TypeOK, Verdicts, Serving,
           NEW data \in Data, NEW promise, NEW logs, BeginSave(data, promise, logs),
           Fitting(data), \A t \in tests' : VerdictFits(t.copy)
    PROVE  Verdicts'
<1>1. mem' = data /\ file' = file /\ tmp' = tmp
  BY NormalizedKeeps DEF BeginSave
<1>2. reset'.copy = reset.copy
  BY DEF BeginSave, TypeOK
<1>. QED
  BY <1>1, <1>2 DEF Verdicts

LEMMA ExitRequestFits ==
    ASSUME TypeOK, Verdicts, ExitRequest
    PROVE  Verdicts'
<1>0. Serving => /\ mem \in Data
                 /\ DOMAIN mem.exits \subseteq Exits
                 /\ \A x \in DOMAIN mem.exits : /\ mem.exits[x] \in Exit
                                                /\ VerdictFits(mem.exits[x])
  BY DataReadable DEF Serving, TypeOK, Data, Verdicts, Fitting
<1>1. ASSUME NEW exits \in UNION {[ids -> Exit] : ids \in SUBSET Exits},
             Serving, SaveExits(exits), tests' \subseteq tests,
             \A x \in DOMAIN exits : VerdictFits(exits[x])
      PROVE  Verdicts'
  <2>. DEFINE data == [mem EXCEPT !.exits = exits]
  <2>1. data \in Data /\ data.exits = exits
    BY <1>0, <1>1 DEF Data
  <2>2. Fitting(data)
    BY <1>1, <2>1 DEF Fitting
  <2>3. BeginSave(data, promised, FALSE)
    BY <1>1 DEF SaveExits
  <2>4. \A t \in tests' : VerdictFits(t.copy)
    BY <1>1 DEF Verdicts
  <2>. HIDE DEF data
  <2>. QED
    BY <1>1, <2>1, <2>2, <2>3, <2>4, SaveFitting
<1>2. ASSUME NEW exits, NEW ids \in SUBSET Exits, exits \in [ids -> Exit]
      PROVE  exits \in UNION {[known -> Exit] : known \in SUBSET Exits}
  BY <1>2
<1>3. ASSUME NEW ids \in SUBSET Exits, NEW new \in [ids -> Routes], CreateExits(new)
      PROVE  Verdicts'
  <2>. DEFINE added == [x \in DOMAIN new |->
                  [route |-> new[x], verdict |-> "untested", tested |-> None,
                   earned |-> FALSE, kept |-> FALSE]]
              result == Put(added, mem.exits)
  <2>1. Serving /\ SaveExits(result) /\ tests' = tests
    BY <1>3 DEF CreateExits
  <2>2. \A x \in DOMAIN added : added[x] \in Exit /\ VerdictFits(added[x])
    BY DEF Exit, VerdictFits
  <2>3. /\ DOMAIN added \cup DOMAIN mem.exits \in SUBSET Exits
        /\ result \in [(DOMAIN added \cup DOMAIN mem.exits) -> Exit]
    BY <1>0, <2>1, <2>2 DEF Put
  <2>4. \A x \in DOMAIN result : VerdictFits(result[x])
    BY <1>0, <2>1, <2>2 DEF Put
  <2>. HIDE DEF added, result
  <2>5. result \in UNION {[known -> Exit] : known \in SUBSET Exits}
    BY <2>3, <1>2
  <2>. QED
    BY <1>1, <2>1, <2>4, <2>5
<1>4. ASSUME NEW x \in Exits, DeleteExit(x) PROVE Verdicts'
  <2>. DEFINE result == [y \in DOMAIN mem.exits \ {x} |-> mem.exits[y]]
  <2>1. Serving /\ SaveExits(result) /\ tests' = tests
    BY <1>4 DEF DeleteExit
  <2>2. /\ DOMAIN mem.exits \ {x} \in SUBSET Exits
        /\ result \in [(DOMAIN mem.exits \ {x}) -> Exit]
        /\ \A y \in DOMAIN result : VerdictFits(result[y])
    BY <1>0, <2>1
  <2>. HIDE DEF result
  <2>3. result \in UNION {[known -> Exit] : known \in SUBSET Exits}
    BY <2>2, <1>2
  <2>. QED
    BY <1>1, <2>1, <2>2, <2>3
<1>5. ASSUME NEW x \in Exits, StartTest(x) PROVE Verdicts'
  BY <1>0, <1>5 DEF StartTest, Verdicts
<1>6. ASSUME NEW x \in Exits, NEW route \in Routes, UpdateExit(x, route) PROVE Verdicts'
  <2>. DEFINE result == [mem.exits EXCEPT ![x].route = route,
                                   ![x].kept = @ \/ route # mem.exits[x].route]
  <2>1. /\ Serving /\ SaveExits(result) /\ tests' = tests
        /\ x \in DOMAIN mem.exits
    BY <1>6 DEF UpdateExit
  <2>2. /\ result[x] \in Exit /\ VerdictFits(result[x])
        /\ DOMAIN result = DOMAIN mem.exits
        /\ \A y \in DOMAIN mem.exits \ {x} : result[y] = mem.exits[y]
    BY <1>0, <2>1 DEF Exit, VerdictFits
  <2>3. /\ result \in [DOMAIN mem.exits -> Exit]
        /\ \A y \in DOMAIN result : VerdictFits(result[y])
    BY <1>0, <2>1, <2>2
  <2>. HIDE DEF result
  <2>4. result \in UNION {[known -> Exit] : known \in SUBSET Exits}
    BY <1>0, <2>1, <2>3, <1>2
  <2>. QED
    BY <1>1, <2>1, <2>3, <2>4
<1>7. ASSUME NEW t \in tests, FinishTest(t) PROVE Verdicts'
  <2>1. PICK o \in Outcomes : SaveExits(Put([x \in {t.id} |-> Tested(t.copy, o)], mem.exits))
    BY <1>7 DEF FinishTest
  <2>. DEFINE result == Put([x \in {t.id} |-> Tested(t.copy, o)], mem.exits)
  <2>2. /\ Serving /\ SaveExits(result) /\ tests' \subseteq tests
        /\ t.id \in Exits /\ t.copy \in Exit
    BY <1>7, <2>1 DEF FinishTest, TypeOK
  <2>3. Tested(t.copy, o) \in Exit
    BY <2>2 DEF Outcomes, Tested, Exit
  <2>4. VerdictFits(Tested(t.copy, o))
    BY <2>2, TestedFits
  <2>5. /\ {t.id} \cup DOMAIN mem.exits \in SUBSET Exits
        /\ result \in [({t.id} \cup DOMAIN mem.exits) -> Exit]
        /\ \A y \in DOMAIN result : VerdictFits(result[y])
    BY <1>0, <2>2, <2>3, <2>4 DEF Put
  <2>. HIDE DEF result
  <2>6. result \in UNION {[known -> Exit] : known \in SUBSET Exits}
    BY <2>5, <1>2
  <2>. QED
    BY <1>1, <2>2, <2>5, <2>6
<1>. QED
  BY <1>3, <1>4, <1>5, <1>6, <1>7 DEF ExitRequest

(* The verdict shown beside an exit is about that exit and is earned,      *)
(* whatever tests, edits, deletions, failed saves and restarts overlap.    *)
(* (testLandingExit, landingExitByID)                                      *)
THEOREM VerdictsFit == Spec => []VerdictFitsExit
<1>1. Init => Verdicts
  <2>1. ASSUME Init PROVE Fitting(Seed)
    BY DEF Fitting, Seed, NoExits
  <2>. QED
    BY <2>1 DEF Init, Verdicts, Fitting, Readable
<1>2. TypeOK /\ TypeOK' /\ Verdicts /\ [Next]_vars => Verdicts'
  <2>1. SUFFICES ASSUME TypeOK, TypeOK', Verdicts, [Next]_vars PROVE Verdicts'
    OBVIOUS
  <2>2. Fitting(None) /\ Fitting(Empty) /\ Fitting(Torn)
    BY DEF Fitting, Readable
  <2>3. CASE SaveStep
    <3>1. /\ tests' = tests /\ reset'.copy = reset.copy
          /\ mem' \in {mem, None}
      BY <2>1, <2>3
      DEF SaveStep, OpenTmp, WritePart, WriteTmp, RenameTmp, Answer, SaveFails, TypeOK
    <3>2. file' \in {file, tmp, mem, Torn} /\ tmp' \in {tmp, mem, None, Empty, Torn}
      BY <2>3
      DEF SaveStep, OpenTmp, WritePart, WriteTmp, RenameTmp, Answer, SaveFails,
          WriteAt, Written
    <3>. QED
      BY <2>1, <2>2, <3>1, <3>2 DEF Verdicts
  <2>4. CASE SettingRequest \/ OtherSave
    <3>1. mem \in Data
      BY <2>1, <2>4 DEF SettingRequest, ChangePassword, LogPasswordChange, SavePolicy,
                        RollbackPolicy, OtherSave, Serving, TypeOK
    <3>2. \E data : /\ data.exits = mem.exits /\ DOMAIN data = DOMAIN mem
                    /\ mem' = Normalized(data)
      BY <2>4, <3>1 DEF SettingRequest, ChangePassword, LogPasswordChange, SavePolicy,
                        RollbackPolicy, OtherSave, BeginSave, Data
    <3>3. mem'.exits = mem.exits
      BY <3>1, <3>2 DEF Normalized, Data
    <3>4. /\ file' = file /\ tmp' = tmp /\ tests' = tests
          /\ reset'.copy = reset.copy
      BY <2>1, <2>4 DEF SettingRequest, ChangePassword, LogPasswordChange, SavePolicy,
                        RollbackPolicy, OtherSave, BeginSave, TypeOK
    <3>5. Readable(mem)
      BY <3>1, DataReadable
    <3>. QED
      BY <2>1, <3>3, <3>4, <3>5 DEF Verdicts, Fitting
  <2>5. CASE ExitRequest
    BY <2>1, <2>5, ExitRequestFits
  <2>6. CASE ResetStep
    <3>1. mem' \in {mem, None} /\ tests' \subseteq tests
      BY <2>6 DEF ResetStep, ResetReads, ResetOpens, ResetWritesPart, ResetWrites,
                  ResetReplaces, ResetRestarts, ResetAnnounces, ResetFails, ResetKilled, Stopped
    <3>2. /\ file' \in {file, tmp, reset.copy, Torn}
          /\ tmp' \in {tmp, reset.copy, None, Empty, Torn}
      BY <2>6 DEF ResetStep, ResetReads, ResetOpens, ResetWritesPart, ResetWrites,
                  ResetReplaces, ResetRestarts, ResetAnnounces, ResetFails, ResetKilled,
                  WriteAt, Written
    <3>3. Fitting(reset'.copy)
      <4>1. CASE ResetReads
        <5>1. file \in Data
          BY <2>1, <4>1 DEF ResetReads, Readable, TypeOK
        <5>2. reset'.copy.exits = file.exits
          BY <4>1, <5>1 DEF ResetReads, Data
        <5>. QED
          BY <2>1, <5>1, <5>2, DataReadable DEF Verdicts, Fitting
      <4>2. CASE ~ResetReads
        <5>1. reset'.copy \in {reset.copy, None}
          BY <2>1, <2>6, <4>2
          DEF ResetStep, ResetOpens, ResetWritesPart, ResetWrites, ResetReplaces,
              ResetRestarts, ResetAnnounces, ResetFails, ResetKilled, Stop, TypeOK
        <5>. QED
          BY <2>1, <2>2, <5>1 DEF Verdicts
      <4>. QED
        BY <4>1, <4>2
    <3>. QED
      BY <2>1, <2>2, <3>1, <3>2, <3>3 DEF Verdicts
  <2>7. CASE PanelDies
    BY <2>1, <2>2, <2>7 DEF PanelDies, Stopped, Verdicts
  <2>8. CASE StartPanel
    <3>1. mem' \in {file, Seed}
      BY <2>1, <2>8, NormalizedKeeps, SeedIsData DEF StartPanel, TypeOK
    <3>2. /\ file' = file /\ tmp' = tmp /\ tests' = tests
          /\ reset'.copy = reset.copy
      BY <2>1, <2>8 DEF StartPanel, TypeOK
    <3>3. Fitting(Seed)
      BY DEF Fitting, Seed, NoExits
    <3>. QED
      BY <2>1, <3>1, <3>2, <3>3 DEF Verdicts
  <2>9. CASE UNCHANGED vars
    BY <2>1, <2>9 DEF vars, Verdicts
  <2>. QED
    BY <2>1, <2>3, <2>4, <2>5, <2>6, <2>7, <2>8, <2>9 DEF Next
<1>3. Verdicts => VerdictFitsExit
  BY DEF Verdicts, Fitting, VerdictFits, VerdictFitsExit
<1>. QED
  BY <1>1, <1>2, <1>3, SettingsTypes, PTL DEF Spec

-----------------------------------------------------------------------------
(* Blocking.                                                               *)

(* What the generator makes of a request that is not "strict" or "custom"  *)
(* blocks nothing, whatever the request holds.  (normalizePolicyForAPI,    *)
(* xray.normalizeNetworkPolicy)                                            *)
LEMMA OnlyChosenBlocks ==
    ASSUME NEW p \in Policy, p.mode \notin {"strict", "custom"}
    PROVE  XrayConfig(ForApi(p)).blocks = {}
<1>1. ForApi(p) \in Policy /\ ForApi(p).mode \in Modes \ {"strict", "custom"}
  BY ApiInRange DEF ForApi, Modes
<1>. QED
  BY <1>1 DEF XrayConfig, ForXray, Policy

(* The generator sees the same in a stored policy and in what a rollback   *)
(* makes of it.  (networkPolicyRollback)                                   *)
LEMMA ServedOnce ==
    ASSUME NEW p \in StoredPolicy
    PROVE  XrayConfig(ForApi(p)) = XrayConfig(p)
<1>1. IsStored(p) /\ IsStored(ForApi(p))
  BY StoredIsPolicy, ApiIsStored DEF StoredPolicy
<1>2. Preview(ForApi(p)) = XrayConfig(p)
  BY <1>1, PreviewIsServed
<1>3. Preview(ForApi(ForApi(p))) = XrayConfig(ForApi(p))
  BY <1>1, PreviewIsServed
<1>. QED
  BY <1>2, <1>3, StoredTwice

(* No step of anything but a chosen policy or a rollback to one makes Xray *)
(* block more than it did: not an odd request, a failed save, a restart or *)
(* a file that is seeded anew.  (normalizePolicyForAPI, SaveLocked, Open)  *)
THEOREM NoBlockingUnchosen == Spec => BlockingIsChosen
<1>. DEFINE Before == IF mem # None THEN Blocked(mem)
                      ELSE IF Readable(file) THEN Blocked(file) ELSE {}
            Allowed ==
                mem' # None =>
                   \/ Blocked(mem') \subseteq Before
                   \/ \E p \in Requested : p.mode \in {"strict", "custom"} /\ SavePolicy(p)
                   \/ RollbackPolicy /\ Blocked(mem') = XrayConfig(mem.backup).blocks
<1>1. TypeOK /\ TypeOK' /\ [Next]_vars => [Allowed]_vars
  <2>1. SUFFICES ASSUME TypeOK, TypeOK', Next, mem' # None PROVE Allowed
    BY DEF vars
  <2>2. ASSUME mem # None, mem'.policy = mem.policy PROVE Allowed
    BY <2>2 DEF Blocked
  <2>3. CASE mem # None /\ mem' = mem
    BY <2>2, <2>3
  <2>4. ASSUME NEW q \in Requested, SavePolicy(q) PROVE Allowed
    <3>1. mem \in Data /\ q \in Policy
      BY <2>1, <2>4, SettingsAssumption DEF SavePolicy, Serving, TypeOK
    <3>2. mem'.policy = ForApi(q)
      <4>1. ForApi(q) \in StoredPolicy
        BY <3>1, ApiIsStored
      <4>2. mem' = Normalized([mem EXCEPT !.policy = ForApi(q), !.backup = ForApi(mem.policy)])
        BY <2>4 DEF SavePolicy, BeginSave
      <4>3. mem'.policy = ForStore(ForApi(q))
        BY <3>1, <4>2 DEF Normalized, Data
      <4>. QED
        BY <4>1, <4>3, StoreKeepsStored DEF StoredPolicy
    <3>3. q.mode \notin {"strict", "custom"} => Blocked(mem') = {}
      BY <3>1, <3>2, OnlyChosenBlocks DEF Blocked
    <3>. HIDE DEF Before
    <3>. QED
      BY <2>4, <3>3
  <2>5. CASE RollbackPolicy
    <3>1. mem \in Data /\ mem.backup \in StoredPolicy
      BY <2>1, <2>5 DEF RollbackPolicy, Serving, TypeOK, Data
    <3>2. mem'.policy = ForApi(mem.backup)
      <4>1. ForApi(mem.backup) \in StoredPolicy
        BY <3>1, ApiIsStored DEF StoredPolicy
      <4>2. mem' = Normalized([mem EXCEPT !.policy = ForApi(mem.backup),
                                          !.backup = ForApi(mem.policy)])
        BY <2>5 DEF RollbackPolicy, BeginSave
      <4>3. mem'.policy = ForStore(ForApi(mem.backup))
        BY <3>1, <4>2 DEF Normalized, Data
      <4>. QED
        BY <4>1, <4>3, StoreKeepsStored DEF StoredPolicy
    <3>3. Blocked(mem') = XrayConfig(mem.backup).blocks
      BY <3>1, <3>2, ServedOnce DEF Blocked
    <3>. QED
      BY <2>5, <3>3
  <2>6. ASSUME NEW data, mem \in Data, data.policy = mem.policy,
               DOMAIN data = DOMAIN mem, mem' = Normalized(data)
        PROVE  Allowed
    <3>1. mem # None /\ mem.policy \in StoredPolicy
      BY <2>6, ConstantsDiffer DEF Data
    <3>2. mem'.policy = ForStore(data.policy)
      BY <2>6 DEF Normalized, Data
    <3>3. mem'.policy = mem.policy
      BY <2>6, <3>1, <3>2, StoreKeepsStored DEF StoredPolicy
    <3>. QED
      BY <2>2, <3>1, <3>3
  <2>7. ASSUME NEW q \in Passwords, ChangePassword(q) PROVE Allowed
    <3>1. /\ mem \in Data /\ mem' = Normalized([mem EXCEPT !.password = q])
          /\ [mem EXCEPT !.password = q].policy = mem.policy
          /\ DOMAIN [mem EXCEPT !.password = q] = DOMAIN mem
      BY <2>1, <2>7 DEF ChangePassword, Serving, BeginSave, TypeOK, Data
    <3>. QED
      BY <2>6, <3>1
  <2>8. CASE LogPasswordChange \/ OtherSave
    <3>1. mem \in Data /\ mem' = Normalized(mem)
      BY <2>1, <2>8 DEF LogPasswordChange, OtherSave, Serving, BeginSave, TypeOK
    <3>. QED
      BY <2>6, <3>1
  <2>9. CASE ExitRequest
    <3>1. mem \in Data
      BY <2>1, <2>9 DEF ExitRequest, CreateExits, DeleteExit, UpdateExit, StartTest,
                        FinishTest, Serving, TypeOK
    <3>2. ASSUME NEW exits, SaveExits(exits) PROVE Allowed
      <4>1. /\ mem' = Normalized([mem EXCEPT !.exits = exits])
            /\ [mem EXCEPT !.exits = exits].policy = mem.policy
            /\ DOMAIN [mem EXCEPT !.exits = exits] = DOMAIN mem
        BY <3>1, <3>2 DEF SaveExits, BeginSave, Data
      <4>. QED
        BY <2>6, <3>1, <4>1
    <3>3. ASSUME NEW x, StartTest(x) PROVE Allowed
      BY <2>3, <3>1, <3>3, ConstantsDiffer DEF StartTest
    <3>. HIDE DEF Allowed
    <3>. QED
      BY <2>9, <3>2, <3>3
      DEF ExitRequest, CreateExits, DeleteExit, UpdateExit, FinishTest
  <2>10. CASE StartPanel
    <3>1. mem = None
      BY <2>10 DEF StartPanel
    <3>2. CASE file = Empty
      <4>1. mem' = Seed
        BY <2>10, <3>2, NormalizedKeeps, SeedIsData DEF StartPanel
      <4>2. Blocked(Seed) = {}
        BY DEF Blocked, Seed, DefaultPolicy, XrayConfig, ForXray, Modes
      <4>. HIDE DEF Before
      <4>. QED
        BY <4>1, <4>2
    <3>3. CASE file # Empty
      <4>1. file \in Data
        BY <2>1, <2>10, <3>3 DEF StartPanel, TypeOK
      <4>2. mem' = file
        BY <2>10, <3>3, <4>1, NormalizedKeeps DEF StartPanel
      <4>. QED
        BY <3>1, <4>1, <4>2, DataReadable
    <3>. QED
      BY <3>2, <3>3
  <2>11. CASE SaveStep \/ ResetStep \/ PanelDies
    <3>1. mem' \in {mem, None}
      BY <2>11 DEF SaveStep, OpenTmp, WritePart, WriteTmp, RenameTmp, Answer, SaveFails,
          ResetStep, ResetReads, ResetOpens, ResetWritesPart, ResetWrites, ResetReplaces,
          ResetRestarts, ResetAnnounces, ResetFails, ResetKilled, PanelDies, Stopped
    <3>. HIDE DEF Allowed
    <3>. QED
      BY <2>1, <2>3, <3>1
  <2>. HIDE DEF Allowed
  <2>. QED
    BY <2>1, <2>4, <2>5, <2>7, <2>8, <2>9, <2>10, <2>11 DEF Next, SettingRequest
<1>2. [Allowed]_vars
      => [mem' # None =>
            LET before == IF mem # None THEN Blocked(mem)
                          ELSE IF Readable(file) THEN Blocked(file) ELSE {}
            IN  \/ Blocked(mem') \subseteq before
                \/ \E p \in Requested : p.mode \in {"strict", "custom"} /\ SavePolicy(p)
                \/ RollbackPolicy /\ Blocked(mem') = XrayConfig(mem.backup).blocks]_vars
  OBVIOUS
<1>. QED
  BY <1>1, <1>2, SettingsTypes, PTL DEF Spec, BlockingIsChosen
=============================================================================
