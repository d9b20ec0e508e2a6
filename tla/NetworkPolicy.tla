---------------------------- MODULE NetworkPolicy ----------------------------
(***************************************************************************)
(* The network policy: which resolvers Xray is given and which traffic it  *)
(* blocks.  The policy is normalised in three places that are kept alike   *)
(* by hand: by the API before it stores or shows one                       *)
(* (network_policy.go), by the store before each save and after each load  *)
(* (store.go), and by the generator of the Xray configuration (config.go). *)
(* The status page, the diagnosis, the system checks, the subscriptions    *)
(* and the configuration each read the policy through one of them, or as   *)
(* it is stored.                                                           *)
(*                                                                         *)
(* Abstracted: a list of resolvers is a set, its order and repetitions     *)
(* being lost in the configuration; the time and the author of a change.   *)
(***************************************************************************)

CONSTANTS
    Resolvers,          \* entries an administrator may list
    Usable,             \* those that are an address or carry a scheme
    DefaultResolvers    \* 1.1.1.1, 8.8.8.8 and 9.9.9.9

ASSUME PolicyAssumption ==
    /\ Usable \subseteq Resolvers
    /\ DefaultResolvers \subseteq Usable
    /\ DefaultResolvers # {}

Modes == {"compat", "public_dns", "dns_leak_guard", "strict", "custom"}
QueryStrategies == {"AsIs", "UseIPv4", "UseIPv6", "UseIP"}
IPv6Strategies == {"keep", "warn", "disable_hint"}

\* DisableFallback, DisableFallbackIfMatch, BlockDNS53, BlockChinaDNS, BlockQUIC
Restrictions == {"fallback", "fallback_if_match", "dns53", "china_dns", "quic"}

\* Subscription formats that add 9.9.9.9 to their resolvers.
Formats == {"clash", "sing_box"}

\* model.NetworkPolicy; a request may leave fields empty or fill them oddly.
Policy == [mode : Modes \cup {"", "odd"}, publicDNS : BOOLEAN,
           dns : SUBSET Resolvers, query : QueryStrategies \cup {"", "odd"},
           blocks : SUBSET Restrictions, ipv6 : IPv6Strategies \cup {"", "odd"},
           quad9 : SUBSET Formats]

-----------------------------------------------------------------------------
(* network_policy.go                                                       *)

CleanDNSServers(list, useDefault) ==
    IF list \cap Usable = {} /\ useDefault THEN DefaultResolvers ELSE list \cap Usable

\* The modes other than "custom" decide on IPv6 only what was left open.
IPv6ForApi(mode, chosen) ==
    CASE mode = "dns_leak_guard" /\ chosen \in {"", "keep"} -> "warn"
      [] mode = "strict" /\ chosen \in {"", "keep"} -> "disable_hint"
      [] OTHER -> IF chosen \in IPv6Strategies THEN chosen ELSE "keep"

\* Faulty variant: ForApi that takes an unknown mode for the strictest.
ForApiStrictest(p) ==
    LET mode == IF p.mode \in Modes THEN p.mode ELSE "strict"
        custom == mode = "custom"
    IN  [mode |-> mode,
         publicDNS |-> ~custom \/ p.publicDNS,
         dns |-> IF mode = "compat" THEN DefaultResolvers
                 ELSE CleanDNSServers(p.dns, ~custom \/ p.publicDNS),
         query |-> IF ~custom THEN "UseIPv4"
                   ELSE IF p.query \in QueryStrategies THEN p.query ELSE "AsIs",
         blocks |-> CASE mode = "strict" -> Restrictions
                      [] custom -> p.blocks
                      [] OTHER -> {},
         ipv6 |-> IPv6ForApi(mode, p.ipv6),
         quad9 |-> IF custom THEN p.quad9 ELSE IF mode = "compat" THEN {} ELSE Formats]

\* normalizePolicyForAPI
ForApi(p) ==
    LET mode == IF p.mode \in Modes THEN p.mode ELSE "compat"
        custom == mode = "custom"
    IN  [mode |-> mode,
         publicDNS |-> ~custom \/ p.publicDNS,
         dns |-> IF mode = "compat" THEN DefaultResolvers
                 ELSE CleanDNSServers(p.dns, ~custom \/ p.publicDNS),
         query |-> IF ~custom THEN "UseIPv4"
                   ELSE IF p.query \in QueryStrategies THEN p.query ELSE "AsIs",
         blocks |-> CASE mode = "strict" -> Restrictions
                      [] custom -> p.blocks
                      [] OTHER -> {},
         ipv6 |-> IPv6ForApi(mode, p.ipv6),
         quad9 |-> IF custom THEN p.quad9 ELSE IF mode = "compat" THEN {} ELSE Formats]

\* xrayDNSPreview and routingPreview, of the policy the status page shows.
Preview(p) ==
    [dns |-> p.dns, query |-> p.query, blocks |-> p.blocks]

-----------------------------------------------------------------------------
(* store.go                                                                *)

\* A panel whose policy was never saved.
DefaultPolicy ==
    [mode |-> "compat", publicDNS |-> FALSE, dns |-> {}, query |-> "AsIs",
     blocks |-> {}, ipv6 |-> "keep", quad9 |-> {}]

\* What the store holds: nothing saved yet, or what the API has normalised.  An
\* unknown choice on IPv6 is stored as "keep" also in the modes that read "keep"
\* as something stricter.
IsStored(p) ==
    \/ p = DefaultPolicy
    \/ /\ p \in Policy /\ p.ipv6 \in IPv6Strategies
       /\ ForApi(p) = [p EXCEPT !.ipv6 = ForApi(p).ipv6]

StoredPolicy == {p \in Policy : IsStored(p)}

\* normalizeNetworkPolicy of the store: repairs values, applies no mode.
ForStore(p) ==
    IF p.mode = "" THEN DefaultPolicy
    ELSE [p EXCEPT
            !.mode = IF @ \in Modes THEN @ ELSE "compat",
            !.dns = IF p.publicDNS /\ @ = {} THEN DefaultResolvers ELSE @,
            !.query = IF @ \in QueryStrategies THEN @ ELSE "AsIs",
            !.ipv6 = IF @ \in IPv6Strategies THEN @ ELSE "keep"]

-----------------------------------------------------------------------------
(* config.go                                                               *)

\* Faulty variant: ForXray without the mode that was added last.
ForXrayWithoutGuard(p) ==
    LET mode == IF p.mode \in Modes \ {"dns_leak_guard"} THEN p.mode ELSE "compat"
        custom == mode = "custom"
        public == ~custom \/ p.publicDNS
    IN  [p EXCEPT
            !.mode = mode,
            !.publicDNS = public,
            !.dns = IF mode = "compat" \/ (public /\ @ = {}) THEN DefaultResolvers ELSE @,
            !.query = IF ~custom THEN "UseIPv4" ELSE IF @ = "" THEN "AsIs" ELSE @,
            !.blocks = IF custom THEN @ ELSE IF mode = "strict" THEN Restrictions ELSE {}]

\* normalizeNetworkPolicy of the generator
ForXray(p) ==
    LET mode == IF p.mode \in Modes THEN p.mode ELSE "compat"
        custom == mode = "custom"
        public == ~custom \/ p.publicDNS
    IN  [p EXCEPT
            !.mode = mode,
            !.publicDNS = public,
            !.dns = IF mode = "compat" \/ (public /\ @ = {}) THEN DefaultResolvers ELSE @,
            !.query = IF ~custom THEN "UseIPv4" ELSE IF @ = "" THEN "AsIs" ELSE @,
            !.blocks = IF custom THEN @ ELSE IF mode = "strict" THEN Restrictions ELSE {}]

\* dnsConfigFromPolicy and applyNetworkPolicy: what Xray is told.
XrayConfig(p) ==
    LET q == ForXray(p)
    IN  [dns |-> q.dns, query |-> q.query, blocks |-> q.blocks]

-----------------------------------------------------------------------------
(* Readers of the stored policy.                                           *)

\* buildClashMetaSubscription and buildSingBoxSubscription
SubscriptionAddsQuad9(p, format) == format \in p.quad9

\* xrayDNSPolicyMessage of the diagnosis names the resolvers, of a list that
\* is empty it says "not configured".
DiagnosedResolvers(p) == p.dns

\* buildSystemChecks: the message about strict options.
ChecksWarn(p) == p.blocks \cap {"fallback", "dns53", "quic"} # {}
=============================================================================
