-------------------------- MODULE ComputationsProofs --------------------------
(***************************************************************************)
(* Theorems about the functions of the system.  Computations checks them   *)
(* on every input of small sets; here access control, the agreement of     *)
(* validation and start, the restored sessions and the two sandboxes are   *)
(* proved of inputs of any size: any options of a channel, any             *)
(* configuration file, any history of the session store, any path and any  *)
(* program of a WASM tool, and names, messages and slots of any size.  The *)
(* last section puts the results together for the specification that TLC   *)
(* checks, whose inputs are among those.                                   *)
(***************************************************************************)
EXTENDS Computations, SequenceTheorems, FiniteSetTheorems, WellFoundedInduction, TLAPS
------------------------------------------------------------------------------
(* Recursion over the numbers up to a last one                               *)

(* A set of natural numbers that holds 0, and with a number the next one,    *)
(* holds them all: what the recursions below are reasoned about with.       *)
LEMMA NatSets ==
    ASSUME NEW T, 0 \in T, \A n \in Nat : n \in T => n + 1 \in T
    PROVE  Nat \subseteq T
<1>. DEFINE bad == Nat \ T
<1>1. SUFFICES ASSUME bad # {} PROVE FALSE
  OBVIOUS
<1>2. PICK m \in bad : \A y \in bad : ~(<<y, m>> \in OpToRel(<, Nat))
  BY <1>1, NatLessThanWellFounded, WFMin
<1>3. m \in Nat /\ m # 0
  BY <1>2
<1>4. m - 1 \in Nat
  BY <1>3
<1>5. m - 1 \in T
  <2>1. <<m - 1, m>> \in OpToRel(<, Nat)
    BY <1>3, <1>4 DEF OpToRel
  <2>. QED BY <1>2, <1>4, <2>1
<1>6. (m - 1) + 1 \in T
  BY <1>4, <1>5
<1>7. (m - 1) + 1 = m
  BY <1>3
<1>. QED BY <1>6, <1>7

(* The same for the numbers up to a last one, by which the instructions of a *)
(* tool and the names of a path are counted.                                *)
LEMMA RangeInduction ==
    ASSUME NEW last \in Nat, NEW T, 0 \in T, \A n \in 1..last : n - 1 \in T => n \in T
    PROVE  0..last \subseteq T
<1>. DEFINE S == {n \in Nat : n <= last => n \in T}
<1>1. 0 \in S
  OBVIOUS
<1>2. ASSUME NEW n \in Nat, n \in S PROVE n + 1 \in S
  <2>1. CASE n + 1 <= last
    <3>1. n + 1 \in 1..last /\ (n + 1) - 1 = n /\ n \in T
      BY <1>2, <2>1
    <3>. QED BY <3>1
  <2>. QED BY <2>1
<1>3. Nat \subseteq S
  <2>. HIDE DEF S
  <2>. QED BY <1>1, <1>2, NatSets
<1>. QED BY <1>3

\* The values of a recursion over 1..last whose step n is the function G[n].
Iterates(f, S, start, last, G) ==
    f \in [0..last -> S] /\ f[0] = start /\ \A n \in 1..last : f[n] = G[n][f[n - 1]]

\* An optional value, {} if there is none.
AtMostOne(S) == {{}} \cup {{x} : x \in S}

(* A recursion that step by step stays in a set has values: the loops that   *)
(* run a history, a tool or the walk along a path are defined everywhere.   *)
LEMMA RecursionExists ==
    ASSUME NEW S, NEW start \in S, NEW last \in Nat, NEW G \in [1..last -> [S -> S]]
    PROVE  \E f : Iterates(f, S, start, last, G)
<1>. DEFINE P(f, k) == f \in [0..k -> S] /\ f[0] = start /\ \A n \in 1..k : f[n] = G[n][f[n - 1]]
            T == {k \in Nat : k <= last => \E f : P(f, k)}
<1>1. 0 \in T
  <2>1. P([n \in 0..0 |-> start], 0)
    OBVIOUS
  <2>. QED BY <2>1
<1>2. ASSUME NEW k \in Nat, k \in T PROVE k + 1 \in T
  <2>1. SUFFICES ASSUME k + 1 <= last PROVE \E f : P(f, k + 1)
    OBVIOUS
  <2>2. PICK f : P(f, k)
    BY <1>2, <2>1
  <2>. DEFINE g == [n \in 0..(k + 1) |-> IF n <= k THEN f[n] ELSE G[n][f[n - 1]]]
  <2>3. k + 1 \in 1..last /\ G[k + 1] \in [S -> S]
    BY <2>1
  <2>4. f[k] \in S
    BY <2>2
  <2>5. g \in [0..(k + 1) -> S]
    <3>1. ASSUME NEW n \in 0..(k + 1) PROVE g[n] \in S
      <4>1. CASE n <= k BY <4>1, <2>2
      <4>2. CASE n = k + 1
        <5>1. g[n] = G[k + 1][f[k]] BY <4>2
        <5>. QED BY <5>1, <2>3, <2>4
      <4>. QED BY <4>1, <4>2
    <3>. QED BY <3>1
  <2>6. g[0] = start
    BY <2>2
  <2>7. ASSUME NEW n \in 1..(k + 1) PROVE g[n] = G[n][g[n - 1]]
    <3>1. CASE n <= k BY <3>1, <2>2
    <3>2. CASE n = k + 1
      <4>1. g[k] = f[k] /\ g[k + 1] = G[k + 1][f[k]]
        OBVIOUS
      <4>. QED BY <3>2, <4>1
    <3>. QED BY <3>1, <3>2
  <2>. HIDE DEF g
  <2>. QED BY <2>5, <2>6, <2>7
<1>. HIDE DEF T
<1>3. last \in T
  BY <1>1, <1>2, NatSets
<1>. USE DEF T
<1>4. PICK f : P(f, last)
  BY <1>3
<1>. QED BY <1>4 DEF Iterates

------------------------------------------------------------------------------
(* Access control: the shapes of options, lists and senders                  *)

AnyEntry == [json : {"*", "num", "digits", "name", "@name", "no name", "other"}, n : Int, name : Names \cup {""}]
AnyList == [array : BOOLEAN, items : Seq(AnyEntry)]
AnyFlag == AtMostOne({"true", "false", "other"})
AnyPolicy == AtMostOne({"open", "allowlist", "disabled", "typo"})
AnyGroup == [key : Int, enabled : AnyFlag, group_policy : AnyPolicy, allowed_users : AtMostOne(AnyList), require_mention : AnyFlag]
AnyOptions == [group_policy : AnyPolicy, allowed_users : AtMostOne(AnyList), require_mention : AnyFlag, groups : SUBSET AnyGroup]
AnySender == [user_id : AtMostOne(Int), username : AtMostOne(Names)]

(* eq_ignore_ascii_case on a name that was lowercased when the list was read *)
(* finds equal only names that are equal in lower case.                     *)
LEMMA NamesFold ==
    ASSUME NEW u \in Names, NEW n \in Names \cup {""}, AsciiFold(u) = AsciiFold(Lower(n))
    PROVE  Lower(u) = Lower(n)
BY DEF Names, AsciiFold, Lower

(* A sender who matches a parsed list is meant by one of its JSON entries:   *)
(* parse_allowlist_entry adds nobody.                                       *)
LEMMA ParsedMeant ==
    ASSUME NEW l \in AnyList, NEW sender \in AnySender, MatchesAny(sender, ParseAllowlist(l))
    PROVE  \E e \in ToSet(l.items) : Meant(e, sender)
<1>1. PICK p \in ParseAllowlist(l) : Matches(sender, p)
  BY DEF MatchesAny
<1>2. PICK e \in ToSet(l.items) : p \in ParseAllowlistEntry(e)
  BY <1>1 DEF ParseAllowlist
<1>3. l.items \in Seq(AnyEntry) /\ e \in AnyEntry
  BY DEF AnyList, ToSet
<1>. HIDE DEF AnyEntry
<1>4. Meant(e, sender)
  <2>1. e.json \in {"*", "num", "digits", "name", "@name", "no name", "other"} /\ e.name \in Names \cup {""}
    BY <1>3 DEF AnyEntry
  <2>2. CASE e.json = "*"
    BY <2>2 DEF Meant
  <2>3. CASE e.json \in {"num", "digits"}
    <3>1. p = UserId(e.n)
      BY <1>2, <2>3 DEF ParseAllowlistEntry
    <3>2. e.n \in sender.user_id
      BY <3>1, <1>1 DEF Matches, UserId
    <3>. QED BY <2>3, <3>2 DEF Meant
  <2>4. CASE e.json \in {"name", "@name"}
    <3>1. p = Username(Lower(e.name))
      BY <1>2, <2>4 DEF ParseAllowlistEntry
    <3>2. PICK u \in sender.username : AsciiFold(u) = AsciiFold(Lower(e.name))
      BY <3>1, <1>1 DEF Matches, Username
    <3>3. u \in Names
      BY <3>2 DEF AnySender, AtMostOne
    <3>4. Lower(u) = Lower(e.name)
      BY <2>1, <3>2, <3>3, NamesFold
    <3>. QED BY <2>4, <3>2, <3>4 DEF Meant
  <2>5. CASE e.json \in {"no name", "other"}
    BY <1>2, <2>5 DEF ParseAllowlistEntry
  <2>. QED BY <2>1, <2>2, <2>3, <2>4, <2>5
<1>. QED BY <1>2, <1>4

(* A policy that parse_group_policy knows is taken as it is written, any     *)
(* other is as if there were none.                                          *)
LEMMA PolicyRead ==
    ASSUME NEW opt \in AnyPolicy
    PROVE  /\ PolicyOf(opt) = {} \/ \E p \in {"open", "allowlist", "disabled"} : PolicyOf(opt) = {p} /\ opt = {p}
           /\ \A p \in {"open", "allowlist", "disabled"} : opt = {p} => PolicyOf(opt) = {p}
<1>1. opt = {} \/ \E s : opt = {s}
  BY DEF AnyPolicy, AtMostOne
<1>2. CASE opt = {}
  BY <1>2 DEF PolicyOf
<1>3. ASSUME NEW s, opt = {s} PROVE PolicyOf(opt) = {s} \cap {"open", "allowlist", "disabled"}
  BY <1>3 DEF PolicyOf, ParseGroupPolicy
<1>. QED BY <1>1, <1>2, <1>3

(* The group a chat belongs to, in the options and in what is parsed. *)
OwnGroups(o, chat) == {g \in o.groups : g.key = chat}

(* The group from_options keeps for a chat is made of the entry of that key. *)
LEMMA GroupRead ==
    ASSUME NEW o \in AnyOptions, NEW chat \in Int \ {0}
    PROVE  GroupOf(FromOptions({o}), chat) = {GroupFromOptions(g) : g \in OwnGroups(o, chat)}
<1>1. FromOptions({o}).groups = {GroupFromOptions(g) : g \in {g \in o.groups : g.key # 0}}
  BY DEF FromOptions
<1>2. \A g \in o.groups : GroupFromOptions(g).chat_id = g.key
  BY DEF GroupFromOptions
<1>. QED BY <1>1, <1>2 DEF GroupOf, OwnGroups

(* Where the operator has a list, whoever no entry names matches neither the *)
(* list of the channel nor the list that holds in the group.                *)
LEMMA StrangersMatchNothing ==
    ASSUME NEW o \in AnyOptions, NEW sender \in AnySender, NEW chat \in Int \ {0}, o.allowed_users # {},
           ~MeantIn(o.allowed_users \cup UNION {g.allowed_users : g \in OwnGroups(o, chat)}, sender)
    PROVE  /\ ~MatchesAny(sender, FromOptions({o}).allowed_users)
           /\ ~MatchesAny(sender, EffectiveUsers(FromOptions({o}), chat))
<1>. DEFINE lists == o.allowed_users \cup UNION {g.allowed_users : g \in OwnGroups(o, chat)}
<1>1. ASSUME NEW l \in lists PROVE l \in AnyList /\ ~MatchesAny(sender, ParseAllowlist(l))
  <2>1. l \in AnyList
    BY DEF AnyOptions, AnyGroup, OwnGroups, AtMostOne
  <2>. QED BY <2>1, ParsedMeant DEF MeantIn
<1>2. ~MatchesAny(sender, FromOptions({o}).allowed_users)
  <2>1. PICK l \in AnyList : o.allowed_users = {l}
    BY DEF AnyOptions, AtMostOne
  <2>2. FromOptions({o}).allowed_users = ParseAllowlist(l)
    BY <2>1 DEF FromOptions
  <2>. QED BY <1>1, <2>1, <2>2
<1>3. ASSUME NEW g \in OwnGroups(o, chat) PROVE ~MatchesAny(sender, GroupFromOptions(g).allowed_users)
  <2>1. GroupFromOptions(g).allowed_users = UNION {ParseAllowlist(v) : v \in g.allowed_users}
    BY DEF GroupFromOptions
  <2>2. \A l \in g.allowed_users : ~MatchesAny(sender, ParseAllowlist(l))
    BY <1>1
  <2>. QED BY <2>1, <2>2 DEF MatchesAny
<1>4. \A h \in GroupOf(FromOptions({o}), chat) : ~MatchesAny(sender, h.allowed_users)
  BY <1>3, GroupRead
<1>. QED BY <1>2, <1>4 DEF EffectiveUsers

\* A channel with any options, a sender who writes anywhere.  A group has one entry:
\* the keys of a JSON object are distinct.
AnyAccessInput ==
    {i \in [fn : {"access"}, options : AtMostOne(AnyOptions), sender : AnySender, group : BOOLEAN,
            mentioned : BOOLEAN] :
        \A o \in i.options : \A g, h \in o.groups : g.key = h.key /\ g.key # 0 => g = h}

(* What evaluate_group rests on, in the terms of the options: the switch of  *)
(* the group's own entry, its policy unless it is missing or unknown, its    *)
(* mention rule, and those of the channel where the group has no entry.     *)
LEMMA GroupDecision ==
    ASSUME NEW o \in AnyOptions, NEW own, own = OwnGroups(o, 1), \A g, h \in own : g = h
    PROVE  LET cfg == FromOptions({o})
               chosen == IF \E g \in own : g.group_policy \in {{"open"}, {"allowlist"}}
                         THEN UNION {g.group_policy : g \in own} ELSE o.group_policy
           IN  /\ \A g \in own : g.enabled = {"false"} => \E h \in GroupOf(cfg, 1) : ~h.enabled
               /\ chosen \in {{"allowlist"}, {"disabled"}} => EffectivePolicy(cfg, 1) \in {"allowlist", "disabled"}
               /\ {"true"} \in {g.require_mention : g \in IF own = {} THEN {o} ELSE own} => RequireMention(cfg, 1)
<1>. DEFINE cfg == FromOptions({o})
            chosen == IF \E g \in own : g.group_policy \in {{"open"}, {"allowlist"}}
                      THEN UNION {g.group_policy : g \in own} ELSE o.group_policy
<1>1. GroupOf(cfg, 1) = {GroupFromOptions(g) : g \in own}
  BY GroupRead
<1>2. o.group_policy \in AnyPolicy /\ \A g \in own : g.group_policy \in AnyPolicy
  BY DEF AnyOptions, AnyGroup, OwnGroups
<1>3. \A g \in own : /\ GroupFromOptions(g).enabled = BoolOr(g.enabled, TRUE)
                     /\ GroupFromOptions(g).require_mention = BoolOr(g.require_mention, FALSE)
                     /\ GroupFromOptions(g).group_policy = PolicyOf(g.group_policy)
  BY DEF GroupFromOptions
<1>4. /\ cfg.default_require_mention = BoolOr(o.require_mention, FALSE)
      /\ cfg.group_policy = PolicyOr(o.group_policy, "open")
  <2>1. (CHOOSE x \in {o} : TRUE) = o /\ {o} # {}
    OBVIOUS
  <2>2. cfg.default_require_mention = BoolOr(o.require_mention, FALSE)
    BY <2>1 DEF FromOptions
  <2>3. cfg.group_policy = PolicyOr(o.group_policy, "open")
    BY <2>1 DEF FromOptions
  <2>. QED BY <2>2, <2>3
<1>. HIDE DEF cfg
<1>5. ASSUME NEW g \in own, g.enabled = {"false"} PROVE \E h \in GroupOf(cfg, 1) : ~h.enabled
  <2>1. BoolOr(g.enabled, TRUE) = FALSE
    BY <1>5 DEF BoolOr
  <2>. QED BY <1>1, <1>3, <2>1, ZenonT(40)
<1>6. ASSUME {"true"} \in {g.require_mention : g \in IF own = {} THEN {o} ELSE own} PROVE RequireMention(cfg, 1)
  <2>1. BoolOr({"true"}, FALSE)
    BY DEF BoolOr
  <2>2. CASE own = {}
    BY <1>1, <1>4, <1>6, <2>1, <2>2 DEF RequireMention
  <2>3. CASE own # {}
    <3>1. PICK g \in own : g.require_mention = {"true"}
      BY <1>6, <2>3
    <3>2. GroupFromOptions(g) \in GroupOf(cfg, 1) /\ GroupFromOptions(g).require_mention
      BY <1>1, <1>3, <2>1, <3>1
    <3>. QED BY <3>2 DEF RequireMention
  <2>. QED BY <2>2, <2>3
<1>7. ASSUME chosen \in {{"allowlist"}, {"disabled"}} PROVE EffectivePolicy(cfg, 1) \in {"allowlist", "disabled"}
  <2>. DEFINE mine == UNION {h.group_policy : h \in GroupOf(cfg, 1)}
  <2>1. PICK c \in {"allowlist", "disabled"} : chosen = {c}
    BY <1>7
  <2>2. CASE own = {}
    <3>1. mine = {} /\ o.group_policy = {c}
      BY <1>1, <2>1, <2>2
    <3>2. PolicyOf(o.group_policy) = {c}
      BY <1>2, <2>1, <3>1, PolicyRead
    <3>. QED BY <1>4, <3>1, <3>2 DEF EffectivePolicy, PolicyOr
  <2>3. ASSUME NEW g \in own PROVE EffectivePolicy(cfg, 1) \in {"allowlist", "disabled"}
    <3>1. own = {g}
      BY <2>3
    <3>2. mine = PolicyOf(g.group_policy)
      <4>1. GroupOf(cfg, 1) = {GroupFromOptions(g)}
        BY <1>1, <3>1
      <4>2. mine = GroupFromOptions(g).group_policy
        BY <4>1
      <4>. QED BY <1>3, <4>2
    <3>3. \/ PolicyOf(g.group_policy) = {}
          \/ \E p \in {"open", "allowlist", "disabled"} : PolicyOf(g.group_policy) = {p} /\ g.group_policy = {p}
      BY <1>2, PolicyRead
    <3>4. CASE PolicyOf(g.group_policy) = {}
      <4>1. g.group_policy \notin {{"open"}, {"allowlist"}}
        BY <1>2, <3>4, PolicyRead
      <4>2. o.group_policy = {c}
        BY <2>1, <3>1, <4>1
      <4>3. PolicyOf(o.group_policy) = {c}
        BY <1>2, <2>1, <4>2, PolicyRead
      <4>. QED BY <1>4, <3>2, <3>4, <4>3 DEF EffectivePolicy, PolicyOr
    <3>5. ASSUME NEW p \in {"open", "allowlist", "disabled"}, PolicyOf(g.group_policy) = {p}, g.group_policy = {p}
          PROVE  EffectivePolicy(cfg, 1) \in {"allowlist", "disabled"}
      <4>1. EffectivePolicy(cfg, 1) = p
        BY <3>2, <3>5 DEF EffectivePolicy
      <4>2. CASE p \in {"open", "allowlist"}
        <5>1. chosen = {p}
          BY <3>1, <3>5, <4>2
        <5>. QED BY <2>1, <4>1, <5>1
      <4>. QED BY <4>1, <4>2
    <3>. QED BY <3>3, <3>4, <3>5
  <2>. QED BY <2>2, <2>3
<1>. QED BY <1>5, <1>6, <1>7 DEF cfg

(* Access control (access_control.rs), whatever the options of a channel,    *)
(* whoever writes and wherever: no stranger is answered but in a group that  *)
(* is open, and where one is refused for the list what they said is withheld.*)
THEOREM StrangersKeptOutHolds ==
    ASSUME input.fn = "access" => input \in AnyAccessInput
    PROVE  StrangersKeptOut
<1>1. SUFFICES ASSUME input.fn = "access", input.options # {} PROVE StrangersKeptOut
  BY DEF StrangersKeptOut
<1>2. PICK o \in AnyOptions : input.options = {o}
  BY <1>1 DEF AnyAccessInput, AtMostOne
<1>. DEFINE cfg == FromOptions({o})
            own == OwnGroups(o, 1)
            lists == o.allowed_users \cup UNION {g.allowed_users : g \in own}
            decision == EvaluateAccess(cfg, 1, input.sender, input.group, input.mentioned)
            chosen == IF \E g \in own : g.group_policy \in {{"open"}, {"allowlist"}}
                      THEN UNION {g.group_policy : g \in own} ELSE o.group_policy
            asks == {"true"} \in {g.require_mention : g \in IF own = {} THEN {o} ELSE own}
<1>3. /\ input.sender \in AnySender /\ input.group \in BOOLEAN /\ input.mentioned \in BOOLEAN
      /\ \A g, h \in own : g = h
  BY <1>1, <1>2 DEF AnyAccessInput, OwnGroups
<1>4. SUFFICES ASSUME o.allowed_users # {}, ~MeantIn(lists, input.sender)
               PROVE  /\ decision = "allow" => /\ input.group
                                               /\ chosen \notin {{"allowlist"}, {"disabled"}}
                                               /\ \A g \in own : g.enabled # {"false"}
                                               /\ asks => input.mentioned
                      /\ decision = "group_sender_not_allowed" => ShouldSuppressReplyContext(cfg, 1, input.sender, TRUE)
  <2>1. (CHOOSE x \in input.options : TRUE) = o
    BY <1>2
  <2>. QED BY <1>2, <2>1 DEF StrangersKeptOut, OwnGroups
<1>5. ~MatchesAny(input.sender, cfg.allowed_users) /\ ~MatchesAny(input.sender, EffectiveUsers(cfg, 1))
  BY <1>3, <1>4, StrangersMatchNothing
<1>6. /\ \A g \in own : g.enabled = {"false"} => \E h \in GroupOf(cfg, 1) : ~h.enabled
      /\ chosen \in {{"allowlist"}, {"disabled"}} => EffectivePolicy(cfg, 1) \in {"allowlist", "disabled"}
      /\ asks => RequireMention(cfg, 1)
  BY <1>3, GroupDecision
<1>. HIDE DEF cfg, own, chosen, asks
<1>7. CASE ~input.group
  BY <1>5, <1>7 DEF EvaluateAccess, EvaluateDm
<1>8. CASE input.group
  <2>1. decision = EvaluateGroup(cfg, 1, input.sender, input.mentioned)
    BY <1>8 DEF EvaluateAccess
  <2>2. decision = "allow" => /\ \A h \in GroupOf(cfg, 1) : h.enabled
                              /\ EffectivePolicy(cfg, 1) \notin {"allowlist", "disabled"}
                              /\ RequireMention(cfg, 1) => input.mentioned
    BY <1>5, <2>1, Zenon DEF EvaluateGroup
  <2>3. decision = "group_sender_not_allowed" => EffectivePolicy(cfg, 1) = "allowlist"
    BY <2>1 DEF EvaluateGroup
  <2>. QED BY <1>5, <1>6, <1>8, <2>2, <2>3 DEF ShouldSuppressReplyContext
<1>. QED BY <1>3, <1>7, <1>8

------------------------------------------------------------------------------
(* Validation and start                                                      *)

(* Loading a file gives one configuration or none.                          *)
LEMMA OneConfiguration ==
    ASSUME NEW file, NEW env, NEW c \in Load(file, env)
    PROVE  Load(file, env) = {c}
BY DEF Load

(* validate_agents finds nothing only where every agent could be spawned:    *)
(* the first word of a local command and the working directory are there,    *)
(* the limits of a container are ones that Docker is given later.           *)
LEMMA AgentsChecked ==
    ASSUME NEW c, NEW disk, ValidateAgents(c, disk) = {}, NEW a \in DOMAIN c.agents_manager.agents
    PROVE  LET w == c.agents_manager.agents[a].workspace
           IN  IF w.type = "local" THEN w.binary[1] \in disk /\ w.working_dir \subseteq disk
               ELSE /\ \A l \in w.memory_limit : ParseMemoryLimit(l) # Refused
                    /\ \A l \in w.cpu_limit : ParseCpuLimit(l) # Refused
<1>. DEFINE w == c.agents_manager.agents[a].workspace
            found == IF w.type = "local" THEN ValidateLocalAgent(a, w, disk) ELSE ValidateDockerAgent(a, w)
<1>1. found = {}
  BY DEF ValidateAgents
<1>2. CASE w.type = "local"
  <2>1. ValidateLocalAgent(a, w, disk) = {}
    BY <1>1, <1>2
  <2>. HIDE DEF w
  <2>2. w.binary[1] \in disk /\ w.working_dir \subseteq disk
    BY <2>1 DEF ValidateLocalAgent, BinaryExists
  <2>. QED BY <1>2, <2>2 DEF w
<1>3. CASE w.type # "local"
  <2>1. ValidateDockerAgent(a, w) = {}
    BY <1>1, <1>3
  <2>. HIDE DEF w
  <2>2. /\ \A l \in w.memory_limit : ParseMemoryLimit(l) # Refused
        /\ \A l \in w.cpu_limit : ParseCpuLimit(l) # Refused
    BY <2>1 DEF ValidateDockerAgent
  <2>. QED BY <1>3, <2>2 DEF w
<1>. QED BY <1>2, <1>3

(* No error of validate_config, and nothing that is enabled fails to spawn.  *)
LEMMA ValidSpawns ==
    ASSUME NEW c, NEW disk, ValidateConfig(c, disk) = {}
    PROVE  SpawnFailures(c, disk) = {}
<1>1. /\ ValidateAgents(c, disk) = {} /\ ValidateChannelBinaries(c, disk) = {}
      /\ ValidateToolBinaries(c, disk) = {}
  BY DEF ValidateConfig
<1>2. {a \in DOMAIN c.agents_manager.agents :
            LET g == c.agents_manager.agents[a]
            IN  /\ g.enabled
                /\ IF g.workspace.type = "local"
                   THEN g.workspace.binary[1] \notin disk \/ ~(g.workspace.working_dir \subseteq disk)
                   ELSE \/ \E l \in g.workspace.memory_limit : ParseMemoryLimit(l) = Refused
                        \/ \E l \in g.workspace.cpu_limit : ParseCpuLimit(l) = Refused} = {}
  BY <1>1, AgentsChecked
<1>3. \A h \in DOMAIN c.channels_manager.channels : c.channels_manager.channels[h].binary \in disk
  BY <1>1 DEF ValidateChannelBinaries, BinaryExists
<1>4. \A t \in DOMAIN c.tools_manager.tools : \A b \in c.tools_manager.tools[t].binary : b \in disk
  BY <1>1 DEF ValidateToolBinaries, BinaryExists
<1>. QED BY <1>2, <1>3, <1>4 DEF SpawnFailures

(* A file that `anyclaw validate` calls valid loads, does not panic, boots,  *)
(* and is resolved to the configuration that was checked.                   *)
LEMMA ValidStarts ==
    ASSUME NEW file, NEW strict, NEW disk, NEW env, ValidateCommand(file, strict, disk, env) = "valid"
    PROVE  RunCommand(file, env) = "boots" /\ SpawnFailures(BootedConfig(file, env), disk) = {}
<1>1. /\ Load(file, env) # {}
      /\ \A c \in Load(file, env) : ~Panics(c) /\ ValidateConfig(ResolveAllBinaryPaths(c), disk) = {}
  BY Zenon DEF ValidateCommand
<1>2. PICK c \in Load(file, env) : TRUE
  BY <1>1
<1>3. BootedConfig(file, env) = ResolveAllBinaryPaths(c)
  <2>1. (CHOOSE x \in Load(file, env) : TRUE) = c
    BY <1>2, OneConfiguration
  <2>. QED BY <2>1 DEF BootedConfig
<1>4. RunCommand(file, env) = "boots"
  BY <1>1, Zenon DEF RunCommand
<1>. QED BY <1>1, <1>2, <1>3, <1>4, ValidSpawns

(* `anyclaw validate` and `anyclaw run` agree, for every file, every disk    *)
(* and either strictness: what is called valid boots, and nothing of it that *)
(* is enabled fails to spawn.                                               *)
THEOREM ValidatedStartsHolds == ValidatedStarts
BY ValidStarts DEF ValidatedStarts

------------------------------------------------------------------------------
(* The session store                                                         *)

\* The functions from some of the elements of K to V.
Maps(K, V) == UNION {[D -> V] : D \in SUBSET K}

(* A row that is written leaves a table of rows.                            *)
LEMMA MapReplaced ==
    ASSUME NEW K, NEW V, NEW t \in Maps(K, V), NEW k \in K, NEW v \in V
    PROVE  Replaced(t, k, v) \in Maps(K, V)
<1>1. PICK D \in SUBSET K : t \in [D -> V]
  BY DEF Maps
<1>2. Replaced(t, k, v) \in [{k} \cup D -> V]
  BY <1>1 DEF Replaced
<1>. QED BY <1>1, <1>2 DEF Maps

(* A table from which rows are deleted stays one.                           *)
LEMMA MapRestricted ==
    ASSUME NEW K, NEW V, NEW t \in Maps(K, V), NEW D \in SUBSET DOMAIN t
    PROVE  [x \in D |-> t[x]] \in Maps(K, V)
<1>1. PICK E \in SUBSET K : t \in [E -> V]
  BY DEF Maps
<1>2. D \in SUBSET K /\ [x \in D |-> t[x]] \in [D -> V]
  BY <1>1
<1>. QED BY <1>2 DEF Maps

(* The keys and the rows of a table.                                        *)
LEMMA MapValues ==
    ASSUME NEW K, NEW V, NEW t \in Maps(K, V)
    PROVE  DOMAIN t \in SUBSET K /\ \A x \in DOMAIN t : t[x] \in V
BY DEF Maps

(* The empty table has no rows.                                             *)
LEMMA EmptyMap ==
    ASSUME NEW K, NEW V
    PROVE  EmptyTable \in Maps(K, V) /\ (\A k : k \notin DOMAIN EmptyTable)
<1>1. EmptyTable = [x \in {} |-> 0] 
  BY DEF EmptyTable
<1>2. [x \in {} |-> 0] \in [{} -> V]
  OBVIOUS
<1>. QED BY <1>1, <1>2 DEF Maps

(* Stores *)
OpenRows(K, A) ==
    [session_key : K, agent_name : A, acp_session_id : Int, created_at : Int, last_active_at : Int, closed : {FALSE}]
Stores(K, A) == [kind : {"file", "memory", "noop"}, table : Maps(K, OpenRows(K, A))]
AnyStoreConfig(P) == [type : {"none"}] \cup [type : {"sqlite"}, path : AtMostOne(P), ttl_days : Int]
AnyStoreOp(K, A) ==
    [op : {"day"}] \cup [op : {"prompt"}, key : K] \cup [op : {"create"}, key : K, agent : A, ok : BOOLEAN]
    \cup [op : {"restart program"}, ok : BOOLEAN, slots : SUBSET A] \cup [op : {"restart manager"}, slots : SUBSET A]

Fits(config, h) ==
    config.type = "sqlite" /\ config.path # {} =>
        /\ h.store.kind \in {"file", "noop"}
        /\ DOMAIN OnDisk(h) \subseteq DOMAIN h.sessions
        /\ \A k \in DOMAIN h.sessions :
              IF k \in DOMAIN OnDisk(h) THEN OnDisk(h)[k] = h.sessions[k]
              ELSE h.sessions[k].last_active_at < h.now - config.ttl_days
Histories(config, K, A) ==
    {h \in [store : Stores(K, A), disk : Maps(K, OpenRows(K, A)),
            now : Int, next : Int, stale : SUBSET OpenRows(K, A), sessions : Maps(K, OpenRows(K, A)), used : Maps(K, Int)] :
        Fits(config, h)}

(* Every session that load_open_sessions returns is a row of the table.     *)
LEMMA StaleIsStored ==
    ASSUME NEW store, NEW slots, NEW r \in StaleSessions(store, slots)
    PROVE  \E k \in DOMAIN store.table : r = store.table[k]
BY DEF StaleSessions, LoadOpenSessions

(* build_stores: a database in a file keeps what the file holds, unless it   *)
(* cannot be opened; without one the store starts empty.                    *)
LEMMA StoreBuilt ==
    ASSUME NEW K, NEW A, NEW P, NEW config \in AnyStoreConfig(P), NEW opens \in BOOLEAN, NEW file \in Maps(K, OpenRows(K, A))
    PROVE  LET s == BuildStores(config, opens, file)
           IN  /\ s \in Stores(K, A)
               /\ config.type = "sqlite" /\ config.path # {} =>
                      IF opens THEN s = [kind |-> "file", table |-> file] ELSE s.kind = "noop"
               /\ config.type = "none" \/ config.path = {} => s.table = EmptyTable
<1>. DEFINE s == BuildStores(config, opens, file)
            T == Maps(K, OpenRows(K, A))
<1>1. EmptyTable \in T
  BY EmptyMap
<1>. SUFFICES /\ s \in [kind : {"file", "memory", "noop"}, table : T]
              /\ config.type = "sqlite" /\ config.path # {} =>
                      IF opens THEN s = [kind |-> "file", table |-> file] ELSE s.kind = "noop"
              /\ config.type = "none" \/ config.path = {} => s.table = EmptyTable
  BY Zenon DEF Stores
<1>0. file \in T
  OBVIOUS
<1>. HIDE DEF T, s
<1>2. CASE config.type = "none" \/ ~opens
  <2>1. s = [kind |-> "noop", table |-> EmptyTable]
    BY <1>2 DEF BuildStores, s
  <2>2. config.type = "none" => config.type # "sqlite"
    OBVIOUS
  <2>3. ~(config.type = "sqlite" /\ config.path # {}) \/ ~opens
    BY <1>2, <2>2
  <2>. QED BY <1>1, <2>1, <2>3
<1>3. CASE config.type = "sqlite" /\ opens
  <2>1. s = IF config.path # {} THEN [kind |-> "file", table |-> file] ELSE [kind |-> "memory", table |-> EmptyTable]
    BY <1>3 DEF BuildStores, s
  <2>3. CASE config.path # {}
    <3>1. s = [kind |-> "file", table |-> file]
      BY <2>1, <2>3
    <3>. QED BY <1>0, <1>3, <2>3, <3>1
  <2>4. CASE config.path = {}
    <3>1. s = [kind |-> "memory", table |-> EmptyTable]
      BY <2>1, <2>4
    <3>. QED BY <1>1, <2>4, <3>1
  <2>. QED BY <2>3, <2>4
<1>4. config.type \in {"none", "sqlite"}
  BY DEF AnyStoreConfig
<1>. QED BY <1>2, <1>3, <1>4

(* The inductive step of the histories: a day, a session that is created or  *)
(* used, and a restart of the manager or of the program, keep the agreement  *)
(* of the file with the sessions that were written last.                    *)
LEMMA StepFits ==
    ASSUME NEW K, NEW A, NEW P, NEW config \in AnyStoreConfig(P), NEW h \in Histories(config, K, A),
           NEW B, NEW op \in AnyStoreOp(K, B), op.op = "create" => op.agent \in A
    PROVE  Step(config, h, op) \in Histories(config, K, A)
<1>. DEFINE R == OpenRows(K, A)
            T == Maps(K, R)
            S == [kind : {"file", "memory", "noop"}, table : T]
            H == [store : S, disk : T, now : Int, next : Int, stale : SUBSET R, sessions : T, used : Maps(K, Int)]
            g == Step(config, h, op)
            kept == config.type = "sqlite" /\ config.path # {}
<1>1. h \in H /\ Fits(config, h)
  BY DEF Histories, Stores
<1>2. SUFFICES g \in H /\ Fits(config, g)
  BY DEF Histories, Stores
<1>3. /\ h.store \in S /\ h.disk \in T /\ h.now \in Int /\ h.next \in Int /\ h.sessions \in T /\ h.used \in Maps(K, Int)
      /\ h.stale \in SUBSET R
  BY <1>1
<1>4. OnDisk(h) \in T
  BY <1>3 DEF OnDisk
<1>5. SessionTtl(config) \in Int /\ (kept => SessionTtl(config) = config.ttl_days)
  BY DEF SessionTtl, AnyStoreConfig
<1>6. \A k \in DOMAIN h.sessions : h.sessions[k] \in R
  BY <1>3, MapValues
<1>7. \A r \in R : r.last_active_at \in Int
  BY DEF OpenRows
<1>. HIDE DEF R, T, g
<1>8. CASE op.op = "day"
  <2>1. g = [h EXCEPT !.now = @ + 1]
    BY <1>8 DEF g, Step
  <2>2. g \in H
    BY <1>1, <2>1
  <2>3. g.now = h.now + 1 /\ g.sessions = h.sessions /\ OnDisk(g) = OnDisk(h) /\ g.store = h.store
    BY <1>1, <2>1 DEF OnDisk
  <2>4. ASSUME kept PROVE config.ttl_days \in Int
    BY <2>4, <1>5
  <2>. QED BY <1>1, <1>3, <1>6, <1>7, <2>2, <2>3, <2>4 DEF Fits
<1>9. CASE op.op = "prompt"
  <2>1. g = [h EXCEPT !.used = Replaced(@, op.key, h.now)]
    BY <1>9 DEF g, Step
  <2>2. op.key \in K
    BY <1>9 DEF AnyStoreOp
  <2>3. Replaced(h.used, op.key, h.now) \in Maps(K, Int)
    BY <1>3, <2>2, MapReplaced
  <2>4. g \in H
    BY <1>1, <2>1, <2>3
  <2>5. g.now = h.now /\ g.sessions = h.sessions /\ OnDisk(g) = OnDisk(h) /\ g.store = h.store
    BY <1>1, <2>1 DEF OnDisk
  <2>. QED BY <1>1, <2>4, <2>5 DEF Fits
<1>10. CASE op.op = "create"
  <2>. DEFINE row == NewRow(op.key, op.agent, h.next, h.now)
              up(t) == Replaced(t, op.key, row)
              lands == op.ok /\ h.store.kind = "file"
  <2>1. g = [h EXCEPT !.store = Persist(@, row, op.ok), !.next = @ + 1, !.used = Replaced(@, op.key, h.now),
                      !.sessions = IF lands THEN up(@) ELSE @]
    BY <1>10 DEF g, Step
  <2>2. op.key \in K /\ op.agent \in A /\ op.ok \in BOOLEAN
    BY <1>10 DEF AnyStoreOp
  <2>3. row \in R /\ row.session_key = op.key /\ row.last_active_at = h.now
    BY <1>3, <2>2 DEF NewRow, R, OpenRows
  <2>. HIDE DEF row
  <2>4. Replaced(h.used, op.key, h.now) \in Maps(K, Int)
    BY <1>3, <2>2, MapReplaced
  <2>5. \A t \in T : /\ up(t) \in T /\ (\A x : x \in DOMAIN up(t) <=> x = op.key \/ x \in DOMAIN t) /\ up(t)[op.key] = row
                     /\ \A x \in DOMAIN t : x # op.key => up(t)[x] = t[x]
    <3>. SUFFICES ASSUME NEW t \in T
                  PROVE  /\ up(t) \in T /\ (\A x : x \in DOMAIN up(t) <=> x = op.key \/ x \in DOMAIN t) /\ up(t)[op.key] = row
                         /\ \A x \in DOMAIN t : x # op.key => up(t)[x] = t[x]
      OBVIOUS
    <3>1. Replaced(t, op.key, row) \in T
      BY <2>2, <2>3, MapReplaced DEF T
    <3>2. /\ \A x : x \in DOMAIN Replaced(t, op.key, row) <=> x = op.key \/ x \in DOMAIN t
          /\ Replaced(t, op.key, row)[op.key] = row
          /\ \A x \in DOMAIN t : x # op.key => Replaced(t, op.key, row)[x] = t[x]
      BY DEF Replaced
    <3>. QED BY <3>1, <3>2
  <2>6. Persist(h.store, row, op.ok) = IF h.store.kind = "noop" \/ ~op.ok THEN h.store ELSE [h.store EXCEPT !.table = up(@)]
    BY <2>3 DEF Persist, UpsertSession
  <2>. HIDE DEF up
  <2>7. Persist(h.store, row, op.ok) \in S
    BY <1>3, <2>5, <2>6
  <2>8. g \in H
    <3>1. (IF lands THEN up(h.sessions) ELSE h.sessions) \in T /\ h.next + 1 \in Int
      BY <1>3, <2>5
    <3>. HIDE DEF S, lands
    <3>. QED BY <1>1, <2>1, <2>4, <2>7, <3>1
  <2>9. /\ g.now = h.now /\ g.store = Persist(h.store, row, op.ok) /\ g.disk = h.disk
        /\ g.sessions = IF lands THEN up(h.sessions) ELSE h.sessions
    BY <1>1, <2>1
  <2>10. g.store.kind = h.store.kind
    BY <1>3, <2>6, <2>9
  <2>11. ASSUME kept PROVE Fits(config, g)
    <3>1. CASE lands
      <4>1. g.store = [h.store EXCEPT !.table = up(@)]
        BY <2>6, <2>9, <3>1
      <4>2. g.store.table = up(h.store.table)
        BY <1>3, <4>1
      <4>3. OnDisk(g) = up(OnDisk(h)) /\ g.sessions = up(h.sessions)
        BY <2>9, <2>10, <3>1, <4>2 DEF OnDisk
      <4>. QED BY <1>1, <1>3, <1>4, <2>5, <2>9, <2>10, <2>11, <4>3 DEF Fits
    <3>2. CASE ~lands
      <4>1. h.store.kind \in {"file", "noop"}
        BY <1>1, <2>11 DEF Fits
      <4>2. g.store = h.store
        BY <2>2, <2>6, <2>9, <3>2, <4>1
      <4>3. OnDisk(g) = OnDisk(h) /\ g.sessions = h.sessions
        BY <2>9, <3>2, <4>2 DEF OnDisk
      <4>. QED BY <1>1, <2>9, <2>10, <4>3 DEF Fits
    <3>. QED BY <3>1, <3>2
  <2>. QED BY <2>8, <2>11 DEF Fits
<1>11. ASSUME NEW st \in S, NEW disk \in T, NEW slots,
              g = [h EXCEPT !.store = StartStore(st, h.now, SessionTtl(config)), !.disk = disk,
                            !.stale = StaleSessions(StartStore(st, h.now, SessionTtl(config)), slots)],
              kept => \/ st.kind = "file" /\ st.table = OnDisk(h)
                      \/ st.kind = "noop" /\ disk = OnDisk(h)
       PROVE  g \in H /\ Fits(config, g)
  <2>. DEFINE s == StartStore(st, h.now, SessionTtl(config))
  <2>1. /\ s \in S /\ s.kind = st.kind
        /\ \A k : k \in DOMAIN s.table <=> k \in DOMAIN st.table /\ ~(st.table[k].last_active_at < h.now - SessionTtl(config))
        /\ \A k \in DOMAIN s.table : s.table[k] = st.table[k]
        /\ StaleSessions(s, slots) \in SUBSET R
    <3>. DEFINE young == {k \in DOMAIN st.table : ~(st.table[k].last_active_at < h.now - SessionTtl(config))}
                u == [k \in young |-> st.table[k]]
    <3>1. s = [kind |-> st.kind, table |-> u]
      BY <1>11 DEF StartStore, DeleteExpired
    <3>2. st.table \in T /\ st.kind \in {"file", "memory", "noop"}
      BY <1>11
    <3>3. u \in T
      BY <3>2, MapRestricted DEF T
    <3>4. \A k \in DOMAIN u : u[k] \in R
      BY <3>3, MapValues DEF T
    <3>5. \A k : k \in DOMAIN u <=> k \in DOMAIN st.table /\ ~(st.table[k].last_active_at < h.now - SessionTtl(config))
      OBVIOUS
    <3>6. \A k \in DOMAIN u : u[k] = st.table[k]
      OBVIOUS
    <3>. HIDE DEF s, u
    <3>7. s.table = u /\ s.kind = st.kind /\ s \in S
      BY <3>1, <3>2, <3>3
    <3>8. StaleSessions(s, slots) \in SUBSET R
      BY <3>4, <3>7, StaleIsStored
    <3>. QED BY <3>5, <3>6, <3>7, <3>8
  <2>. HIDE DEF s
  <2>2. g = [h EXCEPT !.store = s, !.disk = disk, !.stale = StaleSessions(s, slots)]
    BY <1>11 DEF s
  <2>3. g \in H
    BY <1>1, <1>11, <2>1, <2>2
  <2>4. g.now = h.now /\ g.sessions = h.sessions /\ g.store = s /\ g.disk = disk
    BY <1>1, <2>2
  <2>5. ASSUME kept, st.kind = "file", st.table = OnDisk(h) PROVE Fits(config, g)
    <3>1. OnDisk(g) = s.table
      BY <2>1, <2>4, <2>5 DEF OnDisk
    <3>. QED BY <1>1, <1>5, <2>1, <2>4, <2>5, <3>1 DEF Fits
  <2>6. ASSUME kept, st.kind = "noop", disk = OnDisk(h) PROVE Fits(config, g)
    <3>1. OnDisk(g) = OnDisk(h)
      BY <2>1, <2>4, <2>6 DEF OnDisk
    <3>. QED BY <1>1, <2>1, <2>4, <2>6, <3>1 DEF Fits
  <2>. QED BY <1>11, <2>3, <2>5, <2>6 DEF Fits
<1>12. CASE op.op = "restart manager"
  <2>1. g = [h EXCEPT !.store = StartStore(h.store, h.now, SessionTtl(config)),
                      !.stale = StaleSessions(StartStore(h.store, h.now, SessionTtl(config)), op.slots)]
    BY <1>12 DEF g, Step
  <2>2. g = [h EXCEPT !.store = StartStore(h.store, h.now, SessionTtl(config)), !.disk = h.disk,
                      !.stale = StaleSessions(StartStore(h.store, h.now, SessionTtl(config)), op.slots)]
    BY <1>1, <2>1
  <2>3. kept => \/ h.store.kind = "file" /\ h.store.table = OnDisk(h)
                \/ h.store.kind = "noop" /\ h.disk = OnDisk(h)
    BY <1>1 DEF Fits, OnDisk
  <2>. QED BY <1>3, <1>11, <2>2, <2>3
<1>13. CASE op.op = "restart program"
  <2>1. op.ok \in BOOLEAN
    BY <1>13 DEF AnyStoreOp
  <2>. DEFINE st == BuildStores(config, op.ok, OnDisk(h))
  <2>2. st \in S /\ (kept => IF op.ok THEN st = [kind |-> "file", table |-> OnDisk(h)] ELSE st.kind = "noop")
    BY <1>4, <2>1, StoreBuilt DEF T, R, Stores
  <2>3. g = [h EXCEPT !.store = StartStore(st, h.now, SessionTtl(config)), !.disk = OnDisk(h),
                      !.stale = StaleSessions(StartStore(st, h.now, SessionTtl(config)), op.slots)]
    BY <1>13 DEF g, Step
  <2>. HIDE DEF st
  <2>. QED BY <1>4, <1>11, <2>2, <2>3
<1>14. op.op \in {"day", "prompt", "create", "restart manager", "restart program"}
  BY DEF AnyStoreOp
<1>. QED BY <1>8, <1>9, <1>10, <1>12, <1>13, <1>14

(* The first start of the program is such a history.                        *)
LEMMA StartFits ==
    ASSUME NEW K, NEW A, NEW P, NEW config \in AnyStoreConfig(P)
    PROVE  Start(config) \in Histories(config, K, A)
<1>. DEFINE T == Maps(K, OpenRows(K, A))
            g == Start(config)
            built == BuildStores(config, TRUE, EmptyTable)
            kept == config.type = "sqlite" /\ config.path # {}
<1>1. EmptyTable \in T /\ EmptyTable \in Maps(K, Int) /\ \A k : k \notin DOMAIN EmptyTable
  BY EmptyMap
<1>. HIDE DEF T
<1>2. \/ built = [kind |-> "noop", table |-> EmptyTable]
      \/ built = [kind |-> "memory", table |-> EmptyTable]
      \/ built = [kind |-> "file", table |-> EmptyTable]
  BY DEF BuildStores
<1>3. kept => built = [kind |-> "file", table |-> EmptyTable]
  BY DEF BuildStores
<1>4. g = [store |-> built, disk |-> EmptyTable, now |-> 0, next |-> 1, stale |-> {}, sessions |-> EmptyTable,
           used |-> EmptyTable]
  BY DEF Start, EmptyTable
<1>. HIDE DEF built, g
<1>5. built \in [kind : {"file", "memory", "noop"}, table : T] /\ built.table = EmptyTable
  BY <1>1, <1>2
<1>6. g.disk = EmptyTable /\ g.sessions = EmptyTable /\ g.store = built
  BY <1>4
<1>7. OnDisk(g) = EmptyTable
  BY <1>5, <1>6 DEF OnDisk
<1>8. Fits(config, g)
  BY <1>1, <1>3, <1>6, <1>7 DEF Fits
<1>9. g \in [store : [kind : {"file", "memory", "noop"}, table : T], disk : T,
            now : Int, next : Int, stale : SUBSET OpenRows(K, A), sessions : T, used : Maps(K, Int)]
  BY <1>1, <1>4, <1>5
<1>. QED BY <1>8, <1>9 DEF Histories, T, g, Stores

(* When every agent has a slot, every row that is open is given back.        *)
LEMMA StaleRead ==
    ASSUME NEW K, NEW A, NEW store \in Stores(K, A), NEW slots, A \subseteq slots
    PROVE  StaleSessions(store, slots) = {store.table[k] : k \in DOMAIN store.table}
<1>1. \A k \in DOMAIN store.table : store.table[k] \in OpenRows(K, A)
  BY MapValues DEF Stores
<1>2. \A r \in OpenRows(K, A) : ~r.closed /\ r.agent_name \in slots
  BY DEF OpenRows
<1>. QED BY <1>1, <1>2 DEF StaleSessions, LoadOpenSessions

Creators(ops) == {o.agent : o \in {o \in ToSet(ops) : o.op = "create"}}

\* A history step by step.
StaysIn(H, config, ops) ==
    /\ Start(config) \in H /\ Len(ops) \in Nat
    /\ \A n \in 1..Len(ops) : \A h \in H : Step(config, h, ops[n]) \in H
IsHistory(h, H, config, ops) ==
    /\ h \in [0..Len(ops) -> H] /\ h[Len(ops)] = After(config, ops)
    /\ \A n \in 1..Len(ops) : h[n] = Step(config, h[n - 1], ops[n])

(* What comes after a sequence of operations is the end of a history that    *)
(* takes one of them at a time.                                             *)
LEMMA HistorySteps ==
    ASSUME NEW config, NEW ops, NEW H, StaysIn(H, config, ops)
    PROVE  \E h : IsHistory(h, H, config, ops)
<1>0. PICK last, start : last = Len(ops) /\ start = Start(config)
  OBVIOUS
<1>01. last \in Nat /\ start \in H /\ \A n \in 1..last : \A h \in H : Step(config, h, ops[n]) \in H
  BY <1>0 DEF StaysIn
<1>. USE <1>01
<1>. DEFINE G == [n \in 1..last |-> [h \in H |-> Step(config, h, ops[n])]]
            body(h) == [n \in 0..last |-> IF n = 0 THEN start ELSE Step(config, h[n - 1], ops[n])]
<1>1. G \in [1..last -> [H -> H]]
  OBVIOUS
<1>2. PICK f \in [0..last -> H] : f[0] = start /\ \A n \in 1..last : f[n] = G[n][f[n - 1]]
  <2>. HIDE DEF G
  <2>1. \E f : Iterates(f, H, start, last, G)
    BY <1>1, RecursionExists
  <2>. QED BY <2>1 DEF Iterates
<1>3. \A n \in 1..last : f[n] = Step(config, f[n - 1], ops[n])
  <2>1. \A n \in 1..last : n - 1 \in 0..last
    OBVIOUS
  <2>. QED BY <1>2, <2>1
<1>4. f = body(f)
  <2>1. \A n \in 0..last : n = 0 \/ n \in 1..last
    OBVIOUS
  <2>2. \A n \in 0..last : f[n] = body(f)[n]
    BY <1>2, <1>3, <2>1
  <2>. QED BY <1>2, <2>2
<1>. DEFINE h == CHOOSE h : h = body(h)
<1>5. h = body(h)
  BY <1>4
<1>6. After(config, ops) = h[last]
  BY <1>0 DEF After
<1>. HIDE DEF h
<1>7. h[0] = start /\ \A n \in 1..last : h[n] = Step(config, h[n - 1], ops[n])
  BY <1>5
<1>8. \A n \in 0..last : h[n] \in H
  <2>. DEFINE T == {n \in Nat : n <= last => h[n] \in H}
  <2>1. 0 \in T
    BY <1>7
  <2>2. ASSUME NEW n \in Nat, n \in T PROVE n + 1 \in T
    <3>1. CASE n + 1 <= last
      <4>1. h[n] \in H /\ n + 1 \in 1..last
        BY <2>2, <3>1
      <4>2. h[n + 1] = Step(config, h[n], ops[n + 1])
        BY <1>7, <4>1
      <4>3. Step(config, h[n], ops[n + 1]) \in H
        BY <1>01, <4>1
      <4>. QED BY <4>2, <4>3
    <3>. QED BY <3>1
  <2>. HIDE DEF T
  <2>3. Nat \subseteq T
    BY <2>1, <2>2, NatSets
  <2>. QED BY <2>3 DEF T
<1>9. h \in [0..last -> H]
  BY <1>5, <1>8
<1>. QED BY <1>0, <1>6, <1>7, <1>9 DEF IsHistory

AnyStoreInput(K, A, P) == [fn : {"store"}, config : AnyStoreConfig(P), ops : Seq(AnyStoreOp(K, A))]

(* After any history of creations, uses, days, restarts and failures, a      *)
(* restart of the program gives the agents exactly the sessions that were    *)
(* written last for their conversations and are not too old, for every set   *)
(* of conversations and agents and every time to live (session_store.rs).   *)
THEOREM RestoredIsLatestHolds ==
    ASSUME NEW K, NEW A, NEW P, input.fn = "store" => input \in AnyStoreInput(K, A, P)
    PROVE  RestoredIsLatest
<1>1. SUFFICES ASSUME input.fn = "store" PROVE RestoredIsLatest
  BY DEF RestoredIsLatest
<1>. DEFINE config == input.config
            B == Creators(input.ops)
            last == Restart(input.ops)
            ops == Append(input.ops, last)
            end == After(config, ops)
            n == Len(ops)
<1>2. config \in AnyStoreConfig(P) /\ input.ops \in Seq(AnyStoreOp(K, A))
  BY <1>1 DEF AnyStoreInput
<1>3. last = [op |-> "restart program", ok |-> TRUE, slots |-> B]
  BY DEF Restart, Creators
<1>4. B \subseteq A
  <2>1. ASSUME NEW o \in ToSet(input.ops), o.op = "create" PROVE o.agent \in A
    <3>1. o \in AnyStoreOp(K, A)
      BY <1>2 DEF ToSet
    <3>. QED BY <2>1, <3>1 DEF AnyStoreOp
  <2>. QED BY <2>1 DEF Creators
<1>. HIDE DEF last, B
<1>5. last \in AnyStoreOp(K, A)
  <2>1. last \in [op : {"restart program"}, ok : BOOLEAN, slots : SUBSET A]
    BY <1>3, <1>4
  <2>. QED BY <2>1 DEF AnyStoreOp
<1>6. ops \in Seq(AnyStoreOp(K, A)) /\ n = Len(input.ops) + 1 /\ n \in Nat /\ ops[n] = last
      /\ \A i \in 1..Len(input.ops) : ops[i] = input.ops[i]
  BY <1>2, <1>5
<1>7. Creators(ops) \subseteq B
  <2>1. ASSUME NEW o \in ToSet(ops), o.op = "create" PROVE o.agent \in B
    <3>1. PICK i \in 1..n : o = ops[i]
      BY <1>6 DEF ToSet
    <3>2. i # n
      <4>1. last.op = "restart program"
        BY <1>3
      <4>. QED BY <1>6, <2>1, <3>1, <4>1
    <3>3. o \in ToSet(input.ops)
      BY <1>2, <1>6, <3>1, <3>2 DEF ToSet
    <3>. QED BY <2>1, <3>3 DEF B, Creators
  <2>. QED BY <2>1 DEF Creators
<1>. HIDE DEF ops, n
<1>8. \A i \in 1..n : \A h \in Histories(config, K, B) : Step(config, h, ops[i]) \in Histories(config, K, B)
  <2>. SUFFICES ASSUME NEW i \in 1..n, NEW h \in Histories(config, K, B) PROVE Step(config, h, ops[i]) \in Histories(config, K, B)
    OBVIOUS
  <2>1. ops[i] \in AnyStoreOp(K, A) /\ ops[i] \in ToSet(ops)
    BY <1>6 DEF ToSet, n
  <2>2. ops[i].op = "create" => ops[i].agent \in B
    BY <1>7, <2>1 DEF Creators
  <2>. QED BY <1>2, <2>1, <2>2, StepFits
<1>10. Start(config) \in Histories(config, K, B)
  BY <1>2, StartFits
<1>11. PICK h \in [0..n -> Histories(config, K, B)] :
          h[n] = end /\ \A i \in 1..n : h[i] = Step(config, h[i - 1], ops[i])
  <2>1. Len(ops) = n
    BY DEF n
  <2>3. PICK H : H = Histories(config, K, B)
    OBVIOUS
  <2>2. StaysIn(H, config, ops)
    BY <1>6, <1>8, <1>10, <2>1, <2>3 DEF StaysIn
  <2>4. PICK h : IsHistory(h, H, config, ops)
    BY <2>2, HistorySteps
  <2>. QED BY <2>1, <2>3, <2>4 DEF IsHistory
<1>. DEFINE g == h[n - 1]
<1>9. g \in Histories(config, K, B) /\ end = Step(config, g, last)
  BY <1>6, <1>11
<1>. HIDE DEF g, end
<1>12. PICK s : s = StartStore(BuildStores(config, TRUE, OnDisk(g)), g.now, SessionTtl(config))
  OBVIOUS
<1>13. end = [g EXCEPT !.store = s, !.disk = OnDisk(g), !.stale = StaleSessions(s, B)]
  <2>1. last.op = "restart program" /\ last.ok = TRUE /\ last.slots = B
    BY <1>3
  <2>2. Step(config, g, last) = [g EXCEPT !.store = StartStore(BuildStores(config, TRUE, OnDisk(g)), g.now, SessionTtl(config)),
             !.disk = OnDisk(g), !.stale = StaleSessions(StartStore(BuildStores(config, TRUE, OnDisk(g)), g.now, SessionTtl(config)), B)]
    BY <2>1 DEF Step
  <2>. QED BY <1>9, <1>12, <2>2
<1>14. /\ g.store \in Stores(K, B) /\ g.disk \in Maps(K, OpenRows(K, B)) /\ g.sessions \in Maps(K, OpenRows(K, B))
       /\ g.now \in Int /\ DOMAIN g = {"store", "disk", "now", "next", "stale", "sessions", "used"} /\ Fits(config, g)
  BY <1>9 DEF Histories
<1>15. end.stale = StaleSessions(s, B) /\ end.sessions = g.sessions /\ end.now = g.now
  BY <1>13, <1>14
<1>. DEFINE built == BuildStores(config, TRUE, OnDisk(g))
            disk == OnDisk(g)
            late(r) == r.last_active_at < g.now - SessionTtl(config)
            t == [k \in {k \in DOMAIN built.table : ~late(built.table[k])} |-> built.table[k]]
<1>16. s = [built EXCEPT !.table = t]
  BY <1>12 DEF StartStore, DeleteExpired
<1>17. CASE config.type = "none" \/ config.path = {}
  <2>1. built.table = EmptyTable
    BY <1>17 DEF BuildStores
  <2>2. \A k : k \notin DOMAIN t
    BY <2>1, EmptyMap
  <2>3. DOMAIN built = {"kind", "table"}
    BY DEF BuildStores
  <2>. HIDE DEF t, built
  <2>4. s.table = t
    BY <1>16, <2>3
  <2>5. StaleSessions(s, B) = {}
    BY <2>2, <2>4, StaleIsStored
  <2>. QED BY <1>1, <1>15, <1>17, <2>5 DEF RestoredIsLatest, end, ops, last
<1>18. CASE config.type = "sqlite" /\ config.path # {}
  <2>1. built = [kind |-> "file", table |-> disk] /\ SessionTtl(config) = config.ttl_days /\ config.ttl_days \in Int
    BY <1>2, <1>18 DEF BuildStores, SessionTtl, AnyStoreConfig
  <2>2. disk \in Maps(K, OpenRows(K, B))
    BY <1>14 DEF OnDisk, Stores
  <2>3. DOMAIN disk \subseteq DOMAIN g.sessions
        /\ \A k \in DOMAIN g.sessions : IF k \in DOMAIN disk THEN disk[k] = g.sessions[k]
                                        ELSE g.sessions[k].last_active_at < g.now - config.ttl_days
    BY <1>14, <1>18 DEF Fits
  <2>4. \A k \in DOMAIN g.sessions : g.sessions[k].last_active_at \in Int
    <3>1. \A k \in DOMAIN g.sessions : g.sessions[k] \in OpenRows(K, B)
      BY <1>14, MapValues
    <3>. QED BY <3>1 DEF OpenRows
  <2>. DEFINE young == {k \in DOMAIN g.sessions : g.now - g.sessions[k].last_active_at <= config.ttl_days}
  <2>. HIDE DEF built, disk
  <2>5. t \in Maps(K, OpenRows(K, B))
    <3>1. t = [k \in {k \in DOMAIN disk : ~late(disk[k])} |-> disk[k]]
      BY <2>1
    <3>. HIDE DEF t, late
    <3>. QED BY <2>2, <3>1, MapRestricted
  <2>6. \A k : k \in DOMAIN t <=> k \in young
    <3>1. \A k : k \in DOMAIN t <=> k \in DOMAIN disk /\ ~(disk[k].last_active_at < g.now - config.ttl_days)
      BY <2>1
    <3>. QED BY <1>14, <2>1, <2>3, <2>4, <3>1
  <2>7. \A k \in DOMAIN t : t[k] = g.sessions[k]
    <3>1. \A k \in DOMAIN t : k \in DOMAIN disk /\ t[k] = disk[k]
      BY <2>1
    <3>. QED BY <2>3, <3>1
  <2>. HIDE DEF t
  <2>8. s = [kind |-> "file", table |-> t]
    BY <1>16, <2>1
  <2>9. s \in Stores(K, B) /\ s.table = t
    BY <2>5, <2>8 DEF Stores
  <2>10. StaleSessions(s, B) = {t[k] : k \in DOMAIN t}
    BY <2>9, StaleRead
  <2>11. {t[k] : k \in DOMAIN t} = {g.sessions[k] : k \in young}
    BY <2>6, <2>7
  <2>. QED BY <1>1, <1>15, <1>18, <2>10, <2>11, ZenonT(40) DEF RestoredIsLatest, end, ops, last
<1>. QED BY <1>2, <1>17, <1>18 DEF AnyStoreConfig

------------------------------------------------------------------------------
(* A WASM tool in its sandbox                                                *)

AnyDir(D) == [host : D, guest : D, readonly : BOOLEAN]
AnyAsk(D) == [op : {"memory", "table", "trap", "look", "change", "print"}, n : Nat, dir : D]
AnySandbox(D) == [fuel_limit : Nat, memory_limit_bytes : Nat, preopened_dirs : Seq(AnyDir(D))]
AnyWasmInput(D) == [fn : {"wasm"}, module : Seq(AnyAsk(D)), sandbox : AnySandbox(D)]

\* What a module has done and used, on a host where it was given these directories.
Confined(dirs, limit, D) ==
    [fuel : Int, memory : {n \in Nat : n <= limit}, table : {n \in Nat : n <= MaxTable},
     seen : SUBSET {d.host : d \in dirs}, changed : SUBSET {d.host : d \in {d \in dirs : ~d.readonly}},
     output : Seq(D), result : {"ok", "error"}]

(* One instruction of a tool stays within its limits and its directories,    *)
(* and costs one unit of fuel unless the tool has stopped.                  *)
LEMMA InstructConfined ==
    ASSUME NEW D, NEW dirs, NEW limit \in Nat, NEW ctx,
           \A c \in ctx : \E d \in dirs : c.host = d.host /\ c.write = ~d.readonly,
           NEW s \in Confined(dirs, limit, D), NEW i \in AnyAsk(D)
    PROVE  LET r == Instruct(ctx, limit, s, i)
           IN  /\ r \in Confined(dirs, limit, D)
               /\ IF s.result = "error" \/ s.fuel = 0 \/ i.op = "trap" THEN r.result = "error"
                  ELSE r.result = "ok" /\ r.fuel = s.fuel - 1
<1>. DEFINE S == Confined(dirs, limit, D)
            r == Instruct(ctx, limit, s, i)
            at == {d \in ctx : d.guest = i.dir}
            spent == [s EXCEPT !.fuel = @ - 1]
            hosts == {d.host : d \in dirs}
            open == {d.host : d \in {d \in dirs : ~d.readonly}}
<1>1. /\ DOMAIN s = {"fuel", "memory", "table", "seen", "changed", "output", "result"}
      /\ s.fuel \in Int /\ s.memory \in {n \in Nat : n <= limit} /\ s.table \in {n \in Nat : n <= MaxTable}
      /\ s.seen \in SUBSET hosts /\ s.changed \in SUBSET open /\ s.output \in Seq(D) /\ s.result \in {"ok", "error"}
  BY DEF Confined
<1>2. i.op \in {"memory", "table", "trap", "look", "change", "print"} /\ i.n \in Nat /\ i.dir \in D
  BY DEF AnyAsk
<1>3. spent \in S /\ spent.fuel = s.fuel - 1 /\ spent.result = s.result
  BY <1>1 DEF Confined
<1>6. /\ DOMAIN spent = {"fuel", "memory", "table", "seen", "changed", "output", "result"}
      /\ spent.fuel \in Int /\ spent.memory \in {n \in Nat : n <= limit} /\ spent.table \in {n \in Nat : n <= MaxTable}
      /\ spent.seen \in SUBSET hosts /\ spent.changed \in SUBSET open /\ spent.output \in Seq(D)
  BY <1>3 DEF Confined
<1>4. CASE s.result = "error" \/ s.fuel = 0 \/ i.op = "trap"
  <2>1. r = [s EXCEPT !.result = "error"]
    BY <1>4 DEF Instruct
  <2>. QED BY <1>1, <1>4, <2>1 DEF Confined
<1>5. CASE ~(s.result = "error" \/ s.fuel = 0 \/ i.op = "trap")
  <2>0. spent.result = "ok"
    BY <1>1, <1>3, <1>5
  <2>1. CASE i.op = "memory"
    <3>1. r = IF MemoryGrowing(limit, i.n) THEN [spent EXCEPT !.memory = i.n] ELSE spent
      BY <1>5, <2>1 DEF Instruct
    <3>. HIDE DEF spent, r, S, hosts, open
    <3>9. r \in S /\ r.fuel = spent.fuel /\ r.result = spent.result
      BY <1>2, <1>3, <1>6, <2>0, <3>1 DEF S, Confined, MemoryGrowing, hosts, open
    <3>. QED BY <1>3, <1>5, <2>0, <3>9 DEF S, r
  <2>2. CASE i.op = "table"
    <3>1. r = IF TableGrowing(i.n) THEN [spent EXCEPT !.table = i.n] ELSE spent
      BY <1>5, <2>2 DEF Instruct
    <3>. HIDE DEF spent, r, S, hosts, open
    <3>9. r \in S /\ r.fuel = spent.fuel /\ r.result = spent.result
      BY <1>2, <1>3, <1>6, <2>0, <3>1 DEF S, Confined, TableGrowing, hosts, open
    <3>. QED BY <1>3, <1>5, <2>0, <3>9 DEF S, r
  <2>3. CASE i.op = "look"
    <3>1. r = [spent EXCEPT !.seen = @ \cup {d.host : d \in at}]
      BY <1>5, <2>3 DEF Instruct
    <3>2. {d.host : d \in at} \subseteq hosts
      OBVIOUS
    <3>. HIDE DEF spent, r, S, at, hosts, open
    <3>9. r \in S /\ r.fuel = spent.fuel /\ r.result = spent.result
      BY <1>2, <1>3, <1>6, <2>0, <3>1, <3>2 DEF S, Confined, hosts, open
    <3>. QED BY <1>3, <1>5, <2>0, <3>9 DEF S, r
  <2>4. CASE i.op = "change"
    <3>1. r = [spent EXCEPT !.changed = @ \cup {d.host : d \in {d \in at : d.write}}]
      BY <1>5, <2>4 DEF Instruct
    <3>2. {d.host : d \in {d \in at : d.write}} \subseteq open
      OBVIOUS
    <3>. HIDE DEF spent, r, S, at, hosts, open
    <3>9. r \in S /\ r.fuel = spent.fuel /\ r.result = spent.result
      BY <1>2, <1>3, <1>6, <2>0, <3>1, <3>2 DEF S, Confined, hosts, open
    <3>. QED BY <1>3, <1>5, <2>0, <3>9 DEF S, r
  <2>5. CASE i.op = "print"
    <3>1. r = [spent EXCEPT !.output = Append(@, i.dir)]
      BY <1>5, <2>5 DEF Instruct
    <3>. HIDE DEF spent, r, S, hosts, open
    <3>9. r \in S /\ r.fuel = spent.fuel /\ r.result = spent.result
      <4>1. Append(spent.output, i.dir) \in Seq(D)
        BY <1>2, <1>6
      <4>2. r = [spent EXCEPT !.output = Append(spent.output, i.dir)]
        BY <3>1
      <4>. QED BY <1>3, <1>6, <4>1, <4>2 DEF S, Confined, hosts, open
    <3>. QED BY <1>3, <1>5, <2>0, <3>9 DEF S, r
  <2>. QED BY <1>2, <1>5, <2>1, <2>2, <2>3, <2>4, <2>5
<1>. QED BY <1>4, <1>5

\* The run of a module instruction by instruction.
CtxOf(sandbox) == CHOOSE c \in BuildWasiCtx(sandbox.preopened_dirs, HostDirs) : TRUE
IsRun(h, H, sandbox, module) ==
    /\ h \in [0..Len(module) -> H] /\ h[0] = Fresh(sandbox.fuel_limit)
    /\ h[Len(module)] = ExecuteSync(sandbox, module, HostDirs)
    /\ \A n \in 1..Len(module) : h[n] = Instruct(CtxOf(sandbox), sandbox.memory_limit_bytes, h[n - 1], module[n])

(* execute_sync is the last state of a run that takes one instruction of the *)
(* module at a time.                                                        *)
LEMMA RunSteps ==
    ASSUME NEW sandbox, NEW module, NEW H, Len(module) \in Nat, Fresh(sandbox.fuel_limit) \in H,
           BuildWasiCtx(sandbox.preopened_dirs, HostDirs) # {},
           \A n \in 1..Len(module) : \A s \in H :
               Instruct(CtxOf(sandbox), sandbox.memory_limit_bytes, s, module[n]) \in H
    PROVE  \E h : IsRun(h, H, sandbox, module)
<1>1. PICK last, start, step : /\ last = Len(module) /\ start = Fresh(sandbox.fuel_limit)
                               /\ step = [n \in 1..last |-> [s \in H |-> Instruct(CtxOf(sandbox), sandbox.memory_limit_bytes, s, module[n])]]
  OBVIOUS
<1>2. last \in Nat /\ start \in H
  BY <1>1
<1>3. step \in [1..last -> [H -> H]]
  BY <1>1
<1>. DEFINE does(s, n) == Instruct(CtxOf(sandbox), sandbox.memory_limit_bytes, s, module[n])
            body(h) == [n \in 0..last |-> IF n = 0 THEN start ELSE does(h[n - 1], n)]
<1>4. PICK f \in [0..last -> H] : f[0] = start /\ \A n \in 1..last : f[n] = step[n][f[n - 1]]
  <2>1. \E f : Iterates(f, H, start, last, step)
    BY <1>2, <1>3, RecursionExists
  <2>. QED BY <2>1 DEF Iterates
<1>5. \A n \in 1..last : \A s \in H : step[n][s] = does(s, n) /\ does(s, n) \in H
  BY <1>1
<1>. HIDE DEF does
<1>6. \A n \in 1..last : f[n] = does(f[n - 1], n)
  <2>1. \A n \in 1..last : n - 1 \in 0..last
    BY <1>2
  <2>. QED BY <1>4, <1>5, <2>1
<1>7. f = body(f)
  <2>1. \A n \in 0..last : n = 0 \/ n \in 1..last
    BY <1>2
  <2>2. \A n \in 0..last : f[n] = body(f)[n]
    BY <1>4, <1>6, <2>1
  <2>. QED BY <1>4, <2>2
<1>. DEFINE h == CHOOSE h : h = body(h)
<1>8. h = body(h)
  BY <1>7
<1>9. ExecuteSync(sandbox, module, HostDirs) = h[last]
  BY <1>1 DEF ExecuteSync, CtxOf, does
<1>. HIDE DEF h
<1>10. h[0] = start /\ \A n \in 1..last : h[n] = does(h[n - 1], n)
  BY <1>2, <1>8
<1>11. \A n \in 0..last : h[n] \in H
  <2>. DEFINE T == {n \in 0..last : h[n] \in H}
  <2>1. 0 \in T
    BY <1>2, <1>10
  <2>2. \A n \in 1..last : n - 1 \in T => n \in T
    <3>1. \A n \in 1..last : n \in 0..last
      BY <1>2
    <3>. QED BY <1>5, <1>10, <3>1
  <2>3. 0..last \subseteq T
    <3>. HIDE DEF T
    <3>. QED BY <1>2, <2>1, <2>2, RangeInduction
  <2>. QED BY <2>3
<1>12. h \in [0..last -> H]
  BY <1>8, <1>11
<1>. QED BY <1>1, <1>9, <1>10, <1>12 DEF IsRun, does

(* A tool in its sandbox (wasm_runner.rs), whatever it asks for: it sees the *)
(* directories it is configured with and no other, changes those only that   *)
(* are not read-only, stays within its memory and table limits, and ends     *)
(* well exactly if its fuel lasts, it does not trap and every directory is   *)
(* there.                                                                   *)
LEMMA RunConfined ==
    ASSUME NEW D, NEW sandbox \in AnySandbox(D), NEW module \in Seq(AnyAsk(D))
    PROVE  LET dirs == ToSet(sandbox.preopened_dirs)
               r == ExecuteSync(sandbox, module, HostDirs)
           IN  /\ r.seen \subseteq {d.host : d \in dirs}
               /\ r.changed \subseteq {d.host : d \in {d \in dirs : ~d.readonly}}
               /\ r.memory <= sandbox.memory_limit_bytes /\ r.table <= MaxTable
               /\ r.result = "ok" <=> /\ Len(module) <= sandbox.fuel_limit
                                      /\ \A d \in dirs : d.host \in HostDirs
                                      /\ \A i \in DOMAIN module : module[i].op # "trap"
<1>. DEFINE p == sandbox.preopened_dirs
            dirs == ToSet(p)
            limit == sandbox.memory_limit_bytes
            fuel == sandbox.fuel_limit
            H == Confined(dirs, limit, D)
            last == Len(module)
            r == ExecuteSync(sandbox, module, HostDirs)
<1>1. p \in Seq(AnyDir(D)) /\ limit \in Nat /\ fuel \in Nat /\ last \in Nat
  BY DEF AnySandbox
<1>2. \A d \in dirs : \E i \in DOMAIN p : d = p[i]
  BY <1>1 DEF ToSet
<1>3. \A i \in DOMAIN p : p[i] \in dirs
  BY <1>1 DEF ToSet
<1>. HIDE DEF dirs
<1>4. CASE \E i \in DOMAIN p : p[i].host \notin HostDirs
  <2>1. BuildWasiCtx(p, HostDirs) = {}
    BY <1>4 DEF BuildWasiCtx
  <2>2. r = [Fresh(0) EXCEPT !.result = "error"]
    BY <2>1 DEF ExecuteSync
  <2>3. r.seen = {} /\ r.changed = {} /\ r.memory = 0 /\ r.table = 0 /\ r.result = "error"
    BY <2>2 DEF Fresh
  <2>4. \E d \in dirs : d.host \notin HostDirs
    BY <1>3, <1>4
  <2>. HIDE DEF r
  <2>. QED BY <1>1, <2>3, <2>4 DEF MaxTable, r, dirs
<1>5. CASE ~\E i \in DOMAIN p : p[i].host \notin HostDirs
  <2>. DEFINE ctx == {[guest |-> p[i].guest, host |-> p[i].host, write |-> ~p[i].readonly] : i \in DOMAIN p}
  <2>1. BuildWasiCtx(p, HostDirs) = {ctx} /\ CtxOf(sandbox) = ctx
    BY <1>5 DEF BuildWasiCtx, CtxOf
  <2>2. \A c \in ctx : \E d \in dirs : c.host = d.host /\ c.write = ~d.readonly
    BY <1>3
  <2>3. \A d \in dirs : d.host \in HostDirs
    BY <1>2, <1>5
  <2>. HIDE DEF ctx
  <2>4. \A n \in 1..last : \A s \in H :
           LET t == Instruct(ctx, limit, s, module[n])
           IN  /\ t \in H
               /\ IF s.result = "error" \/ s.fuel = 0 \/ module[n].op = "trap" THEN t.result = "error"
                  ELSE t.result = "ok" /\ t.fuel = s.fuel - 1
    <3>. SUFFICES ASSUME NEW n \in 1..last, NEW s \in H
                  PROVE LET t == Instruct(ctx, limit, s, module[n])
                        IN  /\ t \in H
                            /\ IF s.result = "error" \/ s.fuel = 0 \/ module[n].op = "trap" THEN t.result = "error"
                               ELSE t.result = "ok" /\ t.fuel = s.fuel - 1
      OBVIOUS
    <3>1. module[n] \in AnyAsk(D)
      OBVIOUS
    <3>. QED BY <1>1, <2>2, <3>1, InstructConfined
  <2>5. Fresh(fuel) \in H /\ Fresh(fuel).result = "ok" /\ Fresh(fuel).fuel = fuel
    BY <1>1 DEF Fresh, Confined, MaxTable
  <2>6. PICK h : IsRun(h, H, sandbox, module)
    <3>1. \A n \in 1..last : \A s \in H : Instruct(CtxOf(sandbox), limit, s, module[n]) \in H
      BY <2>1, <2>4
    <3>2. BuildWasiCtx(p, HostDirs) # {}
      BY <2>1
    <3>. QED BY <1>1, <2>5, <3>1, <3>2, RunSteps
  <2>7. /\ h \in [0..last -> H] /\ h[0] = Fresh(fuel) /\ h[last] = r
        /\ \A n \in 1..last : h[n] = Instruct(ctx, limit, h[n - 1], module[n])
    BY <2>1, <2>6 DEF IsRun
  <2>. DEFINE survives(n) == n <= fuel /\ \A i \in 1..n : module[i].op # "trap"
              T == {n \in 0..last : IF survives(n) THEN h[n].result = "ok" /\ h[n].fuel = fuel - n ELSE h[n].result = "error"}
  <2>8. 0..last \subseteq T
    <3>1. 0 \in T
      BY <1>1, <2>5, <2>7
    <3>2. \A n \in 1..last : n - 1 \in T => n \in T
      <4>. SUFFICES ASSUME NEW n \in 1..last, n - 1 \in T PROVE n \in T
        OBVIOUS
      <4>1. n \in 0..last /\ n - 1 \in 0..last /\ n \in Nat
        BY <1>1
      <4>2. h[n - 1] \in H
        BY <2>7, <4>1
      <4>3. IF h[n - 1].result = "error" \/ h[n - 1].fuel = 0 \/ module[n].op = "trap" THEN h[n].result = "error"
            ELSE h[n].result = "ok" /\ h[n].fuel = h[n - 1].fuel - 1
        BY <2>4, <2>7, <4>2
      <4>4. IF survives(n - 1) THEN h[n - 1].result = "ok" /\ h[n - 1].fuel = fuel - (n - 1) ELSE h[n - 1].result = "error"
        OBVIOUS
      <4>5. survives(n) <=> survives(n - 1) /\ n <= fuel /\ module[n].op # "trap"
        BY <1>1, <4>1
      <4>. HIDE DEF survives
      <4>6. survives(n - 1) => n - 1 <= fuel
        BY DEF survives
      <4>7. CASE ~survives(n - 1)
        BY <4>3, <4>4, <4>5, <4>7
      <4>8. CASE survives(n - 1)
        BY <1>1, <4>1, <4>3, <4>4, <4>5, <4>6, <4>8
      <4>. QED BY <4>7, <4>8
    <3>. HIDE DEF T
    <3>. QED BY <1>1, <3>1, <3>2, RangeInduction
  <2>9. last \in T
    BY <1>1, <2>8
  <2>10. r.result = "ok" <=> survives(last)
    BY <2>7, <2>9
  <2>11. survives(last) <=> last <= fuel /\ \A i \in DOMAIN module : module[i].op # "trap"
    BY <1>1
  <2>12. r \in H
    BY <1>1, <2>7
  <2>. HIDE DEF survives, r
  <2>13. r.seen \in SUBSET {d.host : d \in dirs} /\ r.changed \in SUBSET {d.host : d \in {d \in dirs : ~d.readonly}}
        /\ r.memory <= limit /\ r.table <= MaxTable
    BY <2>12 DEF Confined
  <2>. QED BY <2>3, <2>10, <2>11, <2>13 DEF r, dirs
<1>. QED BY <1>4, <1>5

------------------------------------------------------------------------------
(* The paths an agent may read and write                                     *)

\* A path with no link and no ".." in it, all of whose beginnings are there.
Straight(disk, p) ==
    \A n \in 1..Len(p) : SubSeq(p, 1, n) \in disk.nodes /\ SubSeq(p, 1, n) \notin DOMAIN disk.links /\ p[n] # ".."
WalkStates(disk, N) == {s \in [at : Seq(N), names : Seq(N), left : Nat] : Straight(disk, s.at)}

(* Going up from a path without links leads to a path without links.        *)
LEMMA StraightFront ==
    ASSUME NEW disk, NEW N, NEW p \in Seq(N), p # <<>>, Straight(disk, p)
    PROVE  Front(p) \in Seq(N) /\ Straight(disk, Front(p))
<1>1. Front(p) = SubSeq(p, 1, Len(p) - 1)
  BY DEF Front
<1>0. Len(p) - 1 \in Nat /\ Len(p) - 1 <= Len(p)
  OBVIOUS
<1>2. Front(p) \in Seq(N) /\ Len(Front(p)) = Len(p) - 1 /\ \A n \in 1..(Len(p) - 1) : Front(p)[n] = p[n]
  <2>1. PICK m \in Nat : m = Len(p) - 1 /\ m <= Len(p)
    BY <1>0
  <2>2. SubSeq(p, 1, m) \in Seq(N) /\ Len(SubSeq(p, 1, m)) = m /\ \A n \in 1..m : SubSeq(p, 1, m)[n] = p[n]
    BY <2>1
  <2>. QED BY <1>1, <2>1, <2>2
<1>. HIDE DEF Front
<1>3. ASSUME NEW n \in 1..(Len(p) - 1) PROVE SubSeq(Front(p), 1, n) = SubSeq(p, 1, n)
  <2>1. SubSeq(Front(p), 1, n) \in Seq(N) /\ SubSeq(p, 1, n) \in Seq(N)
    BY <1>2
  <2>2. Len(SubSeq(Front(p), 1, n)) = n /\ Len(SubSeq(p, 1, n)) = n
    BY <1>2
  <2>3. \A i \in 1..n : SubSeq(Front(p), 1, n)[i] = SubSeq(p, 1, n)[i]
    BY <1>2
  <2>. QED BY <2>1, <2>2, <2>3
<1>4. ASSUME NEW n \in 1..Len(Front(p))
      PROVE  SubSeq(Front(p), 1, n) \in disk.nodes /\ SubSeq(Front(p), 1, n) \notin DOMAIN disk.links /\ Front(p)[n] # ".."
  <2>1. n \in 1..(Len(p) - 1) /\ n \in 1..Len(p)
    BY <1>0, <1>2
  <2>. QED BY <1>2, <1>3, <2>1 DEF Straight
<1>. QED BY <1>2, <1>4 DEF Straight

(* Going down to a name that is there and no link keeps a path straight.    *)
LEMMA StraightAppend ==
    ASSUME NEW disk, NEW N, NEW p \in Seq(N), Straight(disk, p), NEW x \in N, x # "..",
           Append(p, x) \in disk.nodes, Append(p, x) \notin DOMAIN disk.links
    PROVE  Straight(disk, Append(p, x))
<1>. DEFINE q == Append(p, x)
<1>1. q \in Seq(N) /\ Len(q) = Len(p) + 1 /\ q[Len(p) + 1] = x /\ \A n \in 1..Len(p) : q[n] = p[n]
  OBVIOUS
<1>2. SubSeq(q, 1, Len(p) + 1) = q
  BY <1>1
<1>. HIDE DEF q
<1>3. ASSUME NEW n \in 1..Len(p) PROVE SubSeq(q, 1, n) = SubSeq(p, 1, n)
  <2>1. SubSeq(q, 1, n) \in Seq(N) /\ SubSeq(p, 1, n) \in Seq(N)
    BY <1>1
  <2>2. Len(SubSeq(q, 1, n)) = n /\ Len(SubSeq(p, 1, n)) = n
    BY <1>1
  <2>3. \A i \in 1..n : SubSeq(q, 1, n)[i] = SubSeq(p, 1, n)[i]
    BY <1>1
  <2>. QED BY <2>1, <2>2, <2>3
<1>4. ASSUME NEW n \in 1..Len(q) PROVE SubSeq(q, 1, n) \in disk.nodes /\ SubSeq(q, 1, n) \notin DOMAIN disk.links /\ q[n] # ".."
  <2>1. CASE n = Len(p) + 1
    BY <1>1, <1>2, <2>1 DEF q
  <2>2. CASE n # Len(p) + 1
    <3>1. n \in 1..Len(p)
      BY <1>1, <2>2
    <3>. QED BY <1>1, <1>3, <3>1 DEF Straight
  <2>. QED BY <2>1, <2>2
<1>. QED BY <1>4 DEF Straight, q

(* One name of a walk keeps the path that was resolved so far straight:      *)
(* "..", a link, a name that is there, and a name that is not.              *)
LEMMA WalkStepStays ==
    ASSUME NEW disk, NEW N, \A l \in DOMAIN disk.links : disk.links[l] \in Seq(N), NEW s \in WalkStates(disk, N)
    PROVE  WalkStep(disk, s) \in WalkStates(disk, N)
<1>. DEFINE r == WalkStep(disk, s)
            name == Head(s.names)
            below == Append(s.at, name)
<1>1. /\ s.at \in Seq(N) /\ s.names \in Seq(N) /\ s.left \in Nat /\ Straight(disk, s.at) /\ DOMAIN s = {"at", "names", "left"}
  BY DEF WalkStates
<1>2. CASE s.names = <<>>
  BY <1>2 DEF WalkStep
<1>3. CASE s.names # <<>>
  <2>1. name \in N /\ Tail(s.names) \in Seq(N) /\ below \in Seq(N)
    BY <1>1, <1>3
  <2>. HIDE DEF name
  <2>2. CASE name = ".."
    <3>1. r = [s EXCEPT !.at = IF @ = <<>> THEN @ ELSE Front(@), !.names = Tail(@)]
      BY <1>3, <2>2 DEF WalkStep, name
    <3>2. PICK p : p = IF s.at = <<>> THEN s.at ELSE Front(s.at)
      OBVIOUS
    <3>3. p \in Seq(N) /\ Straight(disk, p)
      BY <1>1, <3>2, StraightFront
    <3>4. r = [s EXCEPT !.at = p, !.names = Tail(s.names)]
      BY <3>1, <3>2
    <3>. HIDE DEF r
    <3>. QED BY <1>1, <2>1, <3>3, <3>4 DEF WalkStates, r
  <2>3. CASE name # ".." /\ below \in DOMAIN disk.links
    <3>1. r = IF s.left = 0 THEN s ELSE [at |-> <<>>, names |-> disk.links[below] \o Tail(s.names), left |-> s.left - 1]
      BY <1>3, <2>3 DEF WalkStep, name
    <3>2. disk.links[below] \o Tail(s.names) \in Seq(N)
      <4>1. disk.links[below] \in Seq(N)
        BY <2>3
      <4>. QED BY <2>1, <4>1
    <3>3. Straight(disk, <<>>) /\ <<>> \in Seq(N)
      BY DEF Straight
    <3>. HIDE DEF r, below
    <3>. QED BY <1>1, <3>1, <3>2, <3>3 DEF WalkStates, r
  <2>4. CASE name # ".." /\ below \notin DOMAIN disk.links /\ below \in disk.nodes
    <3>1. r = [s EXCEPT !.at = below, !.names = Tail(@)]
      BY <1>3, <2>4 DEF WalkStep, name
    <3>2. Straight(disk, below)
      BY <1>1, <2>1, <2>4, StraightAppend
    <3>. HIDE DEF r, below
    <3>. QED BY <1>1, <2>1, <3>1, <3>2 DEF WalkStates, r
  <2>5. CASE name # ".." /\ below \notin DOMAIN disk.links /\ below \notin disk.nodes
    BY <1>3, <2>5 DEF WalkStep, name
  <2>. QED BY <2>2, <2>3, <2>4, <2>5
<1>. QED BY <1>2, <1>3

\* The walk along a path name by name.
StepsOf(path) == Len(path) + MaxLinks * MaxTarget
IsWalk(h, H, disk, path) ==
    /\ h \in [0..StepsOf(path) -> H] /\ h[0] = [at |-> <<>>, names |-> path, left |-> MaxLinks]
    /\ Walk(disk, path) = h[StepsOf(path)]
    /\ \A n \in 1..StepsOf(path) : h[n] = WalkStep(disk, h[n - 1])

(* A walk takes one name at a time.                                         *)
LEMMA WalkSteps ==
    ASSUME NEW disk, NEW path, Len(path) \in Nat, NEW H, [at |-> <<>>, names |-> path, left |-> MaxLinks] \in H,
           \A s \in H : WalkStep(disk, s) \in H
    PROVE  \E h : IsWalk(h, H, disk, path)
<1>1. PICK last, start, step : /\ last = StepsOf(path) /\ start = [at |-> <<>>, names |-> path, left |-> MaxLinks]
                               /\ step = [n \in 1..last |-> [s \in H |-> WalkStep(disk, s)]]
  OBVIOUS
<1>2. last \in Nat /\ start \in H
  BY <1>1 DEF StepsOf, MaxLinks, MaxTarget
<1>3. step \in [1..last -> [H -> H]]
  BY <1>1
<1>. DEFINE body(h) == [n \in 0..last |-> IF n = 0 THEN start ELSE WalkStep(disk, h[n - 1])]
<1>4. PICK f \in [0..last -> H] : f[0] = start /\ \A n \in 1..last : f[n] = step[n][f[n - 1]]
  <2>1. \E f : Iterates(f, H, start, last, step)
    BY <1>2, <1>3, RecursionExists
  <2>. QED BY <2>1 DEF Iterates
<1>5. \A n \in 1..last : \A s \in H : step[n][s] = WalkStep(disk, s)
  BY <1>1
<1>6. \A n \in 1..last : f[n] = WalkStep(disk, f[n - 1])
  <2>1. \A n \in 1..last : n - 1 \in 0..last
    BY <1>2
  <2>. QED BY <1>4, <1>5, <2>1
<1>7. f = body(f)
  <2>1. \A n \in 0..last : n = 0 \/ n \in 1..last
    BY <1>2
  <2>2. \A n \in 0..last : f[n] = body(f)[n]
    BY <1>4, <1>6, <2>1
  <2>. QED BY <1>4, <2>2
<1>. DEFINE h == CHOOSE h : h = body(h)
<1>8. h = body(h)
  BY <1>7
<1>9. Walk(disk, path) = h[last]
  BY <1>1 DEF Walk, StepsOf
<1>. HIDE DEF h
<1>10. h[0] = start /\ \A n \in 1..last : h[n] = WalkStep(disk, h[n - 1])
  BY <1>2, <1>8
<1>11. \A n \in 0..last : h[n] \in H
  <2>. DEFINE T == {n \in 0..last : h[n] \in H}
  <2>1. 0 \in T
    BY <1>2, <1>10
  <2>2. \A n \in 1..last : n - 1 \in T => n \in T
    <3>1. \A n \in 1..last : n \in 0..last
      BY <1>2
    <3>. QED BY <1>10, <3>1
  <2>3. 0..last \subseteq T
    <3>. HIDE DEF T
    <3>. QED BY <1>2, <2>1, <2>2, RangeInduction
  <2>. QED BY <2>3
<1>12. h \in [0..last -> H]
  BY <1>8, <1>11
<1>. QED BY <1>1, <1>9, <1>10, <1>12 DEF IsWalk

(* What canonicalize returns on any disk is a path without links and without *)
(* "..", all of whose beginnings are there.                                 *)
LEMMA CanonicalStraight ==
    ASSUME NEW disk, NEW N, \A l \in DOMAIN disk.links : disk.links[l] \in Seq(N), NEW path \in Seq(N),
           Canonicalize(disk, path) # NotFound
    PROVE  Canonicalize(disk, path) \in Seq(N) /\ Straight(disk, Canonicalize(disk, path))
<1>. DEFINE H == WalkStates(disk, N)
<1>1. [at |-> <<>>, names |-> path, left |-> MaxLinks] \in H
  BY DEF WalkStates, Straight, MaxLinks
<1>2. \A s \in H : WalkStep(disk, s) \in H
  BY WalkStepStays
<1>3. \A s \in H : s.at \in Seq(N) /\ Straight(disk, s.at)
  BY DEF WalkStates
<1>. HIDE DEF H
<1>4. PICK h : IsWalk(h, H, disk, path)
  <2>1. Len(path) \in Nat
    OBVIOUS
  <2>. QED BY <1>1, <1>2, <2>1, WalkSteps
<1>5. StepsOf(path) \in Nat
  BY DEF StepsOf, MaxLinks, MaxTarget
<1>6. Walk(disk, path) \in H
  BY <1>4, <1>5 DEF IsWalk
<1>. QED BY <1>3, <1>6 DEF Canonicalize

(* A walk along names that are there and no links goes down name by name,    *)
(* to the end or to a name that is not there, where it stays.               *)
LEMMA StraightWalk ==
    ASSUME NEW disk, NEW N, \A l \in DOMAIN disk.links : disk.links[l] \in Seq(N), NEW p \in Seq(N), NEW m \in 0..Len(p),
           \A n \in 1..m : SubSeq(p, 1, n) \in disk.nodes /\ SubSeq(p, 1, n) \notin DOMAIN disk.links /\ p[n] # "..",
           \/ m = Len(p)
           \/ SubSeq(p, 1, m + 1) \notin disk.nodes /\ SubSeq(p, 1, m + 1) \notin DOMAIN disk.links /\ p[m + 1] # ".."
    PROVE  Walk(disk, p).at = SubSeq(p, 1, m) /\ Walk(disk, p).names = SubSeq(p, m + 1, Len(p))
<1>. DEFINE H == WalkStates(disk, N)
            last == StepsOf(p)
            upto(n) == IF n <= m THEN n ELSE m
<1>0. m \in Nat /\ Len(p) \in Nat /\ m <= Len(p)
  OBVIOUS
<1>1. [at |-> <<>>, names |-> p, left |-> MaxLinks] \in H
  BY DEF WalkStates, Straight, MaxLinks
<1>2. \A s \in H : WalkStep(disk, s) \in H
  BY WalkStepStays
<1>3. \A s \in H : DOMAIN s = {"at", "names", "left"}
  BY DEF WalkStates
<1>. HIDE DEF H
<1>4. PICK h : IsWalk(h, H, disk, p)
  BY <1>0, <1>1, <1>2, WalkSteps
<1>5. last \in Nat /\ m <= last
  BY <1>0 DEF StepsOf, MaxLinks, MaxTarget
<1>. HIDE DEF last
<1>6. /\ h \in [0..last -> H] /\ h[0] = [at |-> <<>>, names |-> p, left |-> MaxLinks]
      /\ Walk(disk, p) = h[last] /\ \A n \in 1..last : h[n] = WalkStep(disk, h[n - 1])
  BY <1>4 DEF IsWalk, last
<1>. DEFINE T == {n \in 0..last : /\ h[n].at = SubSeq(p, 1, upto(n))
                                 /\ h[n].names = SubSeq(p, upto(n) + 1, Len(p))}
<1>7. 0 \in T
  <2>1. SubSeq(p, 1, 0) = <<>> /\ SubSeq(p, 0 + 1, Len(p)) = p /\ upto(0) = 0
    BY <1>0
  <2>2. h[0].at = <<>> /\ h[0].names = p
    BY <1>6
  <2>3. 0 \in 0..last
    BY <1>5
  <2>. HIDE DEF upto
  <2>4. SubSeq(p, 1, upto(0)) = <<>> /\ SubSeq(p, upto(0) + 1, Len(p)) = p
    BY <2>1
  <2>. QED BY <2>2, <2>3, <2>4
\* The names that a walk has not taken yet, and the next of them.
<1>a. ASSUME NEW n \in 1..Len(p)
      PROVE  SubSeq(p, n, Len(p)) # <<>> /\ Head(SubSeq(p, n, Len(p))) = p[n] /\ Tail(SubSeq(p, n, Len(p))) = SubSeq(p, n + 1, Len(p))
  <2>1. Len(SubSeq(p, n, Len(p))) = Len(p) - n + 1 /\ Len(p) - n + 1 > 0
    <3>1. n \in Int /\ Len(p) \in Int /\ n <= Len(p) /\ n >= 1 /\ Len(p) - n + 1 > 0
      BY <1>0
    <3>2. \A i \in n..Len(p) : i \in 1..Len(p)
      BY <3>1
    <3>. QED BY <3>1, <3>2, SubSeqProperties
  <2>2. SubSeq(p, n, Len(p)) # <<>>
    <3>1. PICK s, l : s = SubSeq(p, n, Len(p)) /\ l = Len(p) - n + 1
      OBVIOUS
    <3>2. Len(s) = l /\ l > 0 /\ Len(<<>>) = 0
      BY <2>1, <3>1
    <3>3. s # <<>>
      BY <3>2
    <3>. QED BY <3>1, <3>3
  <2>3. Len(p) \in n..Len(p)
    BY <1>0
  <2>4. Head(SubSeq(p, n, Len(p))) = p[n] /\ Tail(SubSeq(p, n, Len(p))) = SubSeq(p, n + 1, Len(p))
    BY <2>3, HeadTailOfSubSeq
  <2>. QED BY <2>2, <2>4
<1>b. ASSUME NEW n \in 1..Len(p) PROVE Append(SubSeq(p, 1, n - 1), p[n]) = SubSeq(p, 1, n)
  OBVIOUS
<1>8. \A n \in 1..last : n - 1 \in T => n \in T
  <2>. SUFFICES ASSUME NEW n \in 1..last, n - 1 \in T PROVE n \in T
    OBVIOUS
  <2>1. n \in 0..last /\ n - 1 \in 0..last /\ n \in Nat
    BY <1>5
  <2>. DEFINE s == h[n - 1]
  <2>2. s \in H /\ h[n] = WalkStep(disk, s) /\ s.at = SubSeq(p, 1, upto(n - 1)) /\ s.names = SubSeq(p, upto(n - 1) + 1, Len(p))
    BY <1>6, <2>1
  <2>. HIDE DEF s
  <2>3. CASE n > m
    <3>1. upto(n - 1) = m /\ upto(n) = m
      BY <1>0, <2>1, <2>3
    <3>. HIDE DEF upto
    <3>2. s.at = SubSeq(p, 1, m) /\ s.names = SubSeq(p, m + 1, Len(p))
      BY <2>2, <3>1
    <3>3. CASE m = Len(p)
      <4>1. SubSeq(p, Len(p) + 1, Len(p)) = <<>>
        OBVIOUS
      <4>2. h[n] = s
        BY <2>2, <3>2, <3>3, <4>1 DEF WalkStep
      <4>. QED BY <2>1, <3>1, <3>2, <4>2
    <3>4. CASE m # Len(p)
      <4>1. m + 1 \in 1..Len(p) /\ m + 1 - 1 = m
        BY <1>0, <3>4
      <4>2. s.names # <<>> /\ Head(s.names) = p[m + 1]
        BY <1>a, <3>2, <4>1
      <4>3. Append(s.at, p[m + 1]) = SubSeq(p, 1, m + 1)
        BY <1>b, <3>2, <4>1
      <4>4. h[n] = s
        BY <2>2, <3>4, <4>2, <4>3 DEF WalkStep
      <4>. QED BY <2>1, <3>1, <3>2, <4>4
    <3>. QED BY <3>3, <3>4
  <2>4. CASE n <= m
    <3>1. upto(n - 1) = n - 1 /\ upto(n) = n /\ n \in 1..Len(p) /\ n \in 1..m
      BY <1>0, <2>1, <2>4
    <3>. HIDE DEF upto
    <3>2. s.at = SubSeq(p, 1, n - 1) /\ s.names = SubSeq(p, n, Len(p))
      <4>1. n - 1 + 1 = n
        BY <2>1
      <4>. QED BY <2>2, <3>1, <4>1
    <3>3. s.names # <<>> /\ Head(s.names) = p[n] /\ Tail(s.names) = SubSeq(p, n + 1, Len(p))
      BY <1>a, <3>1, <3>2
    <3>4. Append(s.at, p[n]) = SubSeq(p, 1, n)
      BY <1>b, <3>1, <3>2
    <3>5. SubSeq(p, 1, n) \in disk.nodes /\ SubSeq(p, 1, n) \notin DOMAIN disk.links /\ p[n] # ".."
      BY <3>1
    <3>6. h[n] = [s EXCEPT !.at = SubSeq(p, 1, n), !.names = Tail(s.names)]
      BY <2>2, <3>3, <3>4, <3>5 DEF WalkStep
    <3>7. h[n].at = SubSeq(p, 1, n) /\ h[n].names = SubSeq(p, n + 1, Len(p))
      BY <1>3, <2>2, <3>3, <3>6
    <3>. QED BY <2>1, <3>1, <3>7
  <2>. HIDE DEF T
  <2>. QED BY <1>0, <2>1, <2>3, <2>4
<1>9. last \in T
  <2>1. 0..last \subseteq T
    <3>. HIDE DEF T
    <3>. QED BY <1>5, <1>7, <1>8, RangeInduction
  <2>2. last \in 0..last
    BY <1>5
  <2>. HIDE DEF T
  <2>. QED BY <2>1, <2>2
<1>10. upto(last) = m
  BY <1>0, <1>5
<1>. HIDE DEF upto
<1>. QED BY <1>6, <1>9, <1>10

(* canonicalize returns such a path as it is.                               *)
LEMMA StraightFixed ==
    ASSUME NEW disk, NEW N, \A l \in DOMAIN disk.links : disk.links[l] \in Seq(N), NEW p \in Seq(N), Straight(disk, p)
    PROVE  Canonicalize(disk, p) = p
<1>1. Walk(disk, p).at = SubSeq(p, 1, Len(p)) /\ Walk(disk, p).names = SubSeq(p, Len(p) + 1, Len(p))
  <2>1. Len(p) \in 0..Len(p)
    OBVIOUS
  <2>. QED BY <2>1, StraightWalk DEF Straight
<1>2. SubSeq(p, 1, Len(p)) = p /\ SubSeq(p, Len(p) + 1, Len(p)) = <<>>
  OBVIOUS
<1>. QED BY <1>1, <1>2 DEF Canonicalize

(* Writing a file that is no link in such a directory writes that file.      *)
LEMMA StraightWritten ==
    ASSUME NEW disk, NEW N, \A l \in DOMAIN disk.links : disk.links[l] \in Seq(N), NEW p \in Seq(N), Straight(disk, p),
           NEW x \in N, x # "..", Append(p, x) \notin DOMAIN disk.links
    PROVE  FileWritten(disk, Append(p, x)) \subseteq {Append(p, x)}
<1>1. PICK q : q = Append(p, x)
  OBVIOUS
<1>2. q \in Seq(N) /\ Len(q) = Len(p) + 1 /\ q[Len(p) + 1] = x /\ (\A n \in 1..Len(p) : q[n] = p[n]) /\ Len(p) \in Nat
  BY <1>1
<1>3. SubSeq(q, 1, Len(p) + 1) = q /\ SubSeq(q, 1, Len(p)) = p
  BY <1>1, <1>2
<1>4. CASE q \in disk.nodes
  <2>1. Straight(disk, q) /\ Len(q) \in 0..Len(q)
    BY <1>1, <1>2, <1>4, StraightAppend
  <2>2. Walk(disk, q).at = SubSeq(q, 1, Len(q)) /\ Walk(disk, q).names = SubSeq(q, Len(q) + 1, Len(q))
    BY <1>2, <2>1, StraightWalk DEF Straight
  <2>3. SubSeq(q, 1, Len(q)) = q /\ SubSeq(q, Len(q) + 1, Len(q)) = <<>>
    BY <1>2
  <2>. QED BY <1>1, <2>2, <2>3 DEF FileWritten
<1>5. CASE q \notin disk.nodes
  <2>1. Len(p) \in 0..Len(q)
    BY <1>2
  <2>2. ASSUME NEW n \in 1..Len(p)
        PROVE  SubSeq(q, 1, n) \in disk.nodes /\ SubSeq(q, 1, n) \notin DOMAIN disk.links /\ q[n] # ".."
    <3>1. SubSeq(q, 1, n) = SubSeq(p, 1, n)
      <4>1. SubSeq(q, 1, n) \in Seq(N) /\ SubSeq(p, 1, n) \in Seq(N)
        BY <1>2
      <4>2. Len(SubSeq(q, 1, n)) = n /\ Len(SubSeq(p, 1, n)) = n
        BY <1>2
      <4>3. \A i \in 1..n : SubSeq(q, 1, n)[i] = SubSeq(p, 1, n)[i]
        BY <1>2
      <4>. QED BY <4>1, <4>2, <4>3
    <3>. QED BY <1>2, <3>1 DEF Straight
  <2>3. Walk(disk, q).at = SubSeq(q, 1, Len(p)) /\ Walk(disk, q).names = SubSeq(q, Len(p) + 1, Len(q))
    <3>1. PICK m \in 0..Len(q) : m = Len(p)
      BY <2>1
    <3>2. SubSeq(q, 1, m + 1) \notin disk.nodes /\ SubSeq(q, 1, m + 1) \notin DOMAIN disk.links /\ q[m + 1] # ".."
      BY <1>1, <1>2, <1>3, <1>5, <3>1
    <3>3. \A n \in 1..m : SubSeq(q, 1, n) \in disk.nodes /\ SubSeq(q, 1, n) \notin DOMAIN disk.links /\ q[n] # ".."
      BY <2>2, <3>1
    <3>4. Walk(disk, q).at = SubSeq(q, 1, m) /\ Walk(disk, q).names = SubSeq(q, m + 1, Len(q))
      BY <1>2, <3>2, <3>3, StraightWalk
    <3>. QED BY <3>1, <3>4
  <2>4. SubSeq(q, Len(p) + 1, Len(q)) = <<x>>
    <3>1. PICK n \in 1..Len(q) : n = Len(p) + 1 /\ Len(q) = n
      BY <1>2
    <3>2. PICK s : s = SubSeq(q, n, n)
      OBVIOUS
    <3>3. s \in Seq(N) /\ Len(s) = 1 /\ s[1] = x
      BY <1>2, <3>1, <3>2
    <3>4. <<x>> \in Seq(N) /\ Len(<<x>>) = 1 /\ <<x>>[1] = x
      OBVIOUS
    <3>5. s = <<x>>
      BY <3>3, <3>4, SeqEqual
    <3>. QED BY <3>1, <3>2, <3>5
  <2>5. Walk(disk, q).at = p /\ Walk(disk, q).names = <<x>>
    BY <1>3, <2>3, <2>4
  <2>6. <<x>> # <<>> /\ Head(<<x>>) = x
    OBVIOUS
  <2>. QED BY <1>1, <2>5, <2>6 DEF FileWritten
<1>. QED BY <1>4, <1>5

(* validate_fs_path on any disk: what is opened for reading lies below the   *)
(* canonical root and has no link in it.                                    *)
LEMMA ReadInside ==
    ASSUME NEW disk, NEW N, \A l \in DOMAIN disk.links : disk.links[l] \in Seq(N),
           NEW root, NEW requested, Resolved(root, requested) \in Seq(N), NEW p \in ValidateFsPath(disk, root, requested)
    PROVE  /\ IsPrefix(Canonicalize(disk, root), p) /\ Canonicalize(disk, p) = p
<1>1. p = Canonicalize(disk, Resolved(root, requested)) /\ p # NotFound /\ IsPrefix(Canonicalize(disk, root), p)
  BY DEF ValidateFsPath
<1>2. p \in Seq(N) /\ Straight(disk, p)
  BY <1>1, CanonicalStraight
<1>. QED BY <1>1, <1>2, StraightFixed

(* validate_fs_write_path and the write on any disk: the directory is one     *)
(* that may be read, and what is written is the file of that name there,    *)
(* if it is no link.                                                        *)
LEMMA WrittenInside ==
    ASSUME NEW disk, NEW N, \A l \in DOMAIN disk.links : disk.links[l] \in Seq(N),
           NEW root, NEW requested, Resolved(root, requested) \in Seq(N),
           NEW p \in ValidateFsWritePath(disk, root, requested)
    PROVE  /\ ValidateFsPath(disk, root, [absolute |-> TRUE, names |-> Front(p)]) = {Front(p)}
           /\ FileWritten(disk, p) \subseteq {p} \/ p \in DOMAIN disk.links
<1>. DEFINE path == Resolved(root, requested)
            parent == Canonicalize(disk, Front(path))
<1>1. /\ path # <<>> /\ parent # NotFound /\ Canonicalize(disk, root) # NotFound /\ IsPrefix(Canonicalize(disk, root), parent)
      /\ p = Append(parent, Last(path)) /\ Last(path) # ".."
  BY DEF ValidateFsWritePath
<1>2. Front(path) \in Seq(N)
  BY <1>1 DEF Front
<1>3. parent \in Seq(N) /\ Straight(disk, parent)
  BY <1>1, <1>2, CanonicalStraight
<1>4. Canonicalize(disk, parent) = parent
  BY <1>3, StraightFixed
<1>5. Last(path) \in N
  BY <1>1 DEF Last
<1>. HIDE DEF parent, path
<1>6. Front(p) = parent
  BY <1>1, <1>3, <1>5 DEF Front
<1>7. Resolved(root, [absolute |-> TRUE, names |-> parent]) = parent
  BY DEF Resolved
<1>8. p \notin DOMAIN disk.links => FileWritten(disk, p) \subseteq {p}
  BY <1>1, <1>3, <1>5, StraightWritten
<1>. QED BY <1>1, <1>4, <1>6, <1>7, <1>8 DEF ValidateFsPath

AnyPathInput(N) == [fn : {"path"}, working_dir : AtMostOne(Seq(N)), absolute : BOOLEAN, names : Seq(N)]

(* The two sandboxes, for every path an agent may name from any working      *)
(* directory, and for every tool with any directories, fuel and memory:     *)
(* what is read, seen and changed is what was granted, and what is written   *)
(* leaves it by a link of that name only.  The disk and the host are those  *)
(* of Computations; ReadInside and WrittenInside hold on any disk.          *)
THEOREM OutsideOnlyByLinkHolds ==
    ASSUME NEW D, NEW N, input.fn = "wasm" => input \in AnyWasmInput(D), input.fn = "path" => input \in AnyPathInput(N)
    PROVE  OutsideOnlyByLink
<1>1. CASE input.fn = "wasm"
  <2>1. input.sandbox \in AnySandbox(D) /\ input.module \in Seq(AnyAsk(D)) /\ input.fn # "path"
    BY <1>1 DEF AnyWasmInput
  <2>. QED BY <2>1, RunConfined DEF OutsideOnlyByLink
<1>2. CASE input.fn = "path"
  <2>. DEFINE names == N \cup {"w", "d", "o", "f", "loop"}
              requested == [absolute |-> input.absolute, names |-> input.names]
              cwd == ResolveAgentCwd([working_dir |-> input.working_dir], <<"w">>)
  <2>1. \A l \in DOMAIN SandboxDisk.links : SandboxDisk.links[l] \in Seq(names)
    <3>1. <<"w">> \in Seq(names) /\ <<"o">> \in Seq(names) /\ <<"o", "f">> \in Seq(names) /\ <<"w", "d">> \in Seq(names) /\ <<"w", "loop">> \in Seq(names)
      OBVIOUS
    <3>2. \A l \in {<<"w", "in">>, <<"w", "out">>, <<"w", "lf">>, <<"r">>, <<"w", "loop">>} :
             SandboxDisk.links[l] \in {<<"w">>, <<"o">>, <<"o", "f">>, <<"w", "d">>, l}
      BY DEF SandboxDisk
    <3>3. SandboxDisk.links[<<"w", "in">>] = <<"w", "d">> /\ SandboxDisk.links[<<"w", "lf">>] = <<"o", "f">>
      BY DEF SandboxDisk
    <3>. QED BY <3>1, <3>2, <3>3 DEF SandboxDisk
  <2>2. input.names \in Seq(names) /\ cwd \in Seq(names)
    <3>1. Seq(N) \subseteq Seq(names)
      OBVIOUS
    <3>2. <<"w">> \in Seq(names)
      OBVIOUS
    <3>3. input.names \in Seq(N) /\ (input.working_dir = {} \/ \E d \in Seq(N) : input.working_dir = {d})
      BY <1>2 DEF AnyPathInput, AtMostOne
    <3>. QED BY <3>1, <3>2, <3>3 DEF ResolveAgentCwd
  <2>3. Resolved(cwd, requested) \in Seq(names)
    <3>. HIDE DEF cwd
    <3>. QED BY <2>2 DEF Resolved
  <2>4. \A p \in ValidateFsPath(SandboxDisk, cwd, requested) :
           IsPrefix(Canonicalize(SandboxDisk, cwd), p) /\ Canonicalize(SandboxDisk, p) = p
    <3>. HIDE DEF cwd, requested, names
    <3>. QED BY <2>1, <2>3, ReadInside
  <2>5. \A p \in ValidateFsWritePath(SandboxDisk, cwd, requested) :
           /\ ValidateFsPath(SandboxDisk, cwd, [absolute |-> TRUE, names |-> Front(p)]) = {Front(p)}
           /\ FileWritten(SandboxDisk, p) \subseteq {p} \/ p \in DOMAIN SandboxDisk.links
    <3>. HIDE DEF cwd, requested, names
    <3>. QED BY <2>1, <2>3, WrittenInside, ZenonT(40)
  <2>. QED BY <1>2, <2>4, <2>5 DEF OutsideOnlyByLink
<1>. QED BY <1>1, <1>2 DEF OutsideOnlyByLink

------------------------------------------------------------------------------
(* Names, messages and slots that are put together and taken apart           *)

(* A set of natural numbers that is not empty has a least one: the first     *)
(* colon of a key, the first slot of a name.                                *)
LEMMA Least ==
    ASSUME NEW T \in SUBSET Nat, T # {}
    PROVE  \E m \in T : \A n \in T : m <= n
<1>1. PICK m \in T : \A y \in T : ~(<<y, m>> \in OpToRel(<, Nat))
  BY NatLessThanWellFounded, WFMin
<1>2. ASSUME NEW n \in T PROVE ~(n < m)
  BY <1>1 DEF OpToRel
<1>3. ASSUME NEW n \in T PROVE m <= n
  <2>1. m \in Nat /\ n \in Nat
    OBVIOUS
  <2>2. ~(n < m)
    BY <1>2
  <2>. QED BY <2>1, <2>2
<1>. QED BY <1>3

(* What was put first is taken off again.                                   *)
LEMMA Beginning ==
    ASSUME NEW S, NEW s \in Seq(S), NEW t \in Seq(S)
    PROVE  SubSeq(s \o t, 1, Len(s)) = s
<1>. DEFINE u == s \o t
<1>1. u \in Seq(S) /\ Len(u) = Len(s) + Len(t) /\ \A i \in 1..Len(s) : u[i] = s[i]
  BY ConcatProperties
<1>. HIDE DEF u
<1>2. SubSeq(u, 1, Len(s)) \in Seq(S) /\ Len(SubSeq(u, 1, Len(s))) = Len(s)
      /\ \A i \in 1..Len(s) : SubSeq(u, 1, Len(s))[i] = u[i]
  BY <1>1
<1>. QED BY <1>1, <1>2, SeqEqual DEF u

(* What was put last is what is left.                                       *)
LEMMA Rest ==
    ASSUME NEW S, NEW s \in Seq(S), NEW t \in Seq(S)
    PROVE  SubSeq(s \o t, Len(s) + 1, Len(s \o t)) = t
<1>. DEFINE u == s \o t
<1>1. u \in Seq(S) /\ Len(u) = Len(s) + Len(t) /\ \A i \in 1..Len(t) : u[Len(s) + i] = t[i]
  BY ConcatProperties
<1>. HIDE DEF u
<1>. DEFINE r == SubSeq(u, Len(s) + 1, Len(u))
<1>2. r \in Seq(S) /\ Len(r) = Len(t) /\ \A i \in 1..Len(t) : r[i] = u[Len(s) + i]
  BY <1>1
<1>. HIDE DEF r
<1>3. \A i \in 1..Len(r) : r[i] = t[i]
  BY <1>1, <1>2
<1>. QED BY <1>2, <1>3, SeqEqual DEF u, r

(* The elements of two sequences, joined.                                   *)
LEMMA Joined ==
    ASSUME NEW S, NEW s \in Seq(S), NEW t \in Seq(S), NEW u, u = s \o t
    PROVE  /\ u \in Seq(S) /\ Len(u) = Len(s) + Len(t)
           /\ \A i \in 1..Len(s) : u[i] = s[i]
           /\ \A i \in 1..Len(t) : u[Len(s) + i] = t[i]
BY ConcatProperties

(* Three sequences are joined from either end.                              *)
LEMMA Regrouped ==
    ASSUME NEW S, NEW s \in Seq(S), NEW t \in Seq(S), NEW u \in Seq(S), NEW v, NEW w, v = s \o t, w = t \o u
    PROVE  v \o u = s \o w
BY ConcatAssociative

\* No colon in it.
Clear(s) == \A i \in DOMAIN s : s[i] # ":"

(* session_key.rs: the channel of a key is read back whatever colons are in  *)
(* the peer, if there is none in the name of the channel.                   *)
LEMMA KeyTaken ==
    ASSUME NEW S, ":" \in S, NEW c \in Seq(S), NEW k \in Seq(S), NEW p \in Seq(S), Clear(c)
    PROVE  /\ NewSessionKey(c, k, p) \in Seq(S)
           /\ ChannelName(NewSessionKey(c, k, p)) = c
           /\ ParseSessionKey(NewSessionKey(c, k, p)) = {NewSessionKey(c, k, p)}
<1>. DEFINE key == NewSessionKey(c, k, p)
            n == Len(c) + 1
            m == Len(c) + 1 + Len(k) + 1
<1>0. <<":">> \in Seq(S) /\ Len(<<":">>) = 1 /\ <<":">>[1] = ":" /\ Len(c) \in Nat /\ Len(k) \in Nat /\ Len(p) \in Nat
  OBVIOUS
<1>1. PICK a : a = <<":">> \o p
  OBVIOUS
<1>2. a \in Seq(S) /\ Len(a) = 1 + Len(p) /\ a[1] = ":"
  BY <1>0, <1>1
<1>3. PICK b : b = k \o a
  OBVIOUS
<1>4. b \in Seq(S) /\ Len(b) = Len(k) + 1 + Len(p) /\ b[Len(k) + 1] = ":"
  <2>1. /\ b \in Seq(S) /\ Len(b) = Len(k) + Len(a) /\ \A i \in 1..Len(a) : b[Len(k) + i] = a[i]
    <3>1. b \in Seq(S) /\ Len(b) = Len(k) + Len(a)
      <4>1. b \in Seq(S)
        BY <1>2, <1>3, ConcatProperties
      <4>2. Len(b) = Len(k) + Len(a)
        BY <1>2, <1>3, ConcatProperties
      <4>. QED BY <4>1, <4>2
    <3>2. \A i \in 1..Len(a) : b[Len(k) + i] = a[i]
      BY <1>2, <1>3, Joined
    <3>. QED BY <3>1, <3>2
  <2>2. 1 \in 1..Len(a) /\ Len(k) + Len(a) = Len(k) + 1 + Len(p)
    BY <1>0, <1>2
  <2>. QED BY <1>2, <2>1, <2>2
<1>5. PICK d : d = <<":">> \o b
  OBVIOUS
<1>6. d \in Seq(S) /\ Len(d) = 1 + Len(k) + 1 + Len(p) /\ d[1] = ":" /\ d[Len(k) + 2] = ":"
  <2>1. PICK colon \in Seq(S) : colon = <<":">> /\ Len(colon) = 1 /\ colon[1] = ":"
    BY <1>0
  <2>2. /\ d \in Seq(S) /\ Len(d) = 1 + Len(b)
        /\ (\A i \in 1..1 : d[i] = colon[i]) /\ \A i \in 1..Len(b) : d[1 + i] = b[i]
    <3>0. d = colon \o b
      BY <1>5, <2>1
    <3>1. d \in Seq(S) /\ Len(d) = Len(colon) + Len(b)
      <4>1. d \in Seq(S)
        BY <1>4, <3>0, ConcatProperties
      <4>2. Len(d) = Len(colon) + Len(b)
        BY <1>4, <3>0, ConcatProperties
      <4>. QED BY <4>1, <4>2
    <3>2. \A i \in 1..Len(colon) : d[i] = colon[i]
      BY <1>4, <3>0, Joined
    <3>3. \A i \in 1..Len(b) : d[Len(colon) + i] = b[i]
      BY <1>4, <3>0, Joined
    <3>. QED BY <2>1, <3>1, <3>2, <3>3
  <2>3. Len(k) + 1 \in 1..Len(b) /\ 1 + (Len(k) + 1) = Len(k) + 2 /\ 1 \in 1..1
        /\ 1 + Len(b) = 1 + Len(k) + 1 + Len(p)
    BY <1>0, <1>4
  <2>. QED BY <1>4, <2>1, <2>2, <2>3
<1>7. key = c \o d
  <2>1. PICK colon \in Seq(S) : colon = <<":">>
    BY <1>0
  <2>2. PICK x \in Seq(S) : x = c \o colon
    <3>1. c \o colon \in Seq(S)
      BY ConcatProperties
    <3>. QED BY <3>1
  <2>3. PICK y \in Seq(S) : y = x \o k
    <3>1. x \o k \in Seq(S)
      BY ConcatProperties
    <3>. QED BY <3>1
  <2>4. PICK z : z = y \o colon
    OBVIOUS
  <2>5. key = z \o p
    BY <2>1, <2>2, <2>3, <2>4 DEF NewSessionKey
  <2>6. z \o p = y \o a
    BY <1>1, <2>1, <2>4, Regrouped, SMTT(60)
  <2>7. y \o a = x \o b
    <3>1. a \in Seq(S)
      BY <1>2
    <3>. QED BY <1>3, <2>3, <3>1, Regrouped, SMTT(60)
  <2>8. x \o b = c \o d
    <3>1. b \in Seq(S) /\ d = colon \o b
      BY <1>4, <1>5, <2>1
    <3>. QED BY <2>1, <2>2, <3>1, Regrouped, SMTT(60)
  <2>. QED BY <2>5, <2>6, <2>7, <2>8
<1>. HIDE DEF key
<1>8. key \in Seq(S) /\ Len(key) = m + Len(p) /\ key[n] = ":" /\ key[m] = ":" /\ \A i \in 1..Len(c) : key[i] = c[i]
  <2>1. /\ key \in Seq(S) /\ Len(key) = Len(c) + Len(d) /\ (\A i \in 1..Len(c) : key[i] = c[i])
        /\ \A i \in 1..Len(d) : key[Len(c) + i] = d[i]
    <3>1. key \in Seq(S) /\ Len(key) = Len(c) + Len(d)
      <4>1. key \in Seq(S)
        BY <1>6, <1>7, ConcatProperties
      <4>2. Len(key) = Len(c) + Len(d)
        BY <1>6, <1>7, ConcatProperties
      <4>. QED BY <4>1, <4>2
    <3>2. \A i \in 1..Len(c) : key[i] = c[i]
      BY <1>6, <1>7, Joined
    <3>3. \A i \in 1..Len(d) : key[Len(c) + i] = d[i]
      BY <1>6, <1>7, Joined
    <3>. QED BY <3>1, <3>2, <3>3
  <2>2. 1 \in 1..Len(d) /\ Len(k) + 2 \in 1..Len(d) /\ Len(c) + (Len(k) + 2) = m /\ Len(c) + Len(d) = m + Len(p)
    BY <1>0, <1>6
  <2>. QED BY <1>6, <2>1, <2>2
<1>9. n \in Colons(key) /\ m \in Colons(key) /\ n # m /\ \A i \in Colons(key) : n <= i
  <2>1. DOMAIN key = 1..Len(key) /\ DOMAIN c = 1..Len(c)
    BY <1>8
  <2>2. n \in 1..Len(key) /\ m \in 1..Len(key) /\ n # m
    BY <1>0, <1>8
  <2>3. ASSUME NEW i \in Colons(key) PROVE n <= i
    <3>1. i \in 1..Len(key) /\ key[i] = ":"
      BY <2>1 DEF Colons
    <3>2. i \notin 1..Len(c)
      BY <1>8, <2>1, <3>1 DEF Clear
    <3>. QED BY <1>0, <3>1, <3>2
  <2>. QED BY <1>8, <2>1, <2>2, <2>3 DEF Colons
<1>10. (CHOOSE i \in Colons(key) : \A j \in Colons(key) : i <= j) = n
  <2>1. \A i \in Colons(key) : i \in Int
    BY <1>8 DEF Colons
  <2>. QED BY <1>0, <1>9, <2>1
<1>11. ChannelName(key) = SubSeq(key, 1, Len(c))
  <2>1. n - 1 = Len(c)
    BY <1>0
  <2>. QED BY <1>9, <1>10, <2>1 DEF ChannelName
<1>12. SubSeq(key, 1, Len(c)) = c
  BY <1>6, <1>7, Beginning
<1>13. ParseSessionKey(key) = {key}
  BY <1>9 DEF ParseSessionKey
<1>. QED BY <1>8, <1>11, <1>12, <1>13 DEF key

(* The channel that is read off any key has no colon, so that the key of a   *)
(* fork has the same channel.                                               *)
LEMMA ChannelClear ==
    ASSUME NEW S, NEW key \in Seq(S)
    PROVE  ChannelName(key) \in Seq(S) /\ Clear(ChannelName(key))
<1>1. CASE Colons(key) = {}
  BY <1>1 DEF ChannelName, Clear, Colons
<1>2. CASE Colons(key) # {}
  <2>1. Colons(key) \in SUBSET Nat /\ \A i \in Colons(key) : i \in 1..Len(key)
    BY DEF Colons
  <2>2. PICK n \in Colons(key) : \A j \in Colons(key) : n <= j
    BY <1>2, <2>1, Least
  <2>3. (CHOOSE i \in Colons(key) : \A j \in Colons(key) : i <= j) = n
    BY <2>1, <2>2
  <2>4. ChannelName(key) = SubSeq(key, 1, n - 1)
    BY <1>2, <2>3 DEF ChannelName
  <2>5. n \in 1..Len(key) /\ n - 1 \in Nat /\ n - 1 <= Len(key)
    BY <2>1
  <2>6. PICK s : s = SubSeq(key, 1, n - 1)
    OBVIOUS
  <2>7. s \in Seq(S) /\ Len(s) = n - 1 /\ \A i \in 1..(n - 1) : s[i] = key[i]
    BY <2>5, <2>6
  <2>8. ASSUME NEW i \in DOMAIN s PROVE s[i] # ":"
    <3>1. i \in 1..(n - 1) /\ i \in DOMAIN key
      BY <2>5, <2>7
    <3>2. i \notin Colons(key)
      BY <2>1, <2>2, <2>5, <3>1
    <3>. QED BY <2>7, <3>1, <3>2 DEF Colons
  <2>. QED BY <2>4, <2>6, <2>7, <2>8 DEF Clear
<1>. QED BY <1>1, <1>2

(* rsplit_once: the option has no colon, the id of the request may have some. *)
LEMMA ButtonTaken ==
    ASSUME NEW S, ":" \in S, NEW r \in Seq(S), NEW o \in Seq(S), Clear(o)
    PROVE  /\ ParseCallbackData(r \o <<":">> \o o) = {<<r, o>>}
           /\ Len(r \o <<":">> \o o) = Len(r) + 1 + Len(o)
<1>0. <<":">> \in Seq(S) /\ Len(<<":">>) = 1 /\ <<":">>[1] = ":" /\ Len(r) \in Nat /\ Len(o) \in Nat
  OBVIOUS
<1>1. PICK front : front = r \o <<":">>
  OBVIOUS
<1>2. front \in Seq(S) /\ Len(front) = Len(r) + 1 /\ front[Len(r) + 1] = ":"
  BY <1>0, <1>1
<1>3. PICK data : data = front \o o
  OBVIOUS
<1>4. data \in Seq(S) /\ Len(data) = Len(r) + 1 + Len(o) /\ data[Len(r) + 1] = ":"
      /\ \A i \in 1..Len(o) : data[Len(r) + 1 + i] = o[i]
  <2>1. /\ data \in Seq(S) /\ Len(data) = Len(front) + Len(o) /\ (\A i \in 1..Len(front) : data[i] = front[i])
        /\ \A i \in 1..Len(o) : data[Len(front) + i] = o[i]
    <3>1. data \in Seq(S) /\ Len(data) = Len(front) + Len(o)
      <4>1. data \in Seq(S)
        BY <1>2, <1>3, ConcatProperties
      <4>2. Len(data) = Len(front) + Len(o)
        BY <1>2, <1>3, ConcatProperties
      <4>. QED BY <4>1, <4>2
    <3>2. \A i \in 1..Len(front) : data[i] = front[i]
      BY <1>2, <1>3, Joined
    <3>3. \A i \in 1..Len(o) : data[Len(front) + i] = o[i]
      BY <1>2, <1>3, Joined
    <3>. QED BY <3>1, <3>2, <3>3
  <2>2. Len(r) + 1 \in 1..Len(front)
    BY <1>0, <1>2
  <2>. QED BY <1>2, <2>1, <2>2
<1>5. r \o <<":">> \o o = data
  BY <1>1, <1>3
<1>6. \A i \in 0..(Len(data) - 1) : i \in Finds(data, <<":">>) <=> data[i + 1] = ":"
  <2>. SUFFICES ASSUME NEW i \in 0..(Len(data) - 1) PROVE i \in Finds(data, <<":">>) <=> data[i + 1] = ":"
    OBVIOUS
  <2>1. i + 1 \in 1..Len(data)
    BY <1>4
  <2>2. PICK s : s = SubSeq(data, i + 1, i + 1)
    OBVIOUS
  <2>3. s \in Seq(S) /\ Len(s) = 1 /\ s[1] = data[i + 1]
    BY <1>4, <2>1, <2>2
  <2>4. s = <<":">> <=> data[i + 1] = ":"
    BY <1>0, <2>3, SeqEqual
  <2>. QED BY <1>0, <2>2, <2>4 DEF Finds
<1>7. \A i \in Finds(data, <<":">>) : i \in 0..(Len(data) - 1)
  BY <1>0 DEF Finds
<1>8. Len(r) \in Finds(data, <<":">>) /\ \A i \in Finds(data, <<":">>) : i <= Len(r)
  <2>1. Len(r) \in 0..(Len(data) - 1)
    BY <1>0, <1>4
  <2>2. ASSUME NEW i \in Finds(data, <<":">>), i > Len(r) PROVE FALSE
    <3>0. i \in 0..(Len(data) - 1)
      BY <1>7, <2>2
    <3>1. i - Len(r) \in 1..Len(o) /\ Len(r) + 1 + (i - Len(r)) = i + 1
      BY <1>0, <1>4, <2>2, <3>0
    <3>2. o[i - Len(r)] = ":"
      BY <1>4, <1>6, <1>7, <3>1
    <3>3. DOMAIN o = 1..Len(o)
      OBVIOUS
    <3>. QED BY <3>1, <3>2, <3>3 DEF Clear
  <2>3. \A i \in Finds(data, <<":">>) : i \in Int
    BY <1>7
  <2>. QED BY <1>0, <1>4, <1>6, <2>1, <2>2, <2>3
<1>9. {i \in Finds(data, <<":">>) : \A k \in Finds(data, <<":">>) : k <= i} = {Len(r)}
  <2>1. \A i \in Finds(data, <<":">>) : i \in Int
    BY <1>7
  <2>. QED BY <1>0, <1>8, <2>1
<1>10. ParseCallbackData(data) = {<<SubSeq(data, 1, Len(r)), SubSeq(data, Len(r) + 2, Len(data))>>}
  <2>1. \A T : T = {Len(r)} => {<<SubSeq(data, 1, i), SubSeq(data, i + 2, Len(data))>> : i \in T}
                                  = {<<SubSeq(data, 1, Len(r)), SubSeq(data, Len(r) + 2, Len(data))>>}
    OBVIOUS
  <2>. QED BY <1>9, <2>1 DEF ParseCallbackData
<1>11. SubSeq(data, 1, Len(r)) = r
  <2>1. <<":">> \o o \in Seq(S) /\ data = r \o (<<":">> \o o)
    BY <1>0, <1>1, <1>3, ConcatAssociative
  <2>. QED BY <2>1, Beginning
<1>12. SubSeq(data, Len(r) + 2, Len(data)) = o
  <2>1. SubSeq(front \o o, Len(front) + 1, Len(front \o o)) = o
    BY <1>2, Rest
  <2>2. Len(front) + 1 = Len(r) + 2
    BY <1>0, <1>2
  <2>. QED BY <1>3, <2>1, <2>2
<1>. QED BY <1>4, <1>5, <1>10, <1>11, <1>12

(* The data of a button, for any limit on its length.                       *)
LEMMA ButtonCut ==
    ASSUME NEW S, ":" \in S, NEW r \in Seq(S), NEW o \in Seq(S), Clear(o), NEW max \in Nat
    PROVE  \E n \in 0..Len(r) :
              /\ ParseCallbackData(ButtonData(r, o, max)) = {<<SubSeq(r, 1, n), o>>}
              /\ Len(r) + 1 + Len(o) <= max => n = Len(r)
              /\ Len(o) < max => Len(ButtonData(r, o, max)) <= max
<1>1. PICK n : n = MaxReqLen(r, o, max)
  OBVIOUS
<1>2. Len(r) \in Nat /\ Len(o) \in Nat
  OBVIOUS
<1>3. /\ n \in 0..Len(r) /\ (Len(r) + 1 + Len(o) <= max => n = Len(r))
      /\ (Len(o) < max => n + 1 + Len(o) <= max)
  BY <1>1, <1>2 DEF MaxReqLen
<1>4. PICK kept : kept = SubSeq(r, 1, n)
  OBVIOUS
<1>5. kept \in Seq(S) /\ Len(kept) = n
  BY <1>3, <1>4
<1>6. ButtonData(r, o, max) = kept \o <<":">> \o o
  BY <1>1, <1>4 DEF ButtonData
<1>7. /\ ParseCallbackData(kept \o <<":">> \o o) = {<<kept, o>>}
      /\ Len(kept \o <<":">> \o o) = n + 1 + Len(o)
  BY <1>5, ButtonTaken
<1>. QED BY <1>3, <1>4, <1>6, <1>7

(* serde: a struct of any fields that is written and read is itself, since a *)
(* field that is left out is one that is read as missing.                   *)
LEMMA StructTaken ==
    ASSUME NEW type, NEW v \in ValuesOf(type)
    PROVE  FromJson(type, ToJson(type, v)) = {v}
<1>. DEFINE D == DOMAIN type
            w == ToJson(type, v)
<1>1. v \in [D -> {{}, {"value"}}] /\ \A f \in D : v[f] = {} => type[f] \in {"skip", "null"}
  BY DEF ValuesOf
<1>2. DOMAIN w = {f \in D : type[f] = "skip" => v[f] # {}} /\ \A f \in DOMAIN w : w[f] = v[f]
  BY DEF ToJson
<1>. HIDE DEF w
<1>3. ASSUME NEW f \in D
      PROVE  ~(type[f] = "required" /\ f \notin DOMAIN w)
             /\ ~(type[f] \in {"required", "default"} /\ f \in DOMAIN w /\ w[f] = {})
             /\ v[f] = IF f \in DOMAIN w THEN w[f] ELSE IF type[f] = "default" THEN {"default"} ELSE {}
  BY <1>1, <1>2
<1>4. FromJson(type, w) = {[f \in D |-> IF f \in DOMAIN w THEN w[f]
                                 ELSE IF type[f] = "default" THEN {"default"} ELSE {}]}
  BY <1>3 DEF FromJson
<1>5. [f \in D |-> IF f \in DOMAIN w THEN w[f] ELSE IF type[f] = "default" THEN {"default"} ELSE {}] = v
  BY <1>1, <1>3
<1>. QED BY <1>4, <1>5 DEF w

\* A piece of content as from_json and the channels make it.
ContentShape(p) ==
    \/ \E t : p = TextPart(t)
    \/ \E u : p = ImagePart(u)
    \/ \E u, n, m : p = FilePart(u, n, m)
    \/ \E u, m : p = AudioPart(u, m)

(* The URL of a piece of content comes back, but for a data URL of an image. *)
LEMMA ContentTaken ==
    ASSUME NEW p, ContentShape(p), ~(p.type = "image" /\ p.url.scheme = "data")
    PROVE  ContentBlockToPart(ContentPartToBlock(p)).url = p.url
<1>0. PICK b : b = ContentPartToBlock(p)
  OBVIOUS
<1>1. CASE \E t : p = TextPart(t)
  <2>1. p.type = "text" /\ p.url = NoUrl
    BY <1>1 DEF TextPart, Part
  <2>2. b.type = "text"
    BY <1>0, <2>1 DEF ContentPartToBlock, Block
  <2>3. ContentBlockToPart(b) = TextPart(b.text)
    BY <2>2 DEF ContentBlockToPart
  <2>. QED BY <1>0, <2>1, <2>3 DEF TextPart, Part
<1>2. CASE \E u : p = ImagePart(u)
  <2>1. PICK u : p = ImagePart(u)
    BY <1>2
  <2>2. p = Part("image", "", u, {}, {})
    BY <2>1 DEF ImagePart
  <2>3. p.type = "image" /\ p.url = u
    BY <2>2 DEF Part
  <2>4. b = Block("image", "", NoUrl, {p.url}, "", {"image/png"})
    BY <1>0, <2>3 DEF ContentPartToBlock
  <2>5. b.type = "image" /\ b.uri = {p.url}
    BY <2>4 DEF Block
  <2>6. ContentBlockToPart(b) = ImagePart(u)
    BY <2>3, <2>5 DEF ContentBlockToPart
  <2>7. ImagePart(u).url = u
    BY DEF ImagePart, Part
  <2>. QED BY <1>0, <2>3, <2>6, <2>7
<1>3. CASE \E u, n, m : p = FilePart(u, n, m)
  <2>1. PICK u, n, m : p = FilePart(u, n, m)
    BY <1>3
  <2>2. p = Part("file", "", u, n, m)
    BY <2>1 DEF FilePart
  <2>3. p.type = "file" /\ p.url = u
    BY <2>2 DEF Part
  <2>4. b = Block("resource_link", "", NoUrl, {p.url},
                    IF p.filename = {} THEN "file" ELSE CHOOSE x \in p.filename : TRUE, p.mime)
    BY <1>0, <2>3 DEF ContentPartToBlock
  <2>5. b.type = "resource_link" /\ b.uri = {p.url}
    BY <2>4 DEF Block
  <2>6. ContentBlockToPart(b) = FilePart(u, {b.name}, b.mime)
    BY <2>3, <2>5 DEF ContentBlockToPart
  <2>7. FilePart(u, {b.name}, b.mime).url = u
    BY DEF FilePart, Part
  <2>. QED BY <1>0, <2>3, <2>6, <2>7
<1>4. CASE \E u, m : p = AudioPart(u, m)
  <2>1. PICK u, m : p = AudioPart(u, m)
    BY <1>4
  <2>2. p = Part("audio", "", u, {}, m)
    BY <2>1 DEF AudioPart
  <2>3. p.type = "audio" /\ p.url = u
    BY <2>2 DEF Part
  <2>4. b = Block("audio", "", p.url, {}, "", IF p.mime = {} THEN {"audio/mpeg"} ELSE p.mime)
    BY <1>0, <2>3 DEF ContentPartToBlock
  <2>5. b.type = "audio" /\ b.data = p.url
    BY <2>4 DEF Block
  <2>6. ContentBlockToPart(b) = AudioPart(u, b.mime)
    BY <2>3, <2>5 DEF ContentBlockToPart
  <2>7. AudioPart(u, b.mime).url = u
    BY DEF AudioPart, Part
  <2>. QED BY <1>0, <2>3, <2>6, <2>7
<1>. QED BY <1>1, <1>2, <1>3, <1>4 DEF ContentShape

(* /health and `anyclaw status` say the same of any agents and tools.       *)
LEMMA StatusShown ==
    ASSUME NEW A, NEW C, NEW up, NEW tools, \A t \in tools : t.tool_type \in {"mcp", "wasm"},
           NEW snapshot, snapshot = RefreshHealthSnapshot(up, A, C, tools),
           NEW output, output = FormatStatusOutput(snapshot)
    PROVE  /\ (HealthHandler(snapshot) = 503) <=> \E a \in output.agents : a.status = "disconnected"
           /\ \A n \in A : Cardinality({a \in output.agents : a.name = n}) = 1
           /\ output.mcp_servers = {} => \A t \in tools : t.enabled => t.tool_type = "wasm"
<1>. DEFINE health == snapshot.agents
            Word(a) == IF a.connected THEN "connected" ELSE "disconnected"
<1>1. /\ snapshot.status = IF \E a \in health : ~a.connected THEN "degraded" ELSE "healthy"
      /\ health = [name : A, connected : {"agents" \in up}, session_count : {0}]
      /\ snapshot.mcp_servers = {t.name : t \in {t \in tools : t.enabled /\ t.tool_type = "mcp"}}
  BY DEF RefreshHealthSnapshot
<1>2. \A n \in A : \E a \in health : a.name = n
  <2>1. PICK c : c = ("agents" \in up)
    OBVIOUS
  <2>2. ASSUME NEW n \in A
        PROVE  /\ [name |-> n, connected |-> c, session_count |-> 0] \in [name : A, connected : {c}, session_count : {0}]
               /\ [name |-> n, connected |-> c, session_count |-> 0].name = n
    OBVIOUS
  <2>. QED BY <1>1, <2>1, <2>2
<1>3. \A a1, a2 \in health : a1.name = a2.name => a1 = a2
  <2>1. PICK c : c = ("agents" \in up)
    OBVIOUS
  <2>2. \A a \in [name : A, connected : {c}, session_count : {0}] :
           a = [name |-> a.name, connected |-> c, session_count |-> 0]
    OBVIOUS
  <2>. QED BY <1>1, <2>1, <2>2
<1>. HIDE DEF health
<1>4. /\ output.agents = {[name |-> a.name, status |-> Word(a),
                           sessions |-> IF a.connected THEN {a.session_count} ELSE {}] : a \in health}
      /\ output.mcp_servers = snapshot.mcp_servers
  BY DEF FormatStatusOutput, health
<1>5. PICK Printed : Printed = [a \in health |-> [name |-> a.name, status |-> Word(a),
                           sessions |-> IF a.connected THEN {a.session_count} ELSE {}]]
  OBVIOUS
<1>6. output.agents = {Printed[a] : a \in health}
  BY <1>4, <1>5
<1>7. \A a \in health : Printed[a].name = a.name /\ Printed[a].status = Word(a)
  BY <1>5
<1>8. (HealthHandler(snapshot) = 503) <=> \E a \in health : ~a.connected
  BY <1>1 DEF HealthHandler
<1>9. (\E a \in output.agents : a.status = "disconnected") <=> \E a \in health : ~a.connected
  BY <1>6, <1>7
<1>10. ASSUME NEW n \in A PROVE Cardinality({a \in output.agents : a.name = n}) = 1
  <2>1. PICK a \in health : a.name = n
    BY <1>2
  <2>2. {l \in output.agents : l.name = n} = {Printed[a]}
    BY <1>3, <1>6, <1>7, <2>1
  <2>. QED BY <2>2, FS_Singleton
<1>11. ASSUME output.mcp_servers = {}, NEW t \in tools, t.enabled PROVE t.tool_type = "wasm"
  BY <1>1, <1>4, <1>11
<1>. QED BY <1>8, <1>9, <1>10, <1>11

(* A sequence of length two, written out.                                   *)
LEMMA Two ==
    ASSUME NEW S, NEW s \in Seq(S), Len(s) = 2
    PROVE  s = <<s[1], s[2]>>
OBVIOUS

(* match_platform_command on any text: cutting at the first @ loses nothing  *)
(* of a slash and a name that end there.                                    *)
LEMMA CommandTaken ==
    ASSUME NEW S, NEW text \in Seq(S)
    PROVE  (MatchPlatformCommand(text) # {})
              <=> /\ Len(text) >= 2 /\ text[1] = "/" /\ text[2] \in PlatformCommands
                  /\ Len(text) > 2 => text[3] = "@"
<1>. DEFINE ats == {i \in DOMAIN text : text[i] = "@"}
            Before(command) == {c \in PlatformCommands : command = <<"/", c>>}
            Known == /\ Len(text) >= 2 /\ text[1] = "/" /\ text[2] \in PlatformCommands
                     /\ Len(text) > 2 => text[3] = "@"
<1>0. DOMAIN text = 1..Len(text) /\ Len(text) \in Nat /\ "@" \notin PlatformCommands
  BY DEF PlatformCommands
<1>1. CASE ats = {}
  <2>1. MatchPlatformCommand(text) = Before(text)
    BY <1>1 DEF MatchPlatformCommand
  <2>2. ASSUME Known PROVE Before(text) # {}
    <3>1. Len(text) = 2
      BY <1>0, <1>1, <2>2
    <3>2. text = <<"/", text[2]>>
      BY <2>2, <3>1
    <3>. QED BY <2>2, <3>2
  <2>3. ASSUME NEW c \in PlatformCommands, text = <<"/", c>> PROVE Known
    BY <2>3
  <2>. QED BY <2>1, <2>2, <2>3
<1>2. CASE ats # {}
  <2>1. ats \in SUBSET Nat
    BY <1>0
  <2>2. PICK n \in ats : \A j \in ats : n <= j
    BY <1>2, <2>1, Least
  <2>3. (CHOOSE i \in ats : \A j \in ats : i <= j) = n
    BY <2>1, <2>2
  <2>4. PICK s : s = SubSeq(text, 1, n - 1)
    OBVIOUS
  <2>5. MatchPlatformCommand(text) = Before(s)
    BY <1>2, <2>3, <2>4 DEF MatchPlatformCommand
  <2>6. n \in 1..Len(text) /\ text[n] = "@"
    BY <1>0
  <2>7. s \in Seq(S) /\ Len(s) = n - 1 /\ \A i \in 1..(n - 1) : s[i] = text[i]
    BY <2>4, <2>6
  <2>8. ASSUME Known PROVE Before(s) # {}
    <3>1. n # 1 /\ n # 2
      BY <1>0, <2>6, <2>8
    <3>2. n = 3
      <4>1. Len(text) > 2
        BY <1>0, <2>6, <3>1
      <4>2. 3 \in ats
        BY <1>0, <2>8, <4>1
      <4>. QED BY <2>2, <2>6, <3>1, <4>2
    <3>3. Len(s) = 2 /\ s[1] = "/" /\ s[2] = text[2]
      BY <2>7, <2>8, <3>2
    <3>4. s = <<"/", text[2]>>
      BY <2>7, <3>3, Two
    <3>. QED BY <2>8, <3>4
  <2>9. ASSUME NEW c \in PlatformCommands, s = <<"/", c>> PROVE Known
    <3>1. Len(s) = 2 /\ s[1] = "/" /\ s[2] = c
      BY <2>9
    <3>2. n = 3
      <4>1. n - 1 = 2 /\ n \in Int
        <5>1. Len(s) = n - 1 /\ n \in 1..Len(text)
          BY <2>6, <2>7
        <5>. QED BY <1>0, <3>1, <5>1
      <4>. QED BY <4>1
    <3>3. text[1] = "/" /\ text[2] = c
      BY <2>7, <3>1, <3>2
    <3>. QED BY <1>0, <2>6, <2>9, <3>2, <3>3
  <2>. QED BY <2>5, <2>8, <2>9
<1>. QED BY <1>1, <1>2

(* The words of two lists, joined.                                          *)
LEMMA AllWords ==
    ASSUME NEW S, NEW s \in Seq(S), NEW t \in Seq(S)
    PROVE  ToSet(s \o t) = ToSet(s) \cup ToSet(t)
<1>1. PICK u : u = s \o t
  OBVIOUS
<1>2. Len(u) = Len(s) + Len(t)
  BY <1>1, ConcatProperties
<1>3. \A i \in 1..Len(s) : u[i] = s[i]
  BY <1>1, Joined
<1>4. \A i \in 1..Len(t) : u[Len(s) + i] = t[i]
  BY <1>1, Joined
<1>5. u \in Seq(S)
  BY <1>1, ConcatProperties
<1>6. DOMAIN u = 1..Len(u) /\ DOMAIN s = 1..Len(s) /\ DOMAIN t = 1..Len(t) /\ Len(s) \in Nat /\ Len(t) \in Nat
  BY <1>5
<1>7. ASSUME NEW i \in DOMAIN u PROVE u[i] \in ToSet(s) \cup ToSet(t)
  <2>1. CASE i <= Len(s)
    BY <1>3, <1>6, <2>1 DEF ToSet
  <2>2. CASE i > Len(s)
    <3>1. i - Len(s) \in 1..Len(t) /\ i = Len(s) + (i - Len(s))
      BY <1>2, <1>6, <2>2
    <3>2. u[i] = t[i - Len(s)]
      BY <1>4, <3>1
    <3>. QED BY <1>6, <3>1, <3>2 DEF ToSet
  <2>. QED BY <1>6, <2>1, <2>2
<1>8. ASSUME NEW i \in DOMAIN s PROVE s[i] \in ToSet(u)
  BY <1>2, <1>3, <1>6 DEF ToSet
<1>9. ASSUME NEW i \in DOMAIN t PROVE t[i] \in ToSet(u)
  <2>1. Len(s) + i \in DOMAIN u
    BY <1>2, <1>6
  <2>. QED BY <1>4, <1>6, <2>1 DEF ToSet
<1>10. ToSet(u) \subseteq ToSet(s) \cup ToSet(t)
  BY <1>7 DEF ToSet
<1>11. ToSet(s) \subseteq ToSet(u) /\ ToSet(t) \subseteq ToSet(u)
  BY <1>8, <1>9 DEF ToSet
<1>. QED BY <1>1, <1>10, <1>11

(* The words of a short list.                                               *)
LEMMA FewWords ==
    ASSUME NEW S, NEW c \in S
    PROVE  /\ <<>> \in Seq(S) /\ ToSet(<<>>) = {}
           /\ <<c>> \in Seq(S) /\ ToSet(<<c>>) = {c} /\ Len(<<c>>) = 1 /\ <<c>>[1] = c
<1>1. <<>> \in Seq(S) /\ ToSet(<<>>) = {}
  BY DEF ToSet
<1>2. <<c>> \in Seq(S) /\ Len(<<c>>) = 1 /\ <<c>>[1] = c
  OBVIOUS
<1>3. ToSet(<<c>>) = {c}
  BY DEF ToSet
<1>. QED BY <1>1, <1>2, <1>3

(* A list that ends with the word c.                                        *)
LEMMA ListEnds ==
    ASSUME NEW S, NEW s \in Seq(S), NEW c \in S
    PROVE  s \o <<c>> \in Seq(S) /\ Last(s \o <<c>>) = c /\ ToSet(s \o <<c>>) = ToSet(s) \cup {c}
<1>0. PICK t, lines : t = <<c>> /\ lines = s \o t
  OBVIOUS
<1>1. t \in Seq(S) /\ Len(t) = 1 /\ t[1] = c /\ ToSet(t) = {c}
  BY <1>0, FewWords
<1>3. lines \in Seq(S)
  BY <1>0, <1>1, ConcatProperties
<1>4. Len(lines) = Len(s) + Len(t)
  BY <1>0, <1>1, ConcatProperties
<1>5. \A i \in 1..Len(t) : lines[Len(s) + i] = t[i]
  BY <1>0, <1>1, Joined
<1>6. Last(lines) = c
  <2>2. Len(lines) = Len(s) + 1 /\ lines[Len(s) + 1] = c
    BY <1>1, <1>4, <1>5
  <2>. QED BY <2>2 DEF Last
<1>7. ToSet(lines) = ToSet(s) \cup ToSet(t)
  BY <1>0, <1>1, AllWords
<1>. QED BY <1>0, <1>1, <1>3, <1>6, <1>7

ReplyWords == {"thread", "text", "media", "quoting", "replying", "/quoting", "/replying"}

(* build_reply_context for any metadata: the tag that is opened is closed,   *)
(* last, and the text is there if it was given.                             *)
LEMMA ReplyClosed ==
    ASSUME NEW meta, NEW lines \in ReplyContext(meta)
    PROVE  /\ meta.replyToText # {} <=> "text" \in ToSet(lines)
           /\ "quoting" \in ToSet(lines) => Last(lines) = "/quoting"
           /\ "replying" \in ToSet(lines) => Last(lines) = "/replying"
<1>. DEFINE thread == IF meta.threadId = {} THEN <<>> ELSE <<"thread">>
            body == IF meta.replyToText # {} THEN <<"text">> ELSE IF meta.replyToMediaType # {} THEN <<"media">> ELSE <<>>
            open == IF meta.replyToIsQuote = {"quote"} THEN "quoting" ELSE "replying"
            close == IF meta.replyToIsQuote = {"quote"} THEN "/quoting" ELSE "/replying"
            answered == UNION {meta.replyToMessageId, meta.replyToText, meta.replyToMediaType} # {}
<1>0. PICK t, b, o, c, asked : t = thread /\ b = body /\ o = open /\ c = close /\ asked = answered
  OBVIOUS
<1>1. lines = t \o (IF answered THEN <<o>> \o b \o <<c>> ELSE <<>>)
  BY <1>0 DEF ReplyContext
<1>2. t = <<>> \/ t = <<"thread">>
  BY <1>0
<1>3. \/ b = <<>> /\ meta.replyToText = {}
      \/ b = <<"media">> /\ meta.replyToText = {}
      \/ b = <<"text">> /\ meta.replyToText # {}
  BY <1>0
<1>4. \/ o = "quoting" /\ c = "/quoting"
      \/ o = "replying" /\ c = "/replying"
  BY <1>0
<1>5. answered \/ meta.replyToText = {}
  OBVIOUS
<1>. HIDE DEF thread, body, open, close, answered
<1>6. t \in Seq(ReplyWords) /\ ToSet(t) \subseteq {"thread"}
  <2>1. PICK x \in ReplyWords : x = "thread"
    BY DEF ReplyWords
  <2>2. <<x>> \in Seq(ReplyWords) /\ ToSet(<<x>>) = {x} /\ <<>> \in Seq(ReplyWords) /\ ToSet(<<>>) = {}
    BY FewWords
  <2>. HIDE DEF ReplyWords
  <2>. QED BY <1>2, <2>1, <2>2
<1>7. b \in Seq(ReplyWords) /\ ToSet(b) \subseteq {"text", "media"} /\ ("text" \in ToSet(b) <=> meta.replyToText # {})
  <2>1. PICK x \in ReplyWords, y \in ReplyWords : x = "text" /\ y = "media"
    BY DEF ReplyWords
  <2>2. /\ <<x>> \in Seq(ReplyWords) /\ ToSet(<<x>>) = {x}
        /\ <<>> \in Seq(ReplyWords) /\ ToSet(<<>>) = {}
        /\ <<y>> \in Seq(ReplyWords) /\ ToSet(<<y>>) = {y}
    BY FewWords
  <2>. HIDE DEF ReplyWords
  <2>. QED BY <1>3, <2>1, <2>2
<1>8. o \in ReplyWords /\ c \in ReplyWords
  BY <1>4 DEF ReplyWords
<1>9. CASE ~answered
  <2>1. lines = t \o <<>> /\ meta.replyToText = {}
    BY <1>1, <1>5, <1>9
  <2>2. lines = t
    BY <1>6, <2>1
  <2>. QED BY <1>6, <2>1, <2>2
<1>10. CASE answered
  <2>1. PICK h : h = <<o>>
    OBVIOUS
  <2>2. PICK k : k = <<c>>
    OBVIOUS
  <2>3. h \in Seq(ReplyWords) /\ ToSet(h) = {o} /\ k \in Seq(ReplyWords)
    BY <1>8, <2>1, <2>2, FewWords
  <2>4. PICK u : u = h \o b
    OBVIOUS
  <2>5. u \in Seq(ReplyWords)
    BY <1>7, <2>3, <2>4, ConcatProperties
  <2>6. PICK w : w = t \o u
    OBVIOUS
  <2>7. w \in Seq(ReplyWords)
    BY <1>6, <2>5, <2>6, ConcatProperties
  <2>8. lines = t \o (u \o k)
    BY <1>1, <1>10, <2>1, <2>2, <2>4
  <2>9. lines = w \o k
    BY <1>6, <2>3, <2>5, <2>6, <2>8, ConcatAssociative, SMTT(30)
  <2>10. Last(lines) = c /\ ToSet(lines) = ToSet(w) \cup {c}
    <3>1. Last(w \o <<c>>) = c /\ ToSet(w \o <<c>>) = ToSet(w) \cup {c}
      BY <1>8, <2>7, ListEnds
    <3>. QED BY <2>2, <2>9, <3>1
  <2>11. ToSet(w) = ToSet(t) \cup ToSet(u)
    BY <1>6, <2>5, <2>6, AllWords
  <2>12. ToSet(u) = ToSet(h) \cup ToSet(b)
    BY <1>7, <2>3, <2>4, AllWords
  <2>13. ToSet(lines) = ToSet(t) \cup {o} \cup ToSet(b) \cup {c}
    BY <2>3, <2>10, <2>11, <2>12
  <2>. HIDE DEF ReplyWords
  <2>14. "text" \in ToSet(lines) <=> "text" \in ToSet(b)
    BY <1>4, <1>6, <2>13
  <2>15. ("quoting" \in ToSet(lines) <=> o = "quoting") /\ ("replying" \in ToSet(lines) <=> o = "replying")
    BY <1>4, <1>6, <1>7, <2>13
  <2>. QED BY <1>4, <1>7, <2>10, <2>14, <2>15
<1>. QED BY <1>9, <1>10

\* Slots as the manager keeps them: the two maps of a slot are inverses.
SlotFields == {"name", "config", "disabled", "connection", "capabilities", "session_map", "reverse_map"}
SlotsShape(s) ==
    /\ s = [i \in DOMAIN s |-> s[i]] /\ DOMAIN s \in SUBSET Nat
    /\ \A i \in DOMAIN s :
          /\ s[i] = [f \in SlotFields |-> s[i][f]]
          /\ IsFiniteSet(DOMAIN s[i].session_map)
          /\ \A k \in DOMAIN s[i].session_map : s[i].reverse_map[s[i].session_map[k]] = k

(* find_slot_by_name returns one slot, of that name.                        *)
LEMMA FoundByName ==
    ASSUME NEW s, SlotsShape(s), NEW name, NEW i \in FindSlotByName(s, name)
    PROVE  /\ i \in DOMAIN s /\ s[i].name = name
           /\ FindSlotByName(s, name) = {i}
<1>. DEFINE found == {j \in DOMAIN s : s[j].name = name}
<1>1. found # {}
  BY DEF FindSlotByName
<1>2. found \in SUBSET Nat
  BY DEF SlotsShape
<1>3. PICK m \in found : \A j \in found : m <= j
  BY <1>1, <1>2, Least
<1>4. (CHOOSE k \in found : \A j \in found : k <= j) = m
  BY <1>2, <1>3
<1>5. FindSlotByName(s, name) = {m}
  BY <1>1, <1>4 DEF FindSlotByName
<1>. QED BY <1>3, <1>5

\* The fork with the answer r is found after it.
ForkKept(s, t, name, key, r) ==
    \E i \in FindSlotByName(t, name) :
       /\ s[i].connection
       /\ t[i].session_map[t[i].reverse_map[r.id]] = r.id
       /\ ChannelName(t[i].reverse_map[r.id]) = ChannelName(key)
       /\ \A j \in DOMAIN s : j # i => t[j] = s[j]

(* fork_session: both maps of the slot have the fork, other slots are left   *)
(* alone, and the key of the fork stays in the channel.                     *)
LEMMA ForkFound ==
    ASSUME NEW s, SlotsShape(s), NEW name, NEW W, ":" \in W, "fork" \in W, NEW key \in Seq(W),
           NEW r, r.id \in Seq(W), NEW d, NEW t \in ForkSession(s, name, key, {r}, d)
    PROVE  ForkKept(s, t, name, key, r)
<1>1. PICK fk : fk = ForkKey(key, r.id)
  OBVIOUS
<1>2. ChannelName(fk) = ChannelName(key)
  <2>1. ChannelName(key) \in Seq(W) /\ Clear(ChannelName(key))
    BY ChannelClear
  <2>2. PICK c \in Seq(W) : c = ChannelName(key)
    BY <2>1
  <2>3. PICK k \in Seq(W) : k = <<"fork">>
    <3>1. PICK f \in W : f = "fork"
      OBVIOUS
    <3>2. <<f>> \in Seq(W)
      OBVIOUS
    <3>. QED BY <3>1, <3>2
  <2>4. ChannelName(NewSessionKey(c, k, r.id)) = c
    BY <2>1, <2>2, KeyTaken
  <2>. QED BY <1>1, <2>2, <2>3, <2>4 DEF ForkKey
<1>3. PICK i \in FindSlotByName(s, name) :
         /\ r \in Awaited(s[i], {r}, d)
         /\ t = [s EXCEPT ![i].session_map = Replaced(@, fk, r.id), ![i].reverse_map = Replaced(@, r.id, fk)]
  <2>1. PICK i \in FindSlotByName(s, name) : \E q \in Awaited(s[i], {r}, d) :
           t = [s EXCEPT ![i].session_map = Replaced(@, ForkKey(key, q.id), q.id),
                         ![i].reverse_map = Replaced(@, q.id, ForkKey(key, q.id))]
    BY ZenonT(40) DEF ForkSession
  <2>2. Awaited(s[i], {r}, d) \subseteq {r}
    BY DEF Awaited
  <2>. QED BY <1>1, <2>1, <2>2
<1>4. s[i].connection
  BY <1>3 DEF Awaited
<1>5. i \in DOMAIN s /\ s[i].name = name /\ FindSlotByName(s, name) = {i}
  BY FoundByName
<1>6. DOMAIN t = DOMAIN s /\ \A j \in DOMAIN s : j # i => t[j] = s[j]
  BY <1>3
<1>7. /\ t[i].name = s[i].name
      /\ t[i].session_map = Replaced(s[i].session_map, fk, r.id)
      /\ t[i].reverse_map = Replaced(s[i].reverse_map, r.id, fk)
  <2>1. DOMAIN s[i] = SlotFields
    BY <1>5 DEF SlotsShape
  <2>2. "name" \in SlotFields /\ "session_map" \in SlotFields /\ "reverse_map" \in SlotFields
    BY DEF SlotFields
  <2>. QED BY <1>3, <1>5, <2>1, <2>2
<1>8. FindSlotByName(t, name) = FindSlotByName(s, name)
  <2>1. {j \in DOMAIN t : t[j].name = name} = {j \in DOMAIN s : s[j].name = name}
    BY <1>6, <1>7
  <2>. QED BY <2>1 DEF FindSlotByName
<1>9. t[i].reverse_map[r.id] = fk /\ t[i].session_map[fk] = r.id
  BY <1>7 DEF Replaced
<1>. QED BY <1>2, <1>4, <1>5, <1>6, <1>8, <1>9 DEF ForkKept

(* A cancel by name goes to the session of the key.                         *)
LEMMA CancelledIsOwn ==
    ASSUME NEW s, SlotsShape(s), NEW name, NEW key, NEW n \in CancelSession(s, name, key)
    PROVE  s[n[1]].name = name /\ s[n[1]].reverse_map[n[2]] = key
<1>1. PICK i \in FindSlotByName(s, name) : n \in CancelNotice(s, i, key)
  BY DEF CancelSession
<1>2. i \in DOMAIN s /\ s[i].name = name
  BY FoundByName
<1>3. key \in DOMAIN s[i].session_map /\ n = <<i, s[i].session_map[key]>>
  BY <1>1 DEF CancelNotice
<1>. QED BY <1>2, <1>3 DEF SlotsShape

(* An answer to session/list comes from a slot that status calls connected. *)
LEMMA ListedIsConnected ==
    ASSUME NEW s, SlotsShape(s), NEW name, NEW reply, NEW d, ListSessions(s, name, reply, d) # {}
    PROVE  \E i \in DOMAIN s : s[i].name = name /\ GetStatus(s)[i].connected
<1>1. PICK i \in FindSlotByName(s, name) : Awaited(s[i], reply, d) # {}
  BY DEF ListSessions
<1>2. i \in DOMAIN s /\ s[i].name = name
  BY FoundByName
<1>3. s[i].connection
  BY <1>1 DEF Awaited
<1>. QED BY <1>2, <1>3 DEF GetStatus

(* Cancel all sends to the sessions of the connected slots and no other.    *)
LEMMA EveryNotice ==
    ASSUME NEW s
    PROVE  \A n : n \in CancelOperation(s)
                     <=> \E i \in DOMAIN s : s[i].connection /\ \E k \in DOMAIN s[i].session_map : n = <<i, s[i].session_map[k]>>
BY DEF CancelOperation, CancelNotice

(* Cancel all notifies a connected slot as often as it has sessions: no two  *)
(* keys of a slot share a session.                                          *)
LEMMA CancelledOnce ==
    ASSUME NEW s, SlotsShape(s), NEW i \in DOMAIN s
    PROVE  Cardinality({n \in CancelOperation(s) : n[1] = i})
              = IF GetStatus(s)[i].connected THEN GetStatus(s)[i].session_count ELSE 0
<1>. DEFINE K == DOMAIN s[i].session_map
            N == {n \in CancelOperation(s) : n[1] = i}
<1>1. GetStatus(s)[i].connected = s[i].connection /\ GetStatus(s)[i].session_count = Cardinality(K)
  BY DEF GetStatus
<1>2. CASE ~s[i].connection
  <2>1. N = {}
    BY <1>2, EveryNotice
  <2>. QED BY <1>1, <1>2, <2>1, FS_EmptySet
<1>3. CASE s[i].connection
  <2>1. PICK f : f = [k \in K |-> <<i, s[i].session_map[k]>>]
    OBVIOUS
  <2>2. \A k \in K : f[k] \in N
    BY <1>3, <2>1, EveryNotice
  <2>3. \A n \in N : \E k \in K : n = f[k]
    BY <2>1, EveryNotice
  <2>4. \A k1, k2 \in K : f[k1] = f[k2] => k1 = k2
    <3>1. \A k \in K : s[i].reverse_map[s[i].session_map[k]] = k
      BY DEF SlotsShape
    <3>. QED BY <2>1, <3>1
  <2>. HIDE DEF N, K
  <2>5. f \in Bijection(K, N)
    <3>1. f \in [K -> N]
      BY <2>1, <2>2
    <3>2. f \in Injection(K, N)
      BY <2>4, <3>1 DEF Injection, IsInjective
    <3>3. f \in Surjection(K, N)
      BY <2>3, <3>1 DEF Surjection
    <3>. QED BY <3>2, <3>3 DEF Bijection
  <2>6. IsFiniteSet(K)
    BY DEF SlotsShape, K
  <2>7. Cardinality(N) = Cardinality(K)
    BY <2>5, <2>6, FS_Bijection DEF ExistsBijection
  <2>. QED BY <1>1, <1>3, <2>7 DEF N, K
<1>. QED BY <1>2, <1>3

(* What is cancelled by key is among what is cancelled when everything is.  *)
LEMMA CancelledAmongAll ==
    ASSUME NEW s, SlotsShape(s), NEW key
    PROVE  CancelSessionByKey(s, key) \subseteq CancelOperation(s)
<1>. DEFINE having == {i \in DOMAIN s : key \in DOMAIN s[i].session_map}
<1>1. CASE having = {}
  BY <1>1 DEF CancelSessionByKey
<1>2. CASE having # {}
  <2>1. having \in SUBSET Nat
    BY DEF SlotsShape
  <2>2. PICK m \in having : \A j \in having : m <= j
    BY <1>2, <2>1, Least
  <2>3. (CHOOSE i \in having : \A j \in having : i <= j) = m
    BY <2>1, <2>2
  <2>4. CancelSessionByKey(s, key) = CancelNotice(s, m, key)
    BY <1>2, <2>3 DEF CancelSessionByKey
  <2>5. ASSUME NEW n \in CancelNotice(s, m, key) PROVE n \in CancelOperation(s)
    BY <2>2, <2>5, EveryNotice DEF CancelNotice
  <2>. QED BY <2>4, <2>5
<1>. QED BY <1>1, <1>2

\* The keys and buttons over the symbols W, none of which is a colon where the
\* code takes apart what it put together.
AnyKeyInput(W) == [fn : {"key"}, channel : {c \in Seq(W) : Clear(c)}, kind : Seq(W), peer : Seq(W)]
AnyButtonInput(W) == [fn : {"button"}, request : Seq(W), option : {o \in Seq(W) : Clear(o)}]
\* A message of a user: text of symbols, another part, or not one part.
CommandShape(parts, W) ==
    \/ \E t \in Seq(W) : parts = <<TextPart(t)>>
    \/ \E p : parts = <<p>> /\ p.type # "text"
    \/ Len(parts) # 1
RoundTripShape(W) ==
    /\ input.fn = "key" => input \in AnyKeyInput(W)
    /\ input.fn = "button" => input \in AnyButtonInput(W)
    /\ input.fn = "content" => ContentShape(input.part)
    /\ input.fn = "command" => CommandShape(input.parts, W)
    /\ input.fn = "reply" => input.meta = [f \in DOMAIN MessageMetadata |-> input.meta[f]]
    /\ input.fn = "slots" => /\ SlotsShape(input.slots) /\ input.key \in Seq(W)
                             /\ input.reply \in AtMostOne([after : Nat, id : Seq(W)])
    /\ input.fn = "status" => \A t \in input.tools : t.tool_type \in {"mcp", "wasm"}

(* Platform commands are recognized in any message.                         *)
LEMMA CommandsKnown ==
    ASSUME NEW W, input.fn = "command" => CommandShape(input.parts, W)
    PROVE  CommandsAreKnown
<1>. SUFFICES ASSUME input.fn = "command"
     PROVE (UNION {MatchPlatformCommand(t) : t \in ExtractCommandText(input.parts)} # {})
           <=> LET t == input.parts[1].text
               IN  /\ input.parts = <<TextPart(t)>> /\ Len(t) >= 2 /\ t[1] = "/" /\ t[2] \in PlatformCommands
                   /\ Len(t) > 2 => t[3] = "@"
  BY DEF CommandsAreKnown
<1>1. CASE \E t \in Seq(W) : input.parts = <<TextPart(t)>>
  <2>1. PICK t \in Seq(W) : input.parts = <<TextPart(t)>>
    BY <1>1
  <2>2. input.parts[1] = TextPart(t) /\ Len(input.parts) = 1
    BY <2>1
  <2>3. TextPart(t).text = t /\ TextPart(t).type = "text"
    BY DEF TextPart, Part
  <2>4. ExtractCommandText(input.parts) = {t}
    BY <2>2, <2>3 DEF ExtractCommandText
  <2>5. UNION {MatchPlatformCommand(x) : x \in ExtractCommandText(input.parts)} = MatchPlatformCommand(t)
    BY <2>4
  <2>. QED BY <2>1, <2>2, <2>3, <2>5, CommandTaken
<1>2. CASE Len(input.parts) # 1 \/ \E p : input.parts = <<p>> /\ p.type # "text"
  <2>1. ExtractCommandText(input.parts) = {}
    BY <1>2 DEF ExtractCommandText
  <2>2. ASSUME NEW t PROVE input.parts # <<TextPart(t)>>
    <3>1. Len(<<TextPart(t)>>) = 1 /\ <<TextPart(t)>>[1].type = "text"
      BY DEF TextPart, Part
    <3>. QED BY <1>2, <3>1
  <2>. QED BY <2>1, <2>2
<1>. QED BY <1>1, <1>2 DEF CommandShape

(* Replies and quotes are closed for any metadata.                          *)
LEMMA RepliesClosed ==
    ASSUME input.fn = "reply" => input.meta = [f \in DOMAIN MessageMetadata |-> input.meta[f]]
    PROVE  RepliesAreClosed
<1>. SUFFICES ASSUME input.fn = "reply",
                     NEW lines \in ReplyContext([input.meta EXCEPT !.replyToIsQuote = IF input.quote THEN {"quote"} ELSE @])
              PROVE  /\ input.meta.replyToText # {} <=> "text" \in ToSet(lines)
                     /\ "quoting" \in ToSet(lines) => Last(lines) = "/quoting"
                     /\ "replying" \in ToSet(lines) => Last(lines) = "/replying"
  BY DEF RepliesAreClosed
<1>1. PICK q : q = IF input.quote THEN {"quote"} ELSE input.meta.replyToIsQuote
  OBVIOUS
<1>2. PICK m : m = [input.meta EXCEPT !.replyToIsQuote = q]
  OBVIOUS
<1>3. m.replyToText = input.meta.replyToText
  <2>1. "replyToText" \in DOMAIN input.meta
    BY DEF MessageMetadata, Skip, Required
  <2>. QED BY <1>2, <2>1
<1>4. lines \in ReplyContext(m)
  BY <1>1, <1>2
<1>. QED BY <1>3, <1>4, ReplyClosed

(* The commands that neither prompt nor create, on any slots whose maps are  *)
(* inverses, and any answer of the agent.                                   *)
LEMMA SlotsFound ==
    ASSUME NEW W, ":" \in W, "fork" \in W,
           input.fn = "slots" => /\ SlotsShape(input.slots) /\ input.key \in Seq(W)
                                 /\ input.reply \in AtMostOne([after : Nat, id : Seq(W)])
    PROVE  SlotsAreFound
<1>. SUFFICES ASSUME input.fn = "slots" PROVE SlotsAreFound
  BY DEF SlotsAreFound
<1>. DEFINE s == input.slots
<1>1. ASSUME NEW name, NEW t \in ForkSession(s, name, input.key, input.reply, 4)
      PROVE  \E i \in FindSlotByName(t, name) :
                /\ s[i].connection
                /\ \A r \in input.reply : /\ t[i].session_map[t[i].reverse_map[r.id]] = r.id
                                          /\ ChannelName(t[i].reverse_map[r.id]) = ChannelName(input.key)
                /\ \A j \in DOMAIN s : j # i => t[j] = s[j]
  <2>1. PICK r \in [after : Nat, id : Seq(W)] : input.reply = {r}
    <3>1. input.reply # {}
      BY <1>1 DEF ForkSession, Awaited
    <3>. QED BY <3>1 DEF AtMostOne
  <2>2. r.id \in Seq(W)
    BY <2>1
  <2>3. PICK key \in Seq(W), d \in Nat : key = input.key /\ d = 4 /\ t \in ForkSession(s, name, key, {r}, d)
    BY <1>1, <2>1
  <2>4. ForkKept(s, t, name, key, r)
    BY <2>2, <2>3, ForkFound
  <2>. QED BY <2>1, <2>3, <2>4 DEF ForkKept
<1>2. ASSUME NEW name, NEW n \in CancelSession(s, name, input.key)
      PROVE  s[n[1]].name = name /\ s[n[1]].reverse_map[n[2]] = input.key
  BY CancelledIsOwn
<1>3. ASSUME NEW name, ListSessions(s, name, input.reply, 4) # {}
      PROVE  \E i \in DOMAIN s : s[i].name = name /\ GetStatus(s)[i].connected
  BY <1>3, ListedIsConnected
<1>4. CancelSessionByKey(s, input.key) \subseteq CancelOperation(s)
  BY CancelledAmongAll
<1>5. ASSUME NEW i \in DOMAIN s
      PROVE  Cardinality({n \in CancelOperation(s) : n[1] = i})
                = IF GetStatus(s)[i].connected THEN GetStatus(s)[i].session_count ELSE 0
  BY CancelledOnce
<1>6. ASSUME HealthCheck(input.configs, s)
      PROVE  (\A c \in input.configs : ~c.enabled) \/ \E i \in DOMAIN s : GetStatus(s)[i].connected
  BY <1>6 DEF HealthCheck, GetStatus
<1>7. ASSUME NEW i \in Keepalives(s) PROVE ~s[i].disabled /\ GetStatus(s)[i].connected
  BY DEF Keepalives, GetStatus
<1>8. ASSUME NEW name
      PROVE  /\ \A t \in ForkSession(s, name, input.key, input.reply, 4) :
                    \E i \in FindSlotByName(t, name) :
                       /\ s[i].connection
                       /\ \A r \in input.reply : /\ t[i].session_map[t[i].reverse_map[r.id]] = r.id
                                                 /\ ChannelName(t[i].reverse_map[r.id]) = ChannelName(input.key)
                       /\ \A j \in DOMAIN s : j # i => t[j] = s[j]
             /\ \A n \in CancelSession(s, name, input.key) :
                    s[n[1]].name = name /\ s[n[1]].reverse_map[n[2]] = input.key
             /\ ListSessions(s, name, input.reply, 4) # {} => \E i \in DOMAIN s : s[i].name = name /\ GetStatus(s)[i].connected
  <2>. HIDE DEF s
  <2>1. \A t \in ForkSession(s, name, input.key, input.reply, 4) :
                    \E i \in FindSlotByName(t, name) :
                       /\ s[i].connection
                       /\ \A r \in input.reply : /\ t[i].session_map[t[i].reverse_map[r.id]] = r.id
                                                 /\ ChannelName(t[i].reverse_map[r.id]) = ChannelName(input.key)
                       /\ \A j \in DOMAIN s : j # i => t[j] = s[j]
    BY <1>1, SMTT(30)
  <2>2. \A n \in CancelSession(s, name, input.key) :
                    s[n[1]].name = name /\ s[n[1]].reverse_map[n[2]] = input.key
    BY <1>2
  <2>3. ListSessions(s, name, input.reply, 4) # {} => \E i \in DOMAIN s : s[i].name = name /\ GetStatus(s)[i].connected
    BY <1>3
  <2>. QED BY <2>1, <2>2, <2>3
<1>9. /\ \A i \in DOMAIN s : Cardinality({n \in CancelOperation(s) : n[1] = i})
                                  = IF GetStatus(s)[i].connected THEN GetStatus(s)[i].session_count ELSE 0
      /\ \A i \in Keepalives(s) : ~s[i].disabled /\ GetStatus(s)[i].connected
  BY <1>5, <1>7, ZenonT(30)
<1>. QED BY <1>4, <1>6, <1>8, <1>9, SMTT(30) DEF SlotsAreFound

(* Keys, buttons, contents, structs, commands, replies, slots and status: of *)
(* any size, over any symbols, what is put together in one place is found    *)
(* in another.                                                              *)
THEOREM NamesReturnHolds ==
    ASSUME NEW W, ":" \in W, "fork" \in W, RoundTripShape(W)
    PROVE  NamesReturn
<1>1. KeysReturn
  <2>. SUFFICES ASSUME input.fn = "key"
                PROVE  LET key == NewSessionKey(input.channel, input.kind, input.peer)
                       IN  ChannelName(key) = input.channel /\ ParseSessionKey(key) = {key}
    BY DEF KeysReturn
  <2>1. input.channel \in Seq(W) /\ Clear(input.channel) /\ input.kind \in Seq(W) /\ input.peer \in Seq(W)
    BY DEF RoundTripShape, AnyKeyInput
  <2>. QED BY <2>1, KeyTaken
<1>2. ButtonsReturn
  <2>. SUFFICES ASSUME input.fn = "button" PROVE ButtonsReturn
    BY DEF ButtonsReturn
  <2>1. input.request \in Seq(W) /\ Clear(input.option) /\ input.option \in Seq(W)
    BY DEF RoundTripShape, AnyButtonInput
  <2>2. PICK r \in Seq(W), o \in Seq(W), max \in Nat : r = input.request /\ o = input.option /\ max = 6
    BY <2>1
  <2>3. Clear(o)
    BY <2>1, <2>2
  <2>. QED BY <2>2, <2>3, ButtonCut DEF ButtonsReturn
<1>3. ContentReturns
  BY ContentTaken DEF ContentReturns, RoundTripShape
<1>4. StructsReturn
  BY StructTaken DEF StructsReturn
<1>5. CommandsAreKnown
  BY CommandsKnown DEF RoundTripShape
<1>6. RepliesAreClosed
  BY RepliesClosed DEF RoundTripShape
<1>7. SlotsAreFound
  BY SlotsFound DEF RoundTripShape
<1>8. StatusAgrees
  BY StatusShown DEF StatusAgrees, RoundTripShape
<1>. QED BY <1>1, <1>2, <1>3, <1>4, <1>5, <1>6, <1>7, <1>8 DEF NamesReturn

------------------------------------------------------------------------------
(* The inputs that are checked are among those                               *)

(* A short sequence over a small set is a sequence over any larger one.     *)
LEMMA SomeUpTo ==
    ASSUME NEW S, NEW T, S \subseteq T, NEW n \in Nat
    PROVE  UpTo(S, n) \subseteq Seq(T)
<1>. SUFFICES ASSUME NEW k \in 0..n, NEW s \in [1..k -> S] PROVE s \in Seq(T)
  BY DEF UpTo
<1>. QED OBVIOUS

(* The same for optional values.                                            *)
LEMMA SomeOpt ==
    ASSUME NEW S, NEW T, S \subseteq T
    PROVE  Opt(S) \subseteq AtMostOne(T)
BY DEF Opt, AtMostOne

(* The options, senders and places of the run are ones of a channel: no two  *)
(* entries of a group have one key.                                         *)
LEMMA AccessInputsAny == AccessInputs \subseteq AnyAccessInput
<1>1. AllowLists \subseteq AnyList
  <2>1. /\ Entry("other", 0, "") \in AnyEntry /\ Entry("num", 1, "") \in AnyEntry /\ Entry("no name", 0, "") \in AnyEntry
        /\ Entry("@name", 0, "Bob") \in AnyEntry /\ Entry("digits", 2, "") \in AnyEntry /\ Entry("*", 0, "") \in AnyEntry
    BY DEF Entry, AnyEntry, Names
  <2>2. \A l \in Seq(AnyEntry) : Array(l) \in AnyList
    BY DEF Array, AnyList
  <2>3. NoArray \in AnyList
    BY DEF NoArray, AnyList
  <2>. HIDE DEF AnyEntry
  <2>4. /\ <<>> \in Seq(AnyEntry)
        /\ \A a, b \in AnyEntry : <<a>> \in Seq(AnyEntry) /\ <<a, b>> \in Seq(AnyEntry)
    OBVIOUS
  <2>. QED BY <2>1, <2>2, <2>3, <2>4 DEF AllowLists
<1>2. Opt({Array(<<>>), Array(<<Entry("digits", 2, "")>>)}) \subseteq AtMostOne(AnyList)
  <2>1. Entry("digits", 2, "") \in AnyEntry
    BY DEF Entry, AnyEntry, Names
  <2>. HIDE DEF AnyEntry
  <2>2. <<>> \in Seq(AnyEntry) /\ \A a \in AnyEntry : <<a>> \in Seq(AnyEntry)
    OBVIOUS
  <2>3. \A l \in Seq(AnyEntry) : Array(l) \in AnyList
    BY DEF Array, AnyList
  <2>4. {Array(<<>>), Array(<<Entry("digits", 2, "")>>)} \subseteq AnyList
    BY <2>1, <2>2, <2>3
  <2>. QED BY <2>4, SomeOpt
<1>3. /\ Opt({"false", "other"}) \subseteq AnyFlag /\ Opt({"true"}) \subseteq AnyFlag
      /\ Opt({"open", "allowlist", "typo"}) \subseteq AnyPolicy /\ Opt({"allowlist", "disabled", "typo"}) \subseteq AnyPolicy
  BY DEF Opt, AtMostOne, AnyFlag, AnyPolicy
<1>4. Opt(AllowLists) \subseteq AtMostOne(AnyList)
  BY <1>1, SomeOpt
<1>5. \A gs \in GroupOptions : gs \in SUBSET AnyGroup /\ \A g, h \in gs : g = h
  <2>1. [key : {0, 1}, enabled : Opt({"false", "other"}), group_policy : Opt({"open", "allowlist", "typo"}),
         allowed_users : Opt({Array(<<>>), Array(<<Entry("digits", 2, "")>>)}), require_mention : Opt({"true"})]
        \subseteq AnyGroup
    <3>1. {0, 1} \subseteq Int
      OBVIOUS
    <3>. QED BY Zenon, <1>2, <1>3, <3>1 DEF AnyGroup
  <2>. QED BY <2>1 DEF GroupOptions, Opt
<1>6. \A os \in ChannelOptions : os \in AtMostOne(AnyOptions) /\ \A o \in os : \A g, h \in o.groups : g = h
  <2>1. PICK R : R = [group_policy : Opt({"allowlist", "disabled", "typo"}), allowed_users : Opt(AllowLists),
                      require_mention : Opt({"true"}), groups : GroupOptions]
    OBVIOUS
  <2>2. R \subseteq AnyOptions /\ \A o \in R : o.groups \in GroupOptions
    BY <1>3, <1>4, <1>5, <2>1 DEF AnyOptions
  <2>. QED BY <1>5, <2>1, <2>2 DEF ChannelOptions, Opt, AtMostOne
<1>7. Senders \subseteq AnySender
  BY DEF Senders, AnySender, AtMostOne, Names
<1>8. ASSUME NEW i \in AccessInputs PROVE i \in AnyAccessInput
  <2>1. i \in [fn : {"access"}, options : ChannelOptions, sender : Senders, group : BOOLEAN, mentioned : BOOLEAN]
    BY DEF AccessInputs
  <2>2. i \in [fn : {"access"}, options : AtMostOne(AnyOptions), sender : AnySender, group : BOOLEAN, mentioned : BOOLEAN]
    BY <1>6, <1>7, <2>1
  <2>. QED BY <1>6, <2>1, <2>2 DEF AnyAccessInput
<1>. QED BY <1>8

(* The histories of the run are histories of two conversations and agents.  *)
LEMMA StoreInputsAny == StoreInputs \subseteq AnyStoreInput({"k1", "k2"}, {"a", "b"}, {"db"})
<1>1. StoreConfigs \subseteq AnyStoreConfig({"db"})
  BY DEF StoreConfigs, AnyStoreConfig, Opt, AtMostOne
<1>2. StoreOps \subseteq AnyStoreOp({"k1", "k2"}, {"a", "b"})
  BY DEF StoreOps, AnyStoreOp
<1>3. UpTo(StoreOps, 4) \subseteq Seq(AnyStoreOp({"k1", "k2"}, {"a", "b"}))
  BY <1>2, SomeUpTo
<1>. QED BY <1>1, <1>3 DEF StoreInputs, AnyStoreInput

ToolWords == {"h1", "h2", "gone", "d1", "d2", "out", ""}
(* The modules and sandboxes of the run.                                    *)
LEMMA WasmInputsAny == WasmInputs \subseteq AnyWasmInput(ToolWords)
<1>1. Instructions \subseteq AnyAsk(ToolWords)
  <2>1. {"", "out", "d1", "d2"} \subseteq ToolWords
    BY DEF ToolWords
  <2>2. {0, 2, 9, MaxTable, MaxTable + 1} \subseteq Nat
    BY DEF MaxTable
  <2>3. PICK numbers, words : /\ numbers = {0, 2, 9, MaxTable, MaxTable + 1} /\ words = {"", "out", "d1", "d2"}
    OBVIOUS
  <2>4. Instructions \subseteq [op : {"memory", "table", "trap", "look", "change", "print"}, n : numbers, dir : words]
    BY <2>3 DEF Instructions
  <2>. QED BY <2>1, <2>2, <2>3, <2>4 DEF AnyAsk
<1>2. UpTo(Instructions, 3) \subseteq Seq(AnyAsk(ToolWords))
  BY <1>1, SomeUpTo
<1>3. Preopens \subseteq Seq(AnyDir(ToolWords))
  <2>1. {"h1", "h2", "gone", "d1", "d2"} \subseteq ToolWords
    BY DEF ToolWords
  <2>2. \A a, b \in AnyDir(ToolWords) : <<a>> \in Seq(AnyDir(ToolWords)) /\ <<a, b>> \in Seq(AnyDir(ToolWords))
    OBVIOUS
  <2>3. \A h \in {"h1", "h2"} : /\ <<Preopened(h, "d1", TRUE), Preopened("h2", "d2", FALSE)>> \in Seq(AnyDir(ToolWords))
                                /\ <<Preopened(h, "d1", FALSE), Preopened("h2", "d2", TRUE)>> \in Seq(AnyDir(ToolWords))
    <3>. SUFFICES ASSUME NEW h \in {"h1", "h2"}
                  PROVE  /\ <<Preopened(h, "d1", TRUE), Preopened("h2", "d2", FALSE)>> \in Seq(AnyDir(ToolWords))
                         /\ <<Preopened(h, "d1", FALSE), Preopened("h2", "d2", TRUE)>> \in Seq(AnyDir(ToolWords))
      OBVIOUS
    <3>1. /\ Preopened(h, "d1", TRUE) \in AnyDir(ToolWords) /\ Preopened("h2", "d2", FALSE) \in AnyDir(ToolWords)
          /\ Preopened(h, "d1", FALSE) \in AnyDir(ToolWords) /\ Preopened("h2", "d2", TRUE) \in AnyDir(ToolWords)
      BY <2>1 DEF Preopened, AnyDir
    <3>. QED BY <2>2, <3>1
  <2>4. {<<>>, <<Preopened("h1", "d1", TRUE)>>, <<Preopened("gone", "d1", FALSE)>>} \subseteq Seq(AnyDir(ToolWords))
    <3>1. Preopened("h1", "d1", TRUE) \in AnyDir(ToolWords) /\ Preopened("gone", "d1", FALSE) \in AnyDir(ToolWords)
      BY <2>1 DEF Preopened, AnyDir
    <3>2. <<>> \in Seq(AnyDir(ToolWords))
      OBVIOUS
    <3>. QED BY <2>2, <3>1, <3>2
  <2>. QED BY <2>3, <2>4 DEF Preopens
<1>. QED BY <1>2, <1>3 DEF WasmInputs, AnyWasmInput, AnySandbox

PathNames == {"w", "f", "d", "in", "out", "lf", "..", "r", "loop", "w2", "gone"}
(* The paths of the run.                                                    *)
LEMMA PathInputsAny == PathInputs \subseteq AnyPathInput(PathNames)
<1>1. UpTo({"w", "f", "d", "in", "out", "lf", "..", "r", "loop", "w2"}, 3) \subseteq Seq(PathNames)
  <2>1. {"w", "f", "d", "in", "out", "lf", "..", "r", "loop", "w2"} \subseteq PathNames
    BY DEF PathNames
  <2>. QED BY <2>1, SomeUpTo
<1>2. Opt({<<"w">>, <<"r">>, <<"gone">>}) \subseteq AtMostOne(Seq(PathNames))
  <2>1. {<<"w">>, <<"r">>, <<"gone">>} \subseteq Seq(PathNames)
    BY DEF PathNames
  <2>. QED BY <2>1, SomeOpt
<1>. QED BY <1>1, <1>2 DEF PathInputs, AnyPathInput

RoundTripWords == {"a", "b", ":", "y", "n", "o", "fork", "tg", "direct", "1", "new", "/", "cancel", "@", "x"}

(* The keys of the run have no colon in their channel.                      *)
LEMMA KeyInputsAny == KeyInputs \subseteq AnyKeyInput(RoundTripWords)
<1>1. {"a", "b"} \subseteq RoundTripWords /\ {"a", "b", ":"} \subseteq RoundTripWords
  BY DEF RoundTripWords
<1>2. Words \subseteq Seq(RoundTripWords)
  BY <1>1, SomeUpTo DEF Words
<1>3. UpTo({"a", "b"}, 2) \subseteq Seq(RoundTripWords)
  BY <1>1, SomeUpTo
<1>4. ASSUME NEW w \in UpTo({"a", "b"}, 2) PROVE Clear(w)
  <2>1. PICK n \in 0..2 : w \in [1..n -> {"a", "b"}]
    BY DEF UpTo
  <2>. QED BY <2>1 DEF Clear
<1>5. Plain \subseteq {c \in Seq(RoundTripWords) : Clear(c)}
  BY <1>3, <1>4 DEF Plain
<1>. QED BY <1>2, <1>5 DEF KeyInputs, AnyKeyInput

(* Nor have the options of its buttons.                                     *)
LEMMA ButtonInputsAny == ButtonInputs \subseteq AnyButtonInput(RoundTripWords)
<1>1. UpTo({"a", ":"}, 6) \subseteq Seq(RoundTripWords)
  <2>1. {"a", ":"} \subseteq RoundTripWords
    BY DEF RoundTripWords
  <2>. QED BY <2>1, SomeUpTo
<1>2. UpTo({"y"}, 7) \subseteq Seq(RoundTripWords)
  <2>1. {"y"} \subseteq RoundTripWords
    BY DEF RoundTripWords
  <2>. QED BY <2>1, SomeUpTo
<1>3. ASSUME NEW w \in UpTo({"y"}, 7) PROVE Clear(w)
  <2>1. PICK n \in 0..7 : w \in [1..n -> {"y"}]
    BY DEF UpTo
  <2>. QED BY <2>1 DEF Clear
<1>4. UpTo({"y"}, 7) \subseteq {w \in Seq(RoundTripWords) : Clear(w)}
  BY <1>2, <1>3
<1>. QED BY <1>1, <1>4 DEF ButtonInputs, AnyButtonInput

(* The contents of the run.                                                 *)
LEMMA ContentInputsAny == \A i \in ContentInputs : ContentShape(i.part)
BY DEF ContentInputs, ContentShape

(* The messages of the run.                                                 *)
LEMMA CommandInputsAny == \A i \in CommandInputs : CommandShape(i.parts, RoundTripWords)
<1>. SUFFICES ASSUME NEW i \in CommandInputs PROVE CommandShape(i.parts, RoundTripWords)
  OBVIOUS
<1>1. UpTo({"/", "new", "cancel", "@", "x"}, 4) \subseteq Seq(RoundTripWords)
  <2>1. {"/", "new", "cancel", "@", "x"} \subseteq RoundTripWords
    BY DEF RoundTripWords
  <2>. QED BY <2>1, SomeUpTo
<1>2. \/ i.parts \in {<<TextPart(t)>> : t \in UpTo({"/", "new", "cancel", "@", "x"}, 4)}
      \/ i.parts = <<ImagePart(Address("u"))>>
      \/ i.parts = <<TextPart(<<"/", "new">>), ImagePart(Address("u"))>>
  BY DEF CommandInputs
<1>3. ImagePart(Address("u")).type # "text"
  BY DEF ImagePart, Part
<1>4. i.parts = <<TextPart(<<"/", "new">>), ImagePart(Address("u"))>> => Len(i.parts) = 2
  OBVIOUS
<1>. QED BY <1>1, <1>2, <1>3, <1>4 DEF CommandShape

(* The metadata of the run have all fields.                                 *)
LEMMA ReplyInputsAny == \A i \in ReplyInputs : i.meta = [f \in DOMAIN MessageMetadata |-> i.meta[f]]
BY DEF ReplyInputs, ValuesOf

(* The tools of the run are of the two kinds.                               *)
LEMMA StatusInputsAny == \A i \in StatusInputs : \A t \in i.tools : t.tool_type \in {"mcp", "wasm"}
BY DEF StatusInputs

(* A slot of the run has maps that are inverses and finite.                 *)
LEMMA SlotMade ==
    ASSUME NEW name, NEW state, NEW caps, NEW keys, IsFiniteSet(keys)
    PROVE  LET x == Slot(name, state, caps, keys)
           IN  /\ x = [f \in SlotFields |-> x[f]]
               /\ IsFiniteSet(DOMAIN x.session_map)
               /\ \A k \in DOMAIN x.session_map : x.reverse_map[x.session_map[k]] = k
<1>. DEFINE x == Slot(name, state, caps, keys)
            own == IF state = "up" THEN keys \cup {name \o <<":", "default", ":", "default">>} ELSE {}
<1>1. IsFiniteSet(own)
  <2>1. PICK e : e = name \o <<":", "default", ":", "default">>
    OBVIOUS
  <2>2. IsFiniteSet(keys \cup {e}) /\ IsFiniteSet({})
    BY FS_EmptySet, FS_Singleton, FS_Union
  <2>. QED BY <2>1, <2>2
<1>. HIDE DEF own
<1>2. /\ x.session_map = [k \in own |-> <<name, k>>]
      /\ x.reverse_map = [id \in {<<name, k>> : k \in own} |-> id[2]]
      /\ x = [f \in SlotFields |-> x[f]]
  BY DEF Slot, NewSlot, SlotFields, own
<1>3. ASSUME NEW k \in own PROVE x.reverse_map[<<name, k>>] = k
  BY <1>2
<1>. HIDE DEF x
<1>4. DOMAIN x.session_map = own /\ \A k \in own : x.session_map[k] = <<name, k>>
  BY <1>2
<1>. QED BY <1>1, <1>2, <1>3, <1>4 DEF x

(* So have all slots of the run.                                            *)
LEMMA SlotInputsAny ==
    \A i \in SlotInputs : /\ SlotsShape(i.slots) /\ i.key \in Seq(RoundTripWords)
                          /\ i.reply \in AtMostOne([after : Nat, id : Seq(RoundTripWords)])
<1>. SUFFICES ASSUME NEW i \in SlotInputs
              PROVE  /\ SlotsShape(i.slots) /\ i.key \in Seq(RoundTripWords)
                     /\ i.reply \in AtMostOne([after : Nat, id : Seq(RoundTripWords)])
  OBVIOUS
<1>1. i.key \in Seq(RoundTripWords)
  <2>1. i.key = <<"tg", ":", "direct", ":", "1">>
    BY DEF SlotInputs
  <2>. QED BY <2>1 DEF RoundTripWords
<1>2. i.reply \in AtMostOne([after : Nat, id : Seq(RoundTripWords)])
  <2>1. i.reply \in {{}, {[after |-> 1, id |-> <<"new">>]}, {[after |-> 3, id |-> <<"new">>]}}
    BY DEF SlotInputs
  <2>2. <<"new">> \in Seq(RoundTripWords)
    BY DEF RoundTripWords
  <2>3. [after |-> 1, id |-> <<"new">>] \in [after : Nat, id : Seq(RoundTripWords)]
        /\ [after |-> 3, id |-> <<"new">>] \in [after : Nat, id : Seq(RoundTripWords)]
    BY <2>2
  <2>. QED BY <2>1, <2>3 DEF AtMostOne
<1>3. SlotsShape(i.slots)
  <2>1. CASE i.slots = <<>>
    BY <2>1 DEF SlotsShape
  <2>2. ASSUME NEW x, NEW y, NEW caps, NEW k \in SomeKeys, NEW l \in SomeKeys,
               i.slots = <<Slot(<<"a">>, x, caps, k), Slot(<<"b">>, y, {{"fork", "list"}}, l)>>
        PROVE  SlotsShape(i.slots)
    <3>1. IsFiniteSet(k) /\ IsFiniteSet(l)
      <4>1. PICK p, q : k \in SUBSET {p, q} /\ l \in SUBSET {p, q}
        BY DEF SomeKeys
      <4>2. {p, q} = {p} \cup {q}
        OBVIOUS
      <4>. QED BY <4>1, <4>2, FS_Singleton, FS_Union, FS_Subset
    <3>2. PICK a, b : a = Slot(<<"a">>, x, caps, k) /\ b = Slot(<<"b">>, y, {{"fork", "list"}}, l)
      OBVIOUS
    <3>3. /\ a = [f \in SlotFields |-> a[f]] /\ IsFiniteSet(DOMAIN a.session_map)
          /\ \A n \in DOMAIN a.session_map : a.reverse_map[a.session_map[n]] = n
      BY <3>1, <3>2, SlotMade
    <3>4. /\ b = [f \in SlotFields |-> b[f]] /\ IsFiniteSet(DOMAIN b.session_map)
          /\ \A n \in DOMAIN b.session_map : b.reverse_map[b.session_map[n]] = n
      BY <3>1, <3>2, SlotMade
    <3>5. i.slots = <<a, b>>
      BY <2>2, <3>2
    <3>. QED BY <3>3, <3>4, <3>5 DEF SlotsShape
  <2>3. i.slots = <<>> \/ \E x, y, caps : \E k, l \in SomeKeys :
           i.slots = <<Slot(<<"a">>, x, caps, k), Slot(<<"b">>, y, {{"fork", "list"}}, l)>>
    BY DEF SlotInputs
  <2>. QED BY <2>1, <2>2, <2>3
<1>. QED BY <1>1, <1>2, <1>3

(* An input is for the function that fn names.                              *)
LEMMA InputsByName ==
    ASSUME Init
    PROVE  /\ input.fn = "access" => input \in AccessInputs
           /\ input.fn = "store" => input \in StoreInputs
           /\ input.fn = "wasm" => input \in WasmInputs
           /\ input.fn = "path" => input \in PathInputs
           /\ input.fn = "key" => input \in KeyInputs
           /\ input.fn = "button" => input \in ButtonInputs
           /\ input.fn = "content" => input \in ContentInputs
           /\ input.fn = "command" => input \in CommandInputs
           /\ input.fn = "reply" => input \in ReplyInputs
           /\ input.fn = "slots" => input \in SlotInputs
           /\ input.fn = "status" => input \in StatusInputs
<1>1. input \in ConfigInputs => input.fn = "config" BY DEF ConfigInputs
<1>2. input \in SplitInputs => input.fn = "split" BY DEF SplitInputs
<1>3. input \in MarkupInputs => input.fn = "markup" BY DEF MarkupInputs
<1>4. input \in KeyInputs => input.fn = "key" BY DEF KeyInputs
<1>5. input \in ButtonInputs => input.fn = "button" BY DEF ButtonInputs
<1>6. input \in SliceInputs => input.fn = "slice" BY DEF SliceInputs
<1>7. input \in ContentInputs => input.fn = "content" BY DEF ContentInputs
<1>8. input \in ToolInputs => input.fn = "tool" BY DEF ToolInputs
<1>9. input \in StructInputs => input.fn = "struct" BY DEF StructInputs
<1>10. input \in UpdateInputs => input.fn = "update" BY DEF UpdateInputs
<1>11. input \in PushInputs => input.fn = "push" BY DEF PushInputs
<1>12. input \in CommandInputs => input.fn = "command" BY DEF CommandInputs
<1>13. input \in ReplyInputs => input.fn = "reply" BY DEF ReplyInputs
<1>14. input \in MockInputs => input.fn = "mock" BY DEF MockInputs
<1>15. input \in SlotInputs => input.fn = "slots" BY DEF SlotInputs
<1>16. input \in StatusInputs => input.fn = "status" BY DEF StatusInputs
<1>17. /\ input \in AccessInputs => input.fn = "access"
       /\ input \in StoreInputs => input.fn = "store"
       /\ input \in WasmInputs => input.fn = "wasm"
       /\ input \in PathInputs => input.fn = "path"
  BY DEF AccessInputs, StoreInputs, WasmInputs, PathInputs
<1>. QED BY <1>1, <1>2, <1>3, <1>4, <1>5, <1>6, <1>7, <1>8, <1>9, <1>10, <1>11, <1>12, <1>13, <1>14, <1>15, <1>16, <1>17
         DEF Init

(* What the run checks of access control, validation, the restored sessions, *)
(* the sandboxes and the names, as one theorem of its specification: the     *)
(* inputs it enumerates satisfy what the theorems above assume.             *)
THEOREM ComputationsHold ==
    Spec => [](StrangersKeptOut /\ ValidatedStarts /\ RestoredIsLatest /\ OutsideOnlyByLink /\ NamesReturn)
<1>. DEFINE Inv == StrangersKeptOut /\ ValidatedStarts /\ RestoredIsLatest /\ OutsideOnlyByLink /\ NamesReturn
            Small == /\ input.fn = "access" => input \in AnyAccessInput
                     /\ input.fn = "store" => input \in AnyStoreInput({"k1", "k2"}, {"a", "b"}, {"db"})
                     /\ input.fn = "wasm" => input \in AnyWasmInput(ToolWords)
                     /\ input.fn = "path" => input \in AnyPathInput(PathNames)
                     /\ RoundTripShape(RoundTripWords)
<1>1. Init => Small
  <2>1. Init => RoundTripShape(RoundTripWords)
    BY InputsByName, KeyInputsAny, ButtonInputsAny, ContentInputsAny, CommandInputsAny, ReplyInputsAny,
       SlotInputsAny, StatusInputsAny
       DEF RoundTripShape
  <2>. QED BY <2>1, InputsByName, AccessInputsAny, StoreInputsAny, WasmInputsAny, PathInputsAny
<1>2. Small /\ [Next]_input => Small'
  BY DEF Next, RoundTripShape
<1>3. Small => Inv
  <2>1. ":" \in RoundTripWords /\ "fork" \in RoundTripWords
    BY DEF RoundTripWords
  <2>2. RoundTripShape(RoundTripWords) => NamesReturn
    BY <2>1, NamesReturnHolds
  <2>. QED BY <2>2, StrangersKeptOutHolds, ValidatedStartsHolds, RestoredIsLatestHolds, OutsideOnlyByLinkHolds
<1>. QED BY <1>1, <1>2, <1>3, PTL DEF Spec
==============================================================================
