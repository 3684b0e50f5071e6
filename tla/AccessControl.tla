---------------------------- MODULE AccessControl ----------------------------
(***************************************************************************)
(* Access control of channel messages                                      *)
(* (crates/anyclaw-channels/src/access_control.rs): who may talk to the    *)
(* bot in a direct message or in a group, decided from the options of the  *)
(* channel.  All of it is functions.                                       *)
(*                                                                         *)
(* An optional value is a set with at most one element.  A user name is a  *)
(* member of Names; Lower is Rust's to_lowercase, which the parser applies *)
(* to the configured name, and AsciiFold what eq_ignore_ascii_case sees of *)
(* a name: the two differ on a letter outside ASCII, which "OE" and "oe"   *)
(* stand for, as a capital and as a small letter.  The vector of an allow  *)
(* list is a set of entries: the code asks whether it is empty and whether *)
(* any entry matches.                                                      *)
(***************************************************************************)
EXTENDS Integers, Sequences, SequencesExt

Names == {"bob", "Bob", "oe", "OE"}
Lower(n) == CASE n = "Bob" -> "bob" [] n = "OE" -> "oe" [] OTHER -> n
AsciiFold(n) == IF n = "Bob" THEN "bob" ELSE n

-----------------------------------------------------------------------------
(* The parsed configuration *)

Wildcard == [kind |-> "wildcard", id |-> 0, name |-> ""]
UserId(n) == [kind |-> "user_id", id |-> n, name |-> ""]
Username(n) == [kind |-> "username", id |-> 0, name |-> n]

\* SenderIdentity::matches and matches_any; a sender may lack an id, a name or both.
Matches(sender, entry) ==
    \/ entry.kind = "wildcard"
    \/ entry.kind = "user_id" /\ entry.id \in sender.user_id
    \/ entry.kind = "username" /\ \E u \in sender.username : AsciiFold(u) = AsciiFold(entry.name)
MatchesAny(sender, entries) == \E e \in entries : Matches(sender, e)

DefaultAccessConfig ==
    [group_policy |-> "open", allowed_users |-> {Wildcard}, groups |-> {},
     default_require_mention |-> FALSE]

\* The configuration of a group: none, or the entry under its chat id.
GroupOf(cfg, chat) == {g \in cfg.groups : g.chat_id = chat}

\* Mutant of EffectivePolicy: a group does not inherit the policy of the channel.
EffectivePolicyOwn(cfg, chat) ==
    LET own == UNION {g.group_policy : g \in GroupOf(cfg, chat)}
    IN  IF own = {} THEN "open" ELSE CHOOSE p \in own : TRUE

EffectivePolicy(cfg, chat) ==
    LET own == UNION {g.group_policy : g \in GroupOf(cfg, chat)}
    IN  IF own = {} THEN cfg.group_policy ELSE CHOOSE p \in own : TRUE

\* The group's own list when it has entries, otherwise the list of the channel.
EffectiveUsers(cfg, chat) ==
    LET own == {g \in GroupOf(cfg, chat) : g.allowed_users # {}}
    IN  IF own = {} THEN cfg.allowed_users ELSE (CHOOSE g \in own : TRUE).allowed_users

RequireMention(cfg, chat) ==
    IF GroupOf(cfg, chat) = {} THEN cfg.default_require_mention
    ELSE \E g \in GroupOf(cfg, chat) : g.require_mention

-----------------------------------------------------------------------------
(* The decisions *)

EvaluateDm(cfg, sender) ==
    IF MatchesAny(sender, cfg.allowed_users) THEN "allow" ELSE "dm_sender_not_allowed"

EvaluateGroup(cfg, chat, sender, mentioned) ==
    IF \E g \in GroupOf(cfg, chat) : ~g.enabled THEN "group_disabled"
    ELSE IF EffectivePolicy(cfg, chat) = "disabled" THEN "group_policy_disabled"
    ELSE IF EffectivePolicy(cfg, chat) = "allowlist" /\ ~MatchesAny(sender, EffectiveUsers(cfg, chat))
         THEN "group_sender_not_allowed"
    ELSE IF RequireMention(cfg, chat) /\ ~mentioned THEN "skip_no_mention"
    ELSE "allow"

EvaluateAccess(cfg, chat, sender, isGroup, mentioned) ==
    IF isGroup THEN EvaluateGroup(cfg, chat, sender, mentioned) ELSE EvaluateDm(cfg, sender)

\* Whether the text a message replies to is withheld from the agent.  The code
\* works the policy and the list out a second time and does not look at enabled.
ShouldSuppressReplyContext(cfg, chat, replySender, isGroup) ==
    /\ isGroup
    /\ EffectivePolicy(cfg, chat) = "allowlist"
    /\ ~MatchesAny(replySender, EffectiveUsers(cfg, chat))

-----------------------------------------------------------------------------
(* Reading the options: JSON values of any type, so every part may be       *)
(* missing or of another type than expected.                                *)

ParseGroupPolicy(s) == {s} \cap {"open", "allowlist", "disabled"}

\* A JSON value in an allow list: a number, "*", a string of digits, a name
\* with or without @, a string with no name in it ("@" or ""), another type.
ParseAllowlistEntry(v) ==
    CASE v.json \in {"num", "digits"}  -> {UserId(v.n)}
      [] v.json = "*"                  -> {Wildcard}
      [] v.json \in {"name", "@name"}  -> {Username(Lower(v.name))}
      [] OTHER                         -> {}

\* filter_map over the elements; a value that is no array gives the empty list.
ParseAllowlist(v) == UNION {ParseAllowlistEntry(e) : e \in IF v.array THEN ToSet(v.items) ELSE {}}

\* and_then(as_bool).unwrap_or(default): "other" is a value that is no boolean.
BoolOr(opt, default) == IF opt \in {{"true"}, {"false"}} THEN opt = {"true"} ELSE default
PolicyOf(opt) == UNION {ParseGroupPolicy(s) : s \in opt}
PolicyOr(opt, default) == IF PolicyOf(opt) = {} THEN default ELSE CHOOSE p \in PolicyOf(opt) : TRUE

GroupFromOptions(g) ==
    [chat_id |-> g.key,
     enabled |-> BoolOr(g.enabled, TRUE),
     group_policy |-> PolicyOf(g.group_policy),
     allowed_users |-> UNION {ParseAllowlist(v) : v \in g.allowed_users},
     require_mention |-> BoolOr(g.require_mention, FALSE)]

\* AccessConfig::from_options.  A group whose key is no number (key 0) is skipped.
FromOptions(options) ==
    IF options = {} THEN DefaultAccessConfig
    ELSE LET ac == CHOOSE o \in options : TRUE
         IN  [group_policy |-> PolicyOr(ac.group_policy, "open"),
              allowed_users |-> IF ac.allowed_users = {} THEN {Wildcard}
                                ELSE ParseAllowlist(CHOOSE v \in ac.allowed_users : TRUE),
              groups |-> {GroupFromOptions(g) : g \in {g \in ac.groups : g.key # 0}},
              default_require_mention |-> BoolOr(ac.require_mention, FALSE)]
=============================================================================
