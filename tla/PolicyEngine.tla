---------------------------- MODULE PolicyEngine -----------------------------
(***************************************************************************)
(* The policy engine (harness/src/policy.ts), the `policy` command         *)
(* (cli_policy.ts) and the MCP lane of the evidence (evaluateMcpCall() of  *)
(* mcp.ts): which of its lists a tool name falls under, and what is said   *)
(* of it.                                                                  *)
(*                                                                         *)
(* A name or a pattern is a sequence of tokens, of which only the dot and  *)
(* the asterisk mean anything; no name contains an asterisk or a line end. *)
(***************************************************************************)
EXTENDS ExitCodes, Sequences, SequencesExt

CONSTANTS
  Names,     \* The tool names that are asked about.
  Configs,   \* The policies a file may hold: see Config.
  MaxLane    \* Bound on the calls of the MCP lane.

(* Names and patterns are strings. *)
String(s) == s \in Seq(ToSet(s))
ASSUME NamesAssumption == \A name \in Names : String(name)
ASSUME ConfigsAssumption ==
  \A c \in Configs : \A section \in {c.tools, c.mcp} :
    \A p \in section.deny \cup section.require_approval \cup section.allow : String(p)

VARIABLES
  config,    \* The policy in the file.
  asked,     \* The last answer of the `policy` command, or NotAsked.
  lane       \* The events evaluateMcpCall() has emitted.

engineVars == <<config, asked, lane>>

(* A section has three sets of patterns, deny, require_approval and allow. *)
(* A Config has the sections tools and mcp, and mcp may be NoSection.      *)
NoSection == [deny |-> {}, require_approval |-> {}, allow |-> {}]
NotAsked == [tool |-> <<>>, exit |-> CI_FORMATTER]

Star == "*"
Dot == "."

-----------------------------------------------------------------------------
(***************************************************************************)
(* matchPattern()                                                          *)
(***************************************************************************)
(* The anchored expression, by where in the name its first i tokens can    *)
(* end.                                                                    *)
GlobToRegex(name, pattern) ==
  LET ends[i \in 0..Len(pattern)] ==
        IF i = 0 THEN {0}
        ELSE IF pattern[i] = Star
             THEN {j \in 0..Len(name) : \E k \in ends[i - 1] : k <= j}
             ELSE {j \in 1..Len(name) : j - 1 \in ends[i - 1] /\ name[j] = pattern[i]}
  IN  Len(name) \in ends[Len(pattern)]

StarFirst(pattern) == IsPrefix(<<Star, Dot>>, pattern)
StarLast(pattern) == ~StarFirst(pattern) /\ IsSuffix(<<Dot, Star>>, pattern)

(* A slip: the dot before a last asterisk is cut off with it.              *)
MatchPatternUndotted(name, pattern) ==
  \/ pattern = name
  \/ StarFirst(pattern) /\ IsSuffix(Tail(pattern), name)
  \/ StarLast(pattern) /\ IsPrefix(Front(Front(pattern)), name)
  \/ /\ ~StarFirst(pattern) /\ ~StarLast(pattern) /\ Star \in ToSet(pattern)
     /\ GlobToRegex(name, pattern)

MatchPattern(name, pattern) ==
  \/ pattern = name
  \/ StarFirst(pattern) /\ IsSuffix(Tail(pattern), name)
  \/ StarLast(pattern) /\ IsPrefix(Front(pattern), name)
  \/ /\ ~StarFirst(pattern) /\ ~StarLast(pattern) /\ Star \in ToSet(pattern)
     /\ GlobToRegex(name, pattern)

(* evaluateTool() and evaluateMcp() on a section: deny, then               *)
(* require_approval, then allow, and nothing that no list names.           *)
Evaluate(section, name) ==
  LET Listed(patterns) == \E p \in patterns : MatchPattern(name, p)
  IN  CASE Listed(section.deny) -> "deny"
        [] ~Listed(section.deny) /\ Listed(section.require_approval) -> "require_approval"
        [] ~Listed(section.deny) /\ ~Listed(section.require_approval)
             /\ Listed(section.allow) -> "allow"
        [] OTHER -> "deny"

EvaluateTool(name) == Evaluate(config.tools, name)
EvaluateMcp(name) == Evaluate(config.mcp, name)

-----------------------------------------------------------------------------
EngineInit ==
  /\ config \in Configs
  /\ asked = NotAsked
  /\ lane = <<>>

(* `policy --tool name`; file is what --policy names.                      *)
PolicyCommand(name, file) ==
  /\ asked' = [tool |-> name,
               exit |-> CASE name = <<>> \/ file = "missing" -> CONFIG_ERROR
                          [] name # <<>> /\ file = "invalid" -> UNCAUGHT
                          [] OTHER -> IF EvaluateTool(name) = "deny"
                                      THEN POLICY_VIOLATION ELSE SUCCESS]
  /\ UNCHANGED <<config, lane>>

(* evaluateMcpCall(): the verdict, then the interaction, which carries an  *)
(* anchor if it needs an approval.                                         *)
EvaluateMcpCall(name) ==
  /\ Len(lane) < 2 * MaxLane
  /\ LET verdict == EvaluateMcp(name)
     IN  lane' = lane \o
           <<[type |-> "policy-decision", tool |-> name, decision |-> verdict,
              anchored |-> FALSE],
             [type |-> "mcp-interaction", tool |-> name, decision |-> verdict,
              anchored |-> verdict = "require_approval"]>>
  /\ UNCHANGED <<config, asked>>

-----------------------------------------------------------------------------
(***************************************************************************)
(* What a pattern is meant to match, told apart from the way it is matched: *)
(* the name can be cut into one piece per token, such that each token but  *)
(* the asterisk is its piece.                                              *)
(***************************************************************************)
Glob(name, pattern) ==
  \E cut \in [0..Len(pattern) -> 0..Len(name)] :
    /\ cut[0] = 0 /\ cut[Len(pattern)] = Len(name)
    /\ \A i \in DOMAIN pattern :
         /\ cut[i - 1] <= cut[i]
         /\ pattern[i] # Star => SubSeq(name, cut[i - 1] + 1, cut[i]) = <<pattern[i]>>

(* A pattern with "*." first or ".*" last takes every further asterisk     *)
(* literally.                                                              *)
Plain(pattern) ==
  \/ ~StarFirst(pattern) /\ ~StarLast(pattern)
  \/ Cardinality({i \in DOMAIN pattern : pattern[i] = Star}) = 1

(* The decision is what the lists of the section say of the name, the      *)
(* stricter list first; patterns that are not Plain may go unheard.        *)
Governed(section, name, decision) ==
  LET Says(patterns) == \E p \in patterns : Glob(name, p)
      Insists(patterns) == \E p \in patterns : Plain(p) /\ Glob(name, p)
  IN  /\ decision = "allow" =>
           Says(section.allow) /\ ~Insists(section.deny \cup section.require_approval)
      /\ decision = "require_approval" =>
           Says(section.require_approval) /\ ~Insists(section.deny)
      /\ decision = "deny" =>
           \/ Says(section.deny)
           \/ ~Insists(section.require_approval \cup section.allow)
=============================================================================
