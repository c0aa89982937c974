-------------------------------- MODULE Router --------------------------------
(***************************************************************************)
(* Split routing (router.go) and the part of parseConfig (main.go) that    *)
(* builds the router.  A text is a sequence of tokens.  The tokens are     *)
(* chosen so that no text can be cut into them in two ways: then equality, *)
(* prefix and suffix of the token sequences are those of the strings.  The *)
(* module has no state: a router is a record that never changes.           *)
(***************************************************************************)
EXTENDS Integers, Sequences, SequencesExt, FiniteSetsExt

CONSTANTS LowerOf,   \* per token: the token in lower case
          Digits     \* the tokens that start with a digit

Dot == "."
Colon == ":"
Hash == "#"

RouteModes == {"all-proxy", "proxy-default", "direct-default"}

\* The punctuation has no case, and what is in lower case already stays so.
ASSUME LowerAssumption ==
  /\ {Dot, Hash} \subseteq DOMAIN LowerOf
  /\ \A x \in DOMAIN LowerOf :
       /\ LowerOf[x] \in DOMAIN LowerOf /\ LowerOf[LowerOf[x]] = LowerOf[x]
       /\ LowerOf[x] = Dot <=> x = Dot
       /\ LowerOf[x] = Hash <=> x = Hash

ToLower(text) == [i \in DOMAIN text |-> LowerOf[text[i]]]

HasPrefix(text, token) == text # <<>> /\ Head(text) = token

----------------------------------------------------------------------------
(* The suffix lists.                                                       *)

\* An entry of several labels gets a leading dot, a single label stays as it is.
NormalizeEntry(part) ==
  LET low == ToLower(part) IN
  IF ~HasPrefix(low, Dot) /\ Contains(low, Dot) THEN <<Dot>> \o low ELSE low

\* The parts between the commas of a list, blanks trimmed.
parseSuffixList(parts) == {NormalizeEntry(p) : p \in parts \ {<<>>}}

\* The lines of a list file: comments and blank lines are skipped.
loadSuffixFile(lines) == parseSuffixList({l \in lines : ~HasPrefix(l, Hash)})

----------------------------------------------------------------------------
(* Matching.                                                               *)

\* A target without the port that follows its last colon, ...
StripPort(target) ==
  LET i == Max({0} \cup {j \in DOMAIN target : target[j] = Colon}) IN
  IF i > 0 /\ i < Len(target) /\ target[i + 1] \in Digits
  THEN SubSeq(target, 1, i - 1) ELSE target

\* ... without one trailing dot, in lower case.
normalizeHost(target) ==
  LET host == StripPort(target) IN
  ToLower(IF host # <<>> /\ Last(host) = Dot THEN Front(host) ELSE host)

\* A match that forgets the dot before the domain.
MatchesNoBoundary(host, s) ==
  IF HasPrefix(s, Dot) THEN IsSuffix(Tail(s), host) ELSE host = s

\* An entry with a leading dot stands for the domain and all below it, any other
\* entry for itself.
Matches(host, s) ==
  IF HasPrefix(s, Dot) THEN host = Tail(s) \/ IsSuffix(s, host) ELSE host = s

matchesAny(target, suffixes) ==
  LET host == normalizeHost(target) IN
  host # <<>> /\ \E s \in suffixes : Matches(host, ToLower(s))

\* Router.Decide.
Decide(router, target) ==
  IF router.mode = "proxy-default"
    THEN IF matchesAny(target, router.direct) THEN "direct" ELSE "wan"
  ELSE IF router.mode = "direct-default"
    THEN IF matchesAny(target, router.proxy) THEN "wan" ELSE "direct"
  ELSE "wan"

----------------------------------------------------------------------------
(* The configured router.                                                  *)

NoRouter == [mode |-> "none", direct |-> {}, proxy |-> {}]

\* parseConfig: lists of the environment and of the files together; a router exists
\* only with a mode other than the default or with a list that is not empty.
NewRouter(env) ==
  LET direct == parseSuffixList(env.directDomains) \cup loadSuffixFile(env.directFile)
      proxy  == parseSuffixList(env.proxyDomains) \cup loadSuffixFile(env.proxyFile)
  IN  IF env.mode # "all-proxy" \/ direct # {} \/ proxy # {}
      THEN [mode |-> env.mode, direct |-> direct, proxy |-> proxy] ELSE NoRouter

\* wanRelay.decideRoute.
decideRoute(router, target) == IF router = NoRouter THEN "wan" ELSE Decide(router, target)
=============================================================================
