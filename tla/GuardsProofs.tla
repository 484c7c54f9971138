---------------------------- MODULE GuardsProofs ----------------------------
(***************************************************************************)
(* Proofs about what stands between an agent and a credential besides the  *)
(* leases, for every set of hosts, nonces, tokens, Gates and references:   *)
(* scopes, replay protection, tokens, and clients finding and using Gates. *)
(* The components share no state; each has its own specification.          *)
(***************************************************************************)
EXTENDS PolicyScope, Glob, ReplayGuard, TokenGuard, ClientSession,
        FiniteSetTheorems, SequenceTheorems, WellFoundedInduction, TLAPS

(***************************************************************************)
(* PolicyScope: a grant lies within policy and request                     *)
(*                                                                         *)
(* The evaluation is one step, so the invariant says where the granted     *)
(* scope came from; the forbidden patterns then only grow.                 *)
(***************************************************************************)

ScopeInv ==
    /\ allow \in Allow /\ requested \in Request
    /\ granted # None => ~Denied(requested, allow) /\ granted = IntersectScope(requested, allow)
    /\ scope # None => allow.forbidden \cup requested.forbidden \subseteq scope.forbidden

\* A grant is computed once, and every delegation repeats what is forbidden.
LEMMA ScopeInvNext == ScopeInv /\ [ScopeNext]_scopeVars => ScopeInv'
<1> SUFFICES ASSUME ScopeInv, [ScopeNext]_scopeVars PROVE ScopeInv'
  OBVIOUS
<1>1. CASE Evaluate
  <2>1. IntersectScope(requested, allow).forbidden = allow.forbidden \cup requested.forbidden
    BY DEF IntersectScope
  <2> QED BY <1>1, <2>1 DEF Evaluate, ScopeInv
<1>2. ASSUME NEW c \in Child, Delegate(c) PROVE ScopeInv'
  BY <1>2 DEF Delegate, IsScopeSubset, ScopeInv
<1>3. CASE UNCHANGED scopeVars
  BY <1>3 DEF scopeVars, ScopeInv
<1> QED BY <1>1, <1>2, <1>3 DEF ScopeNext

\* What one side leaves to the other, and what is left of both, lies in both.
LEMMA NarrowBoth ==
    ASSUME NEW want, NEW may, ~Disjoint(want, may), NEW x,
           Narrow(want, may) = {} \/ x \in Narrow(want, may)
    PROVE  /\ may = {} \/ x \in may
           /\ want = {} \/ x \in want
BY DEF Disjoint, Narrow

\* The scope invariant holds throughout.
LEMMA ScopeInvariant == ScopeSpec => []ScopeInv
<1>1. ScopeInit => ScopeInv
  BY DEF ScopeInit, ScopeInv
<1> QED BY <1>1, ScopeInvNext, PTL DEF ScopeSpec

\* Every request the proxy admits under a granted scope has a host and a method
\* that both the policy and the agent's own request admit (intersect_scope,
\* validate_request), whatever lists either of them leaves empty.
THEOREM GrantTheorem == ScopeSpec => []GrantWithinBoth
<1>1. ScopeInv => GrantWithinBoth
  <2> SUFFICES ASSUME ScopeInv, granted # None, NEW r \in Admitted(granted)
               PROVE  /\ ValidateHost(r.host, allow) /\ ValidateHost(r.host, requested)
                      /\ ValidateMethod(r.method, allow) /\ ValidateMethod(r.method, requested)
    BY DEF GrantWithinBoth
  <2>1. /\ ~Disjoint(requested.hosts, allow.hosts)
        /\ ~Disjoint(requested.methods, allow.methods)
        /\ granted.hosts = Narrow(requested.hosts, allow.hosts)
        /\ granted.methods = Narrow(requested.methods, allow.methods)
    BY DEF ScopeInv, Denied, IntersectScope
  <2>2. /\ r.host \in granted.hosts
        /\ granted.methods = {} \/ r.method \in granted.methods
    BY DEF Admitted, Pinned, ValidateMethod
  <2>3. /\ allow.hosts = {} \/ r.host \in allow.hosts
        /\ requested.hosts = {} \/ r.host \in requested.hosts
    BY <2>1, <2>2, NarrowBoth
  <2>4. /\ allow.methods = {} \/ r.method \in allow.methods
        /\ requested.methods = {} \/ r.method \in requested.methods
    BY <2>1, <2>2, NarrowBoth
  <2> QED BY <2>3, <2>4 DEF ValidateHost, ValidateMethod
<1> QED BY <1>1, ScopeInvariant, PTL

\* The dialect of the policy and that of the proxy (glob.rs, scope.rs): a path that
\* matches a pattern in the policy's dialect matches it in the proxy's, unless the
\* pattern ends in a `**` after other segments and those alone match the path.
THEOREM DialectsAgree ==
    ASSUME NEW path \in Seq(STRING), NEW pat \in Seq(STRING),
           ~TailUnused(path, pat), Matches(path, pat)
    PROVE  GlobsetMatches(path, pat)
<1>1. PICK cut \in Cuts(path, pat) : \A j \in 1..Len(pat) :
        \/ pat[j] = StarStar
        \/ cut[j + 1] = cut[j] + 1 /\ pat[j] \in {Star, path[cut[j]]}
  BY DEF Matches
<1>3. ASSUME Len(pat) > 1, pat[Len(pat)] = StarStar
      PROVE  cut[Len(pat)] < cut[Len(pat) + 1]
  <2>1. PICK n \in Nat : n = Len(pat)
    OBVIOUS
  <2>2. PICK end \in Nat : end = Len(path) + 1
    OBVIOUS
  <2>3. /\ cut \in [1..(n + 1) -> 1..end] /\ cut[1] = 1 /\ cut[n + 1] = end
        /\ \A i, k \in 1..(n + 1) : i <= k => cut[i] <= cut[k]
    BY <2>1, <2>2 DEF Cuts
  <2>4. n \in 1..(n + 1) /\ n + 1 \in 1..(n + 1) /\ n > 1
    BY <1>3, <2>1
  <2>5. cut[n] \in 1..end /\ cut[n] <= end
    BY <2>3, <2>4
  <2>6. ASSUME cut[n] = end PROVE FALSE
    <3>1. PICK front : front = SubSeq(pat, 1, n - 1)
      OBVIOUS
    <3>2. front \in Seq(STRING) /\ Len(front) = n - 1 /\ \A i \in 1..(n - 1) : front[i] = pat[i]
      <4>1. front = [i \in 1..(n - 1) |-> pat[i]]
        BY <2>1, <2>4, <3>1
      <4>2. \A i \in 1..(n - 1) : pat[i] \in STRING
        BY <2>1, <2>4
      <4>3. n - 1 \in Nat /\ front \in [1..(n - 1) -> STRING]
        BY <2>4, <4>1, <4>2
      <4> QED BY <4>1, <4>3
    <3>3. PICK less : less = [i \in 1..n |-> cut[i]]
      OBVIOUS
    <3>4. less \in [1..n -> 1..end]
      BY <2>3, <3>3
    <3>5. less[1] = 1 /\ less[n] = end /\ \A i \in 1..n : less[i] = cut[i]
      BY <2>3, <2>4, <2>6, <3>3
    <3>6. \A i, k \in 1..n : i <= k => less[i] <= less[k]
      BY <2>3, <3>5
    <3>7. Len(front) + 1 = n
      BY <2>4, <3>2
    <3>8. less \in Cuts(path, front)
      BY <2>2, <3>4, <3>5, <3>6, <3>7 DEF Cuts
    <3>9. ASSUME NEW j \in 1..Len(front)
          PROVE  \/ front[j] = StarStar
                 \/ less[j + 1] = less[j] + 1 /\ front[j] \in {Star, path[less[j]]}
      <4>1. j \in 1..(n - 1) /\ j \in 1..n /\ j + 1 \in 1..n /\ j \in 1..Len(pat)
        BY <2>1, <3>2
      <4>2. front[j] = pat[j] /\ less[j] = cut[j] /\ less[j + 1] = cut[j + 1]
        BY <3>2, <3>5, <4>1
      <4> QED BY <1>1, <4>1, <4>2
    <3>10. Matches(path, front)
      BY <3>8, <3>9 DEF Matches
    <3> QED BY <1>3, <2>1, <3>1, <3>10 DEF TailUnused
  <2>7. cut[n] < end
    BY <2>2, <2>5, <2>6
  <2> QED BY <2>1, <2>3, <2>7
<1>2. ASSUME NEW j \in 1..Len(pat)
      PROVE  \/ /\ pat[j] \in {Star, StarStar}
                /\ cut[j] < cut[j + 1] \/ Len(pat) = 1
             \/ pat[j] = StarStar /\ j < Len(pat)
             \/ cut[j + 1] = cut[j] + 1 /\ pat[j] = path[cut[j]]
  <2>1. cut[j] \in Nat /\ cut[j + 1] \in Nat
    <3>1. cut \in [1..(Len(pat) + 1) -> 1..(Len(path) + 1)]
      BY DEF Cuts
    <3>2. j \in 1..(Len(pat) + 1) /\ j + 1 \in 1..(Len(pat) + 1)
      OBVIOUS
    <3>3. cut[j] \in 1..(Len(path) + 1) /\ cut[j + 1] \in 1..(Len(path) + 1)
      BY <3>1, <3>2
    <3> QED BY <3>3
  <2>2. CASE pat[j] = StarStar
    <3>1. PICK n \in Nat : n = Len(pat)
      OBVIOUS
    <3>2. j \in 1..n
      BY <3>1
    <3>3. CASE n = 1 \/ j < n
      BY <2>2, <3>1, <3>3
    <3>4. CASE n > 1 /\ j = n
      BY <1>3, <2>1, <2>2, <3>1, <3>4
    <3> QED BY <3>2, <3>3, <3>4
  <2>3. CASE pat[j] # StarStar
    BY <1>1, <2>1, <2>3
  <2> QED BY <2>2, <2>3
<1> QED BY <1>2 DEF GlobsetMatches

\* What policy or request forbids in the policy's glob language stays forbidden
\* along any chain of delegations, up to the path before a final `**`
\* (intersect_scope, is_scope_subset, validate_path).
THEOREM ForbiddenTheorem == ScopeSpec => []ForbiddenForGood
<1>1. ScopeInv => ForbiddenForGood
  <2> SUFFICES ASSUME ScopeInv, scope # None, NEW r \in Admitted(scope),
                      NEW f \in allow.forbidden \cup requested.forbidden,
                      Matches(r.path, f), ~TailUnused(r.path, f)
               PROVE  FALSE
    BY DEF ForbiddenForGood
  <2>1. f \in scope.forbidden /\ r.path \in Path /\ ~GlobsetMatches(r.path, f)
    BY DEF ScopeInv, Admitted, ValidatePath
  <2>2. r.path \in Seq(STRING) /\ f \in Seq(STRING)
    BY <2>1, PatternAssumption DEF ScopeInv
  <2> QED BY <2>1, <2>2, DialectsAgree
<1> QED BY <1>1, ScopeInvariant, PTL

(***************************************************************************)
(* GateHost: a Gate that no other crossed is the one clients find          *)
(*                                                                         *)
(* While such a Gate runs, no other does, so that what it did to the file  *)
(* and the path is still there; phase by phase the invariant says what.    *)
(***************************************************************************)

Phase == {"new", "create", "write", "seal", "setup", "bind", "serving", "stopping",
          "cleaned", "gone"}

FileState ==
    [inode : GateId \cup {NoGate}, of : GateId \cup {NoGate}, whole : BOOLEAN, sealed : BOOLEAN]

HostType ==
    /\ phase \in [GateId -> Phase]
    /\ file \in FileState
    /\ inode \in [GateId -> GateId \cup {NoGate}]
    /\ link \in GateId \cup {NoGate}
    /\ alone \subseteq GateId

\* How far Gate g has got with file and path.
Prepared(g) ==
    /\ phase[g] = "write" => file.inode = inode[g] /\ file.of = NoGate
    /\ phase[g] \in {"seal", "setup", "bind", "serving"} => file.of = g /\ file.whole
    /\ phase[g] = "serving" => link = g

HostInv ==
    \A g \in alone : Runs(g) => Prepared(g) /\ \A h \in GateId \ {g} : ~Runs(h)

\* Each step of a Gate, finished or cut off, leaves types and shares as they were.
LEMMA HostTypeNext == HostType /\ [HostNext]_hostVars => HostType'
<1> SUFFICES ASSUME HostType, [HostNext]_hostVars PROVE HostType'
  OBVIOUS
<1> USE DEF HostType
<1>a. NoFile \in FileState
  BY DEF NoFile, FileState
<1>1. ASSUME NEW g \in GateId,
             \/ StartGate(g) \/ RemoveSocket(g) \/ BindSocket(g) \/ StartFails(g) \/ StopGate(g)
             \/ RemoveFile(g) \/ DropListener(g) \/ KillGate(g)
      PROVE  HostType'
  BY <1>1, <1>a DEF StartGate, RemoveSocket, BindSocket, StartFails, StopGate, RemoveFile,
                    DropListener, KillGate, Turn, Phase
<1>2. ASSUME NEW g \in GateId, CreateFile(g) PROVE HostType'
  <2>1. file' \in FileState
    BY <1>2 DEF CreateFile, NoFile, FileState
  <2>2. file'.inode \in GateId \cup {NoGate}
    BY <2>1 DEF FileState
  <2> QED BY <1>2, <2>1, <2>2 DEF CreateFile, Turn, Phase
<1>3. ASSUME NEW g \in GateId, WriteFile(g) PROVE HostType'
  <2>1. file' \in FileState
    BY <1>3 DEF WriteFile, FileState
  <2> QED BY <1>3, <2>1 DEF WriteFile, Turn, Phase
<1>4. ASSUME NEW g \in GateId, SealFile(g) PROVE HostType'
  <2>1. file' \in FileState
    BY <1>4 DEF SealFile, FileState
  <2> QED BY <1>4, <2>1 DEF SealFile, Turn, Phase
<1>5. CASE DeleteFile
  BY <1>5, <1>a DEF DeleteFile
<1>6. CASE UNCHANGED hostVars
  BY <1>6 DEF hostVars
<1> QED BY <1>1, <1>2, <1>3, <1>4, <1>5, <1>6 DEF HostNext

\* Every step of a Gate keeps the share of a Gate that runs alone.
LEMMA HostInvNext == HostType /\ HostInv /\ [HostNext]_hostVars => HostInv'
<1> SUFFICES ASSUME HostType, HostInv, [HostNext]_hostVars PROVE HostInv'
  OBVIOUS
\* A step of Gate g concerns a Gate that runs alone only if it is g itself.
<1>a. ASSUME NEW g \in GateId, Runs(g), UNCHANGED alone,
             \A h \in GateId \ {g} : phase'[h] = phase[h],
             g \in alone /\ Runs(g)' => Prepared(g)'
      PROVE  HostInv'
  BY <1>a DEF HostInv, Runs, HostType
<1>1. ASSUME NEW g \in GateId, StartGate(g) PROVE HostInv'
  <2> DEFINE others == {h \in GateId : Runs(h)}
  <2>1. /\ phase[g] = "new" /\ phase' = [phase EXCEPT ![g] = "create"]
        /\ UNCHANGED <<file, inode, link>>
        /\ alone' = IF others = {} THEN alone ELSE alone \ (others \cup {g})
    BY <1>1 DEF StartGate, Turn
  <2>2. \A h \in GateId : Runs(h)' <=> (h = g \/ h \in others)
    BY <2>1 DEF Runs, HostType
  <2>3. Prepared(g)'
    BY <2>1 DEF Prepared, HostType
  <2> QED BY <2>1, <2>2, <2>3 DEF HostInv, HostType
<1>2. ASSUME NEW g \in GateId, CreateFile(g) PROVE HostInv'
  <2>1. /\ phase[g] = "create" /\ phase' = [phase EXCEPT ![g] = "write"]
        /\ inode'[g] = file'.inode /\ UNCHANGED alone
    BY <1>2 DEF CreateFile, Turn, HostType
  <2>2. file'.of = NoGate
    BY <1>2 DEF CreateFile, HostType, NoFile, FileState
  <2>3. Prepared(g)'
    BY <2>1, <2>2 DEF Prepared, HostType
  <2> QED BY <1>a, <2>1, <2>3 DEF Runs, HostType
<1>3. ASSUME NEW g \in GateId, WriteFile(g) PROVE HostInv'
  <2>1. /\ phase[g] = "write" /\ phase' = [phase EXCEPT ![g] = "seal"] /\ UNCHANGED alone
    BY <1>3 DEF WriteFile, Turn
  <2>2. g \in alone => file.inode = inode[g] /\ file.of = NoGate
    BY <2>1 DEF HostInv, Prepared, Runs
  <2>3. g \in alone => file'.of = g /\ file'.whole
    BY <1>3, <2>2 DEF WriteFile, HostType, FileState
  <2>4. g \in alone => Prepared(g)'
    BY <2>1, <2>3 DEF Prepared, HostType
  <2> QED BY <1>a, <2>1, <2>4 DEF Runs, HostType
<1>4. ASSUME NEW g \in GateId, SealFile(g) PROVE HostInv'
  <2>1. /\ phase[g] = "seal" /\ phase' = [phase EXCEPT ![g] = "setup"] /\ UNCHANGED alone
    BY <1>4 DEF SealFile, Turn
  <2>2. file'.of = file.of /\ file'.whole = file.whole
    BY <1>4 DEF SealFile, HostType, FileState
  <2>3. g \in alone => Prepared(g)'
    BY <2>1, <2>2 DEF Prepared, HostInv, Runs, HostType
  <2> QED BY <1>a, <2>1, <2>3 DEF Runs, HostType
<1>5. ASSUME NEW g \in GateId, RemoveSocket(g) \/ BindSocket(g) PROVE HostInv'
  <2>1. /\ \/ phase[g] = "setup" /\ phase' = [phase EXCEPT ![g] = "bind"]
           \/ phase[g] = "bind" /\ phase' = [phase EXCEPT ![g] = "serving"] /\ link' = g
        /\ UNCHANGED <<alone, file>>
    BY <1>5 DEF RemoveSocket, BindSocket, Turn
  <2>2. g \in alone => Prepared(g)'
    BY <2>1 DEF Prepared, HostInv, Runs, HostType
  <2> QED BY <1>a, <2>1, <2>2 DEF Runs, HostType
<1>6. ASSUME NEW g \in GateId,
             StartFails(g) \/ StopGate(g) \/ RemoveFile(g) \/ DropListener(g) \/ KillGate(g)
      PROVE  HostInv'
  <2>1. \E p \in {"stopping", "cleaned", "gone"} : phase' = [phase EXCEPT ![g] = p]
    BY <1>6 DEF StartFails, StopGate, RemoveFile, DropListener, KillGate, Turn
  <2>2. Runs(g) /\ UNCHANGED alone
    BY <1>6 DEF StartFails, StopGate, RemoveFile, DropListener, KillGate, Turn, Runs
  <2>3. Prepared(g)'
    BY <2>1 DEF Prepared, HostType
  <2> QED BY <1>a, <2>1, <2>2, <2>3 DEF HostType
<1>7. CASE DeleteFile
  BY <1>7 DEF DeleteFile, HostInv, Runs
<1>8. CASE UNCHANGED hostVars
  BY <1>8 DEF hostVars, HostInv, Prepared, Runs
<1> QED BY <1>1, <1>2, <1>3, <1>4, <1>5, <1>6, <1>7, <1>8 DEF HostNext

\* A Gate that serves, and that no other Gate crossed, is found by the
\* fingerprint file and by the path, whatever Gates killed at any step of their
\* start or end have left (GateIdentity::create, GateListener::bind).
THEOREM FoundTheorem == HostSpec => []AloneIsFound
<1>1. HostInit => HostType /\ HostInv
  BY DEF HostInit, HostType, HostInv, NoFile, FileState, Phase, Runs
<1>2. HostInv /\ HostType => AloneIsFound
  BY DEF HostInv, HostType, AloneIsFound, Prepared, Runs
<1> QED BY <1>1, <1>2, HostTypeNext, HostInvNext, PTL DEF HostSpec


(***************************************************************************)
(* TokenGuard: spent tokens and retired keys                               *)
(***************************************************************************)

CallerState ==
    [step : {"rest", "list", "fetch"}, token : Token \cup IdToken \cup {NoToken},
     since : Nat, retired : SUBSET Key]

TokenType ==
    /\ clock \in Nat
    /\ issued \subseteq Token
    /\ entries \subseteq Token
    /\ jwks \in Seq(Key)
    /\ retired \subseteq Key
    /\ caller \in [Caller -> CallerState]
    /\ \A c \in Caller : /\ caller[c].step = "list" => caller[c].token \in Token
                         /\ caller[c].step = "fetch" => caller[c].token \in IdToken
    /\ history \in [Token -> Seq([what : {"used", "revoked"}, at : Nat])]

\* A task that is done with its token rests.
LEMMA RestingType == Resting \in CallerState /\ Resting.step = "rest"
BY DEF Resting, CallerState

\* Removing an element leaves the others, each where it was or one further up.
LEMMA RemoveAtElements ==
    ASSUME NEW S, NEW s \in Seq(S), NEW i \in DOMAIN s
    PROVE  /\ RemoveAt(s, i) \in Seq(S)
           /\ Len(RemoveAt(s, i)) = Len(s) - 1
           /\ \A j \in DOMAIN RemoveAt(s, i) :
                 RemoveAt(s, i)[j] = IF j < i THEN s[j] ELSE s[j + 1]
<1> DEFINE a == SubSeq(s, 1, i - 1)
           b == SubSeq(s, i + 1, Len(s))
<1>1. i \in 1..Len(s) /\ Len(s) \in Nat
  OBVIOUS
<1>2. /\ a \in Seq(S) /\ Len(a) = i - 1
      /\ \A j \in 1..(i - 1) : a[j] = s[j]
  BY <1>1
<1>3. /\ b \in Seq(S) /\ Len(b) = Len(s) - i
      /\ \A j \in 1..(Len(s) - i) : b[j] = s[i + j]
  BY <1>1
<1>4. RemoveAt(s, i) = a \o b
  BY DEF RemoveAt
<1> HIDE DEF a, b
<1>5. /\ a \o b \in Seq(S) /\ Len(a \o b) = Len(a) + Len(b)
      /\ \A j \in 1..(Len(a) + Len(b)) :
            (a \o b)[j] = IF j <= Len(a) THEN a[j] ELSE b[j - Len(a)]
  BY <1>2, <1>3, ConcatProperties
<1>0. Len(a) + Len(b) = Len(s) - 1
  BY <1>1, <1>2, <1>3
<1>6. ASSUME NEW j \in 1..(Len(s) - 1)
      PROVE  (a \o b)[j] = IF j < i THEN s[j] ELSE s[j + 1]
  <2>1. CASE j < i
    <3>1. j \in 1..(i - 1)
      BY <1>1, <2>1
    <3>2. j <= Len(a) /\ j \in 1..(Len(a) + Len(b))
      BY <1>0, <1>1, <1>2, <2>1
    <3> QED BY <1>2, <1>5, <2>1, <3>1, <3>2
  <2>2. CASE ~(j < i)
    <3>1. /\ j - Len(a) \in 1..(Len(s) - i) /\ i + (j - Len(a)) = j + 1 /\ ~(j <= Len(a))
          /\ j \in 1..(Len(a) + Len(b))
      BY <1>0, <1>1, <1>2, <2>2
    <3>2. b[j - Len(a)] = s[j + 1]
      BY <1>3, <3>1
    <3> QED BY <1>5, <2>2, <3>1, <3>2
  <2> QED BY <2>1, <2>2
<1>7. RemoveAt(s, i) \in Seq(S) /\ Len(RemoveAt(s, i)) = Len(s) - 1
  BY <1>0, <1>4, <1>5
<1>8. DOMAIN RemoveAt(s, i) = 1..(Len(s) - 1)
  BY <1>7
<1> QED BY <1>4, <1>6, <1>7, <1>8

\* A set of natural numbers that is not empty has a least element.
LEMMA LeastInSet ==
    ASSUME NEW S \in SUBSET Nat, S # {}
    PROVE  \E x \in S : \A y \in S : x <= y
<1>1. PICK x \in S : \A y \in S : ~(<<y, x>> \in OpToRel(<, Nat))
  BY NatLessThanWellFounded, WFMin, Zenon
<1>2. OpToRel(<, Nat) = {ss \in Nat \X Nat : ss[1] < ss[2]}
  BY Zenon DEF OpToRel
<1>3. \A y \in S : ~(<<y, x>> \in {ss \in Nat \X Nat : ss[1] < ss[2]})
  BY <1>1, <1>2, Zenon
<1>4. ASSUME NEW y \in S PROVE x <= y
  <2>1. <<y, x>> \in Nat \X Nat /\ <<y, x>>[1] = y /\ <<y, x>>[2] = x
    OBVIOUS
  <2>2. ~(y < x)
    BY <1>3, <2>1, Zenon
  <2> QED BY <2>2
<1> QED BY <1>4

\* A set of positions has a first one.
LEMMA MinInSet ==
    ASSUME NEW S \in SUBSET Nat, S # {}
    PROVE  Min(S) \in S
BY LeastInSet DEF Min

\* find_jwk returns one of the keys it is given.
LEMMA FindJwkAmong ==
    ASSUME NEW keys \in Seq(Key), keys # <<>>, NEW kid
    PROVE  \E i \in DOMAIN keys : FindJwk(keys, kid) = keys[i]
<1> DEFINE named == {i \in DOMAIN keys : keys[i].kid = kid}
<1>1. named \in SUBSET Nat /\ 1 \in DOMAIN keys
  OBVIOUS
<1>2. named # {} => Min(named) \in named
  BY <1>1, MinInSet
<1> HIDE DEF named
<1>3. named # {} => Min(named) \in DOMAIN keys
  BY <1>2 DEF named
<1> QED BY <1>1, <1>3 DEF FindJwk, named

\* A task turns to another token, or rests.
LEMMA CallerMoved ==
    ASSUME TokenType, NEW c \in Caller, NEW r \in CallerState,
           r.step = "list" => r.token \in Token, r.step = "fetch" => r.token \in IdToken,
           caller' = [caller EXCEPT ![c] = r]
    PROVE  /\ caller' \in [Caller -> CallerState]
           /\ \A x \in Caller : /\ caller'[x].step = "list" => caller'[x].token \in Token
                                /\ caller'[x].step = "fetch" => caller'[x].token \in IdToken
BY DEF TokenType

\* What was noted about a token is noted for good.
LEMMA Noted ==
    ASSUME TokenType, NEW k \in Token, NEW w \in {"used", "revoked"}, Note(k, w)
    PROVE  /\ history' \in [Token -> Seq([what : {"used", "revoked"}, at : Nat])]
           /\ \A x \in Token \ {k} : history'[x] = history[x]
           /\ DOMAIN history'[k] = 1..(Len(history[k]) + 1)
           /\ DOMAIN history[k] = 1..Len(history[k]) /\ Len(history[k]) \in Nat
           /\ \A i \in 1..Len(history[k]) : history'[k][i] = history[k][i]
           /\ history'[k][Len(history[k]) + 1] = [what |-> w, at |-> clock]
<1> DEFINE E == [what : {"used", "revoked"}, at : Nat]
           e == [what |-> w, at |-> clock]
<1>1. history[k] \in Seq(E) /\ e \in E
  BY DEF TokenType
<1>2. history' = [history EXCEPT ![k] = Append(@, e)]
  BY DEF Note
<1>3. /\ history'[k] = Append(history[k], e)
      /\ \A x \in Token \ {k} : history'[x] = history[x]
  BY <1>2 DEF TokenType
<1> HIDE DEF e
<1>4. /\ Append(history[k], e) \in Seq(E)
      /\ Len(Append(history[k], e)) = Len(history[k]) + 1
      /\ \A i \in 1..Len(history[k]) : Append(history[k], e)[i] = history[k][i]
      /\ Append(history[k], e)[Len(history[k]) + 1] = e
  BY <1>1, AppendProperties
<1>5. history' \in [Token -> Seq(E)]
  BY <1>2, <1>4 DEF TokenType
<1> QED BY <1>1, <1>3, <1>4, <1>5 DEF e

\* A task's step for one token or key keeps the types.
LEMMA TokenTypeNext == TokenType /\ [TokenNext]_tokenVars => TokenType'
<1> SUFFICES ASSUME TokenType, [TokenNext]_tokenVars PROVE TokenType'
  OBVIOUS
<1>0. \A c \in Caller : caller[c] \in CallerState
  BY DEF TokenType
<1>1. ASSUME NEW k \in Token, Issue(k) PROVE TokenType'
  BY <1>1 DEF Issue, TokenType
<1>2. ASSUME NEW k \in Token, Revoke(k) PROVE TokenType'
  <2>1. Note(k, "revoked")
    BY <1>2 DEF Revoke
  <2>2. history' \in [Token -> Seq([what : {"used", "revoked"}, at : Nat])]
    BY <2>1, Noted
  <2> QED BY <1>2, <2>2 DEF Revoke, TokenType
<1>3. ASSUME NEW c \in Caller, NEW k \in Token, Verify(c, k) PROVE TokenType'
  <2> DEFINE r == [caller[c] EXCEPT !.step = "list", !.token = k]
  <2>1. caller' = [caller EXCEPT ![c] = r]
    BY <1>3 DEF Verify, TokenType
  <2>2. r \in CallerState /\ r.step = "list" /\ r.token = k
    BY <1>0 DEF CallerState
  <2> HIDE DEF r
  <2> QED BY <1>3, <2>1, <2>2, CallerMoved DEF Verify, TokenType
<1>4. ASSUME NEW c \in Caller, NEW id \in IdToken, Attest(c, id) PROVE TokenType'
  <2> DEFINE r == [step |-> "fetch", token |-> id, since |-> clock, retired |-> retired]
  <2>1. caller' = [caller EXCEPT ![c] = r]
    BY <1>4 DEF Attest
  <2>2. r \in CallerState /\ r.step = "fetch" /\ r.token = id
    BY DEF CallerState, TokenType
  <2> HIDE DEF r
  <2> QED BY <1>4, <2>1, <2>2, CallerMoved DEF Attest, TokenType
<1>5. ASSUME NEW c \in Caller, caller' = [caller EXCEPT ![c] = Resting]
      PROVE  /\ caller' \in [Caller -> CallerState]
             /\ \A x \in Caller : /\ caller'[x].step = "list" => caller'[x].token \in Token
                                  /\ caller'[x].step = "fetch" => caller'[x].token \in IdToken
  BY <1>5, CallerMoved, RestingType
<1>6. ASSUME NEW c \in Caller, Consult(c) PROVE TokenType'
  <2>1. PICK k \in Token : k = caller[c].token
    BY <1>6 DEF Consult, TokenType
  <2>2. caller' = [caller EXCEPT ![c] = Resting] /\ UNCHANGED <<clock, issued, jwks, retired>>
    BY <1>6 DEF Consult
  <2>3. /\ UNCHANGED history \/ Note(k, "used")
        /\ entries' \subseteq Token
    BY <1>6, <2>1 DEF Consult, TokenType
  <2>4. history' \in [Token -> Seq([what : {"used", "revoked"}, at : Nat])]
    BY <2>3, Noted DEF TokenType
  <2> QED BY <1>5, <2>2, <2>3, <2>4 DEF TokenType
<1>7. ASSUME NEW c \in Caller, Fetch(c) \/ FetchFails(c) PROVE TokenType'
  <2>1. /\ caller' = [caller EXCEPT ![c] = Resting]
        /\ UNCHANGED <<clock, issued, entries, jwks, retired, history>>
    BY <1>7 DEF Fetch, FetchFails, Conclude
  <2> QED BY <1>5, <2>1 DEF TokenType
<1>8. ASSUME NEW k \in Key, Retire(k) PROVE TokenType'
  <2>1. PICK i \in DOMAIN jwks : jwks' = RemoveAt(jwks, i)
    BY <1>8 DEF Retire
  <2>2. jwks' \in Seq(Key)
    BY <2>1, RemoveAtElements DEF TokenType
  <2> QED BY <1>8, <2>2 DEF Retire, TokenType
<1>9. CASE Cleanup \/ Elapse \/ UNCHANGED tokenVars
  BY <1>9 DEF Cleanup, Elapse, tokenVars, TokenType
<1> QED BY <1>1, <1>2, <1>3, <1>4, <1>6, <1>7, <1>8, <1>9 DEF TokenNext

\* Before the first token, nothing is listed, noted or retired.
LEMMA TokenTypeInit ==
    TokenInit => /\ TokenType
                 /\ \A i, j \in DOMAIN jwks : i # j => jwks[i] # jwks[j]
<1> SUFFICES ASSUME TokenInit
             PROVE  TokenType /\ \A i, j \in DOMAIN jwks : i # j => jwks[i] # jwks[j]
  OBVIOUS
<1>1. Cardinality(Key) \in Nat
  BY TokenAssumption, FS_CardinalityType
<1>2. /\ jwks \in [1..Cardinality(Key) -> Key]
      /\ \A i, j \in 1..Cardinality(Key) : i # j => jwks[i] # jwks[j]
  BY DEF TokenInit, SetToSeqs
<1>3. jwks \in Seq(Key)
  BY <1>1, <1>2
<1> QED BY <1>2, <1>3, RestingType DEF TokenInit, TokenType

\* The types hold throughout.
LEMMA TokenTypes == TokenSpec => []TokenType
BY TokenTypeInit, TokenTypeNext, PTL DEF TokenSpec

\* A token that must not be used again is listed until it has expired.
SpentInv ==
    /\ \A k \in Token : \A i \in DOMAIN history[k] :
          history[k][i].what = "revoked" \/ k.single_use => k \in entries \/ clock >= k.exp
    /\ SpentTokensRefused

\* Every lock section of the list keeps spent tokens listed.
LEMMA SpentNext == TokenType /\ SpentInv /\ [TokenNext]_tokenVars => SpentInv'
<1> SUFFICES ASSUME TokenType, SpentInv, [TokenNext]_tokenVars PROVE SpentInv'
  OBVIOUS
<1>0. \A k \in Token : k.exp \in Nat
  BY TokenAssumption DEF TokenClaims
<1>a. ASSUME UNCHANGED history, clock' >= clock, clock' \in Nat,
             \A k \in entries : k \in entries' \/ clock' >= k.exp
      PROVE  SpentInv'
  BY <1>0, <1>a DEF SpentInv, SpentTokensRefused, TokenType
<1>1. ASSUME NEW k \in Token, Issue(k) PROVE SpentInv'
  BY <1>1, <1>a DEF Issue, TokenType
<1>2. ASSUME NEW k \in Token, NEW w \in {"used", "revoked"}, Note(k, w), UNCHANGED clock,
             entries \subseteq entries',
             w = "used" => k \notin entries,
             w = "revoked" \/ k.single_use => k \in entries'
      PROVE  SpentInv'
  <2> DEFINE n == Len(history[k]) + 1
  <2>1. /\ DOMAIN history'[k] = 1..n /\ DOMAIN history[k] = 1..Len(history[k])
        /\ Len(history[k]) \in Nat
        /\ \A x \in Token \ {k} : history'[x] = history[x]
        /\ \A i \in 1..Len(history[k]) : history'[k][i] = history[k][i]
        /\ history'[k][n].what = w /\ history'[k][n].at = clock
    BY <1>2, Noted
  <2>2. clock \in Nat
    BY DEF TokenType
  <2>3. ASSUME NEW i \in 1..n, NEW j \in 1..n, i < j,
               history'[k][i].what = "revoked" \/ k.single_use, history'[k][j].what = "used"
        PROVE  history'[k][j].at >= k.exp
    <3>1. i \in 1..Len(history[k])
      BY <2>1, <2>3
    <3>2. CASE j = n
      <4>1. k \notin entries /\ history'[k][j].at = clock
        BY <1>2, <2>1, <2>3, <3>2
      <4>2. clock >= k.exp
        BY <2>1, <2>3, <3>1, <4>1 DEF SpentInv
      <4> QED BY <4>1, <4>2
    <3>3. CASE j # n
      <4>1. j \in 1..Len(history[k])
        BY <2>1, <3>3
      <4> QED BY <2>1, <2>3, <3>1, <4>1 DEF SpentInv, SpentTokensRefused
    <3> QED BY <3>2, <3>3
  <2>4. SpentTokensRefused'
    BY <2>1, <2>3 DEF SpentInv, SpentTokensRefused
  <2>5. ASSUME NEW i \in 1..n, history'[k][i].what = "revoked" \/ k.single_use
        PROVE  k \in entries' \/ clock >= k.exp
    <3>1. CASE i = n
      BY <1>2, <2>1, <2>5, <3>1
    <3>2. CASE i # n
      <4>1. i \in 1..Len(history[k])
        BY <2>1, <3>2
      <4> QED BY <1>2, <2>1, <2>5, <4>1 DEF SpentInv
    <3> QED BY <3>1, <3>2
  <2> QED BY <1>2, <2>1, <2>4, <2>5 DEF SpentInv
<1>3. ASSUME NEW k \in Token, Revoke(k) PROVE SpentInv'
  <2>1. /\ Note(k, "revoked") /\ UNCHANGED clock /\ entries \subseteq entries' /\ k \in entries'
    BY <1>3 DEF Revoke
  <2> QED BY <1>2, <2>1
<1>4. ASSUME NEW c \in Caller, Consult(c) PROVE SpentInv'
  <2>1. PICK k \in Token : k = caller[c].token
    BY <1>4 DEF Consult, TokenType
  <2>2. CASE k \in entries
    BY <1>4, <1>a, <2>1, <2>2 DEF Consult, TokenType
  <2>3. CASE k \notin entries
    <3>1. /\ Note(k, "used") /\ UNCHANGED clock /\ entries \subseteq entries'
          /\ k.single_use => k \in entries'
      BY <1>4, <2>1, <2>3 DEF Consult
    <3> QED BY <1>2, <2>3, <3>1
  <2> QED BY <2>2, <2>3
<1>5. ASSUME NEW c \in Caller,
             \/ \E k \in Token : Verify(c, k)
             \/ \E id \in IdToken : Attest(c, id)
             \/ Fetch(c) \/ FetchFails(c)
      PROVE  SpentInv'
  <2>1. UNCHANGED <<clock, entries, history>>
    BY <1>5 DEF Verify, Attest, Fetch, FetchFails
  <2> QED BY <1>a, <2>1 DEF TokenType
<1>6. ASSUME NEW k \in Key, Retire(k) PROVE SpentInv'
  BY <1>6, <1>a DEF Retire, TokenType
<1>7. CASE Cleanup
  <2>1. UNCHANGED <<clock, history>> /\ \A k \in entries : k \in entries' \/ clock >= k.exp
    BY <1>0, <1>7 DEF Cleanup, TokenType
  <2> QED BY <1>a, <2>1 DEF TokenType
<1>8. CASE Elapse
  BY <1>8, <1>a DEF Elapse, TokenType
<1>9. CASE UNCHANGED tokenVars
  BY <1>9, <1>a DEF tokenVars, TokenType
<1> QED BY <1>1, <1>3, <1>4, <1>5, <1>6, <1>7, <1>8, <1>9 DEF TokenNext

\* However callers, revocations and pruning interleave, a token is accepted after
\* it was revoked, or a single-use one twice, only when it has expired
\* (check_and_mark_used, is_revoked, cleanup).
THEOREM SpentTheorem == TokenSpec => []SpentTokensRefused
<1>1. TokenInit => SpentInv
  BY DEF TokenInit, SpentInv, SpentTokensRefused
<1>2. SpentInv => SpentTokensRefused
  BY DEF SpentInv
<1> QED BY <1>1, <1>2, TokenTypes, SpentNext, PTL DEF TokenSpec

\* While the keys are fetched: the claims held when that began, its time is not
\* over, and none of the keys published has been withdrawn.
FetchInv ==
    /\ \A i, j \in DOMAIN jwks : i # j => jwks[i] # jwks[j]
    /\ \A i \in DOMAIN jwks : jwks[i] \notin retired
    /\ \A c \in Caller : caller[c].step = "fetch" =>
          /\ caller[c].retired \subseteq retired
          /\ caller[c].since < caller[c].token.exp
          /\ clock <= caller[c].since + FetchLimit
    /\ AttestationCurrent

\* Every step of a verification, and every key that is withdrawn, keeps this.
LEMMA FetchNext == TokenType /\ FetchInv /\ [TokenNext]_tokenVars => FetchInv'
<1> SUFFICES ASSUME TokenType, FetchInv, [TokenNext]_tokenVars PROVE FetchInv'
  OBVIOUS
<1>0. /\ \A c \in Caller : caller[c] \in CallerState /\ caller[c].since \in Nat
      /\ \A c \in Caller : caller[c].step = "fetch" => caller[c].token.exp \in Nat
      /\ clock \in Nat /\ FetchLimit \in Nat
  BY TokenAssumption DEF TokenType, CallerState
\* A task that is not fetching, or was before, turns to something else.
<1>a. ASSUME UNCHANGED <<clock, jwks, retired, attested>>, NEW c \in Caller,
             \A x \in Caller \ {c} : caller'[x] = caller[x], caller'[c].step # "fetch"
      PROVE  FetchInv'
  BY <1>a DEF FetchInv, AttestationCurrent
<1>b. ASSUME UNCHANGED <<clock, jwks, retired, attested, caller>> PROVE FetchInv'
  BY <1>b DEF FetchInv, AttestationCurrent
<1>1. ASSUME NEW k \in Token, Issue(k) \/ Revoke(k) PROVE FetchInv'
  BY <1>1, <1>b DEF Issue, Revoke
<1>2. ASSUME NEW c \in Caller, NEW k \in Token, Verify(c, k) PROVE FetchInv'
  <2>1. /\ UNCHANGED <<clock, jwks, retired, attested>> /\ caller'[c].step = "list"
        /\ \A x \in Caller \ {c} : caller'[x] = caller[x]
    BY <1>0, <1>2 DEF Verify, TokenType, CallerState
  <2> QED BY <1>a, <2>1
<1>3. ASSUME NEW c \in Caller, Consult(c) \/ FetchFails(c) PROVE FetchInv'
  <2>1. /\ UNCHANGED <<clock, jwks, retired, attested>> /\ caller'[c] = Resting
        /\ \A x \in Caller \ {c} : caller'[x] = caller[x]
    BY <1>3 DEF Consult, FetchFails, TokenType
  <2> QED BY <1>a, <2>1, RestingType
<1>4. ASSUME NEW c \in Caller, NEW id \in IdToken, Attest(c, id) PROVE FetchInv'
  <2>1. /\ UNCHANGED <<clock, jwks, retired, attested>>
        /\ caller'[c].retired = retired /\ caller'[c].since = clock /\ caller'[c].token = id
        /\ \A x \in Caller \ {c} : caller'[x] = caller[x]
    BY <1>4 DEF Attest, TokenType
  <2>2. clock < id.exp /\ clock <= clock + FetchLimit
    BY <1>0, <1>4, TokenAssumption DEF Attest, ClaimsAccepted
  <2> QED BY <2>1, <2>2 DEF FetchInv, AttestationCurrent
<1>5. ASSUME NEW c \in Caller, Fetch(c) PROVE FetchInv'
  <2> DEFINE id == caller[c].token
             a == [id |-> id, at |-> clock, retired |-> caller[c].retired]
  <2>1. /\ UNCHANGED <<clock, jwks, retired>> /\ caller'[c] = Resting
        /\ \A x \in Caller \ {c} : caller'[x] = caller[x]
        /\ caller[c].step = "fetch"
    BY <1>5 DEF Fetch, Conclude, TokenType
  <2>2. CASE UNCHANGED attested
    BY <1>a, <2>1, <2>2, RestingType
  <2>3. CASE attested' # attested
    <3>1. attested' = a /\ jwks # <<>> /\ FindJwk(jwks, id.kid) = id.key
      BY <1>5, <2>3 DEF Fetch, Conclude
    <3>2. PICK i \in DOMAIN jwks : jwks[i] = id.key
      BY <3>1, FindJwkAmong DEF TokenType
    <3>3. attested'.id = id /\ attested'.at = clock /\ attested'.retired = caller[c].retired
      BY <3>1
    <3> HIDE DEF id, a
    <3>4. /\ id.key \notin caller[c].retired
          /\ clock < id.exp + FetchLimit
      BY <1>0, <2>1, <3>2 DEF FetchInv, id
    <3>5. AttestationCurrent'
      BY <3>3, <3>4 DEF AttestationCurrent
    <3> QED BY <2>1, <3>5, RestingType DEF FetchInv
  <2> QED BY <2>2, <2>3
<1>6. ASSUME NEW k \in Key, Retire(k) PROVE FetchInv'
  <2>1. PICK i \in DOMAIN jwks : jwks[i] = k /\ jwks' = RemoveAt(jwks, i)
    BY <1>6 DEF Retire
  <2>2. /\ jwks \in Seq(Key) /\ DOMAIN jwks = 1..Len(jwks) /\ Len(jwks) \in Nat
        /\ jwks' \in Seq(Key) /\ Len(jwks') = Len(jwks) - 1
        /\ \A j \in DOMAIN jwks' : jwks'[j] = IF j < i THEN jwks[j] ELSE jwks[j + 1]
    BY <2>1, RemoveAtElements DEF TokenType
  <2>3. DOMAIN jwks' = 1..(Len(jwks) - 1)
    BY <2>2
  <2>4. /\ \A x, y \in DOMAIN jwks' : x # y => jwks'[x] # jwks'[y]
        /\ \A x \in DOMAIN jwks' : jwks'[x] # k /\ jwks'[x] \notin retired
    BY <2>1, <2>2, <2>3 DEF FetchInv
  <2>5. retired' = retired \cup {k} /\ UNCHANGED <<clock, caller, attested>>
    BY <1>6 DEF Retire
  <2> QED BY <2>4, <2>5 DEF FetchInv, AttestationCurrent
<1>7. CASE Cleanup
  BY <1>7, <1>b DEF Cleanup
<1>8. CASE Elapse
  <2>1. /\ clock' = clock + 1 /\ UNCHANGED <<jwks, retired, caller, attested>>
        /\ \A c \in Caller : caller[c].step = "fetch" => clock < caller[c].since + FetchLimit
    BY <1>8 DEF Elapse
  <2>2. \A c \in Caller : caller[c].step = "fetch" => clock + 1 <= caller[c].since + FetchLimit
    BY <1>0, <2>1
  <2> QED BY <2>1, <2>2 DEF FetchInv, AttestationCurrent
<1>9. CASE UNCHANGED tokenVars
  BY <1>9, <1>b DEF tokenVars
<1> QED BY <1>1, <1>2, <1>3, <1>4, <1>5, <1>6, <1>7, <1>8, <1>9 DEF TokenNext

\* An ID token is accepted only with a key that had not been withdrawn when its
\* verification began, and at most the time limit of the JWKS request after it
\* expired, whatever keys are withdrawn meanwhile (verify_oidc_attestation,
\* find_jwk).
THEOREM AttestationTheorem == TokenSpec => []AttestationCurrent
<1>1. TokenInit => FetchInv
  BY TokenTypeInit, RestingType DEF TokenInit, FetchInv, AttestationCurrent
<1>2. FetchInv => AttestationCurrent
  BY DEF FetchInv
<1> QED BY <1>1, <1>2, TokenTypes, FetchNext, PTL DEF TokenSpec

(***************************************************************************)
(* ReplayGuard: how a message may come back                                *)
(*                                                                         *)
(* The cache holds the nonces accepted last, as many as it has room for,   *)
(* so that no two of as many in a row are equal.                           *)
(***************************************************************************)

AcceptedRequest == [nonce : Nonce, stamp : Nat, at : Nat]

ReplayType ==
    /\ now \in Nat
    /\ pending \in [Conn -> AcceptedRequest \cup {NoRequest}]
    /\ cache \in Seq(Nonce)
    /\ accepted \in Seq(AcceptedRequest)

\* Checked less than the window and a second away from its timestamp.
Timely(r) ==
    /\ r.at - r.stamp < (Window + 1) * Tick
    /\ r.stamp - r.at < (Window + 1) * Tick

TimelyInv ==
    /\ \A c \in Conn : pending[c] # NoRequest => Timely(pending[c])
    /\ \A i \in 1..Len(accepted) : Timely(accepted[i])

CacheInv ==
    /\ Len(cache) <= Capacity /\ Len(cache) <= Len(accepted)
    /\ Len(cache) < Capacity => Len(cache) = Len(accepted)
    /\ \A i \in 1..Len(cache) : cache[i] = accepted[Len(accepted) - Len(cache) + i].nonce
    /\ \A i, j \in 1..Len(accepted) :
          i < j /\ j - i <= Capacity => accepted[i].nonce # accepted[j].nonce

\* The whole seconds of a duration bound it, up to one second more.
LEMMA SecondsBound ==
    ASSUME NEW d \in Nat, NEW t \in Nat \ {0}, NEW w \in Nat, d \div t <= w
    PROVE  d < (w + 1) * t
OBVIOUS

\* A timestamp that passes the check lies within window and second.
LEMMA FreshTimely ==
    ASSUME now \in Nat, NEW s \in Nat, Fresh(s)
    PROVE  now - s < (Window + 1) * Tick /\ s - now < (Window + 1) * Tick
<1> DEFINE d == now - s
           b == (Window + 1) * Tick
<1>0. Tick \in Nat \ {0} /\ Window \in Nat
  BY ReplayAssumption
<1>1. d \in Int /\ s - now = 0 - d /\ b \in Nat /\ b > 0
  BY <1>0
<1>2. Abs(NumSeconds(d)) <= Window
  BY DEF Fresh
<1>3. CASE d < 0
  <2> DEFINE e == 0 - d
  <2>1. e \in Nat
    BY <1>1, <1>3
  <2> HIDE DEF e
  <2>2. e \div Tick \in Nat
    BY <1>0, <2>1
  <2>3. NumSeconds(d) = 0 - (e \div Tick)
    BY <1>3 DEF NumSeconds, e
  <2>4. e \div Tick <= Window
    BY <1>0, <1>2, <2>2, <2>3 DEF Abs
  <2>5. e < b
    BY <1>0, <2>1, <2>4, SecondsBound
  <2> HIDE DEF d, b
  <2> QED BY <1>1, <1>3, <2>5 DEF e, d, b
<1>4. CASE d >= 0
  <2>1. d \in Nat
    BY <1>1, <1>4
  <2> HIDE DEF d
  <2>2. d \div Tick \in Nat /\ NumSeconds(d) = d \div Tick
    BY <1>0, <1>4, <2>1 DEF NumSeconds
  <2>3. d \div Tick <= Window
    BY <1>0, <1>2, <2>2 DEF Abs
  <2>4. d < b
    BY <1>0, <2>1, <2>3, SecondsBound
  <2> HIDE DEF b
  <2> QED BY <1>1, <1>4, <2>4 DEF d, b
<1> QED BY <1>1, <1>3, <1>4

\* What an accepted request does to the cache and the list.
LEMMA Accepting ==
    ASSUME ReplayType, CacheInv, NEW c \in Conn, Accept(c)
    PROVE  /\ pending[c] \in AcceptedRequest /\ pending[c].nonce \in Nonce
           /\ accepted' \in Seq(AcceptedRequest)
           /\ Len(accepted') = Len(accepted) + 1 /\ Len(accepted) \in Nat
           /\ \A i \in 1..Len(accepted) : accepted'[i] = accepted[i]
           /\ accepted'[Len(accepted) + 1] = pending[c]
           /\ \A i \in 1..Len(cache) : cache[i] # pending[c].nonce
<1>1. pending[c] \in AcceptedRequest /\ pending[c].nonce \in Nonce
  BY DEF Accept, ReplayType, AcceptedRequest
<1>2. accepted \in Seq(AcceptedRequest) /\ accepted' = Append(accepted, pending[c])
  BY DEF Accept, ReplayType
<1>3. \A i \in 1..Len(cache) : cache[i] # pending[c].nonce
  <2>1. DOMAIN cache = 1..Len(cache)
    BY DEF ReplayType
  <2> QED BY <2>1 DEF Accept, Range
<1> QED BY <1>1, <1>2, <1>3, AppendProperties

\* Lookup and insertion in one lock section keep the cache as it should be.
LEMMA CacheNext == ReplayType /\ CacheInv /\ [ReplayNext]_replayVars => ReplayType' /\ CacheInv'
<1> SUFFICES ASSUME ReplayType, CacheInv, [ReplayNext]_replayVars
             PROVE  ReplayType' /\ CacheInv'
  OBVIOUS
<1>1. ASSUME NEW c \in Conn, NEW n \in Nonce, NEW s \in Stamp, CheckTimestamp(c, n, s)
      PROVE  ReplayType' /\ CacheInv'
  <2>1. [nonce |-> n, stamp |-> s, at |-> now] \in AcceptedRequest
    BY ReplayAssumption DEF ReplayType, AcceptedRequest
  <2> QED BY <1>1, <2>1 DEF CheckTimestamp, ReplayType, CacheInv
<1>2. ASSUME NEW c \in Conn, Reject(c) PROVE ReplayType' /\ CacheInv'
  BY <1>2 DEF Reject, ReplayType, CacheInv
<1>3. CASE Advance
  <2>1. ReplayType'
    BY <1>3 DEF Advance, ReplayType
  <2>2. UNCHANGED <<cache, accepted>>
    BY <1>3 DEF Advance
  <2>3. CacheInv'
    BY <2>2 DEF CacheInv
  <2> QED BY <2>1, <2>3
<1>4. CASE UNCHANGED replayVars
  BY <1>4 DEF replayVars, ReplayType, CacheInv
<1>5. ASSUME NEW c \in Conn, Accept(c) PROVE ReplayType' /\ CacheInv'
  <2> DEFINE x == pending[c].nonce
             n == Len(accepted)
             m == Len(cache)
             kept == IF m = Capacity THEN Tail(cache) ELSE cache
  <2>1. /\ x \in Nonce /\ accepted' \in Seq(AcceptedRequest) /\ Len(accepted') = n + 1 /\ n \in Nat
        /\ \A i \in 1..n : accepted'[i] = accepted[i]
        /\ accepted'[n + 1].nonce = x
        /\ \A i \in 1..m : cache[i] # x
    BY <1>5, Accepting
  <2>2. cache \in Seq(Nonce) /\ m \in Nat /\ Capacity \in Nat /\ Capacity > 0
    BY ReplayAssumption DEF ReplayType
  <2>3. /\ m <= Capacity /\ m <= n /\ (m < Capacity => m = n)
        /\ \A i \in 1..m : cache[i] = accepted[n - m + i].nonce
        /\ \A i, j \in 1..n : i < j /\ j - i <= Capacity => accepted[i].nonce # accepted[j].nonce
    BY DEF CacheInv
  <2>4. cache' = Append(kept, x) /\ now' = now /\ pending' = [pending EXCEPT ![c] = NoRequest]
    BY <1>5 DEF Accept, Put
  <2> HIDE DEF x, n, m
  <2>5. /\ kept \in Seq(Nonce)
        /\ m = Capacity => Len(kept) = m - 1 /\ \A i \in 1..(m - 1) : kept[i] = cache[i + 1]
        /\ m # Capacity => kept = cache
    BY <2>2, HeadTailProperties DEF m
  <2> HIDE DEF kept
  <2>6. /\ cache' \in Seq(Nonce) /\ Len(cache') = Len(kept) + 1
        /\ \A i \in 1..Len(kept) : cache'[i] = kept[i]
        /\ cache'[Len(kept) + 1] = x
    BY <2>1, <2>4, <2>5, AppendProperties
  <2>7. ReplayType'
    BY <2>1, <2>4, <2>6 DEF ReplayType
  <2>8. ASSUME NEW i \in 1..(n + 1), NEW j \in 1..(n + 1), i < j, j - i <= Capacity
        PROVE  accepted'[i].nonce # accepted'[j].nonce
    <3>1. CASE j = n + 1
      <4>1. i \in 1..n /\ i - (n - m) \in 1..m /\ n - m + (i - (n - m)) = i
        BY <2>1, <2>2, <2>3, <2>8, <3>1
      <4>2. accepted[i].nonce # x
        BY <2>1, <2>3, <4>1
      <4> QED BY <2>1, <3>1, <4>1, <4>2
    <3>2. CASE j # n + 1
      <4>1. i \in 1..n /\ j \in 1..n
        BY <2>1, <2>8, <3>2
      <4> QED BY <2>1, <2>3, <2>8, <4>1
    <3> QED BY <3>1, <3>2
  <2>9. CASE m = Capacity
    <3>1. Len(cache') = m /\ Len(kept) = m - 1
      BY <2>2, <2>5, <2>6, <2>9
    <3>2. ASSUME NEW i \in 1..m PROVE cache'[i] = accepted'[(n + 1) - m + i].nonce
      <4>1. CASE i = m
        BY <2>1, <2>2, <2>6, <3>1, <4>1
      <4>2. CASE i # m
        <5>0. n \in Nat /\ m \in Nat /\ m <= n /\ i \in 1..m
          BY <2>1, <2>2, <2>3
        <5>1. /\ i \in 1..(m - 1) /\ i + 1 \in 1..m
              /\ n - m + (i + 1) = (n + 1) - m + i /\ (n + 1) - m + i \in 1..n
          BY <4>2, <5>0
        <5>2. cache'[i] = cache[i + 1]
          BY <2>5, <2>6, <2>9, <3>1, <5>1
        <5> QED BY <2>1, <2>3, <5>1, <5>2
      <4> QED BY <4>1, <4>2
    <3>3. Len(cache') <= Capacity /\ Len(cache') <= Len(accepted')
      BY <2>1, <2>2, <2>3, <3>1
    <3> QED BY <2>1, <2>2, <2>7, <2>8, <2>9, <3>1, <3>2, <3>3 DEF CacheInv
  <2>10. CASE m # Capacity
    <3>1. m = n /\ Len(cache') = n + 1 /\ Len(kept) = n /\ kept = cache
      BY <2>2, <2>3, <2>5, <2>6, <2>10 DEF m
    <3>2. ASSUME NEW i \in 1..(n + 1) PROVE cache'[i] = accepted'[i].nonce
      <4>1. CASE i = n + 1
        BY <2>1, <2>6, <3>1, <4>1
      <4>2. CASE i # n + 1
        <5>1. i \in 1..n /\ n - m + i = i
          BY <2>1, <3>1, <4>2
        <5> QED BY <2>1, <2>3, <2>6, <3>1, <5>1
      <4> QED BY <4>1, <4>2
    <3>3. /\ Len(cache') <= Capacity /\ Len(cache') = Len(accepted')
          /\ \A i \in 1..(n + 1) : Len(accepted') - Len(cache') + i = i
      BY <2>1, <2>2, <2>3, <2>10, <3>1
    <3> QED BY <2>1, <2>7, <2>8, <3>1, <3>2, <3>3 DEF CacheInv
  <2> QED BY <2>9, <2>10
<1> QED BY <1>1, <1>2, <1>3, <1>4, <1>5 DEF ReplayNext

\* Requests that wait, and those accepted, passed the check of the timestamp.
LEMMA TimelyNext ==
    ReplayType /\ CacheInv /\ TimelyInv /\ [ReplayNext]_replayVars => TimelyInv'
<1> SUFFICES ASSUME ReplayType, CacheInv, TimelyInv, [ReplayNext]_replayVars PROVE TimelyInv'
  OBVIOUS
<1>1. ASSUME NEW c \in Conn, NEW n \in Nonce, NEW s \in Stamp, CheckTimestamp(c, n, s)
      PROVE  TimelyInv'
  <2> DEFINE r == [nonce |-> n, stamp |-> s, at |-> now]
  <2>1. now - s < (Window + 1) * Tick /\ s - now < (Window + 1) * Tick
    BY <1>1, FreshTimely, ReplayAssumption DEF CheckTimestamp, ReplayType
  <2>2. Timely(r)
    BY <2>1 DEF Timely
  <2>3. pending' = [pending EXCEPT ![c] = r] /\ UNCHANGED accepted
    BY <1>1 DEF CheckTimestamp
  <2> HIDE DEF r
  <2> QED BY <2>2, <2>3 DEF TimelyInv, ReplayType
<1>2. ASSUME NEW c \in Conn, Reject(c) PROVE TimelyInv'
  BY <1>2 DEF Reject, TimelyInv, ReplayType
<1>3. CASE Advance \/ UNCHANGED replayVars
  BY <1>3 DEF Advance, replayVars, TimelyInv
<1>4. ASSUME NEW c \in Conn, Accept(c) PROVE TimelyInv'
  <2>1. /\ Len(accepted') = Len(accepted) + 1 /\ Len(accepted) \in Nat
        /\ \A i \in 1..Len(accepted) : accepted'[i] = accepted[i]
        /\ accepted'[Len(accepted) + 1] = pending[c]
    BY <1>4, Accepting
  <2>2. Timely(pending[c]) /\ pending' = [pending EXCEPT ![c] = NoRequest]
    BY <1>4 DEF Accept, TimelyInv
  <2>3. \A i \in 1..Len(accepted') : i \in 1..Len(accepted) \/ i = Len(accepted) + 1
    BY <2>1
  <2>4. \A i \in 1..Len(accepted') : Timely(accepted'[i])
    BY <2>1, <2>2, <2>3 DEF TimelyInv
  <2> QED BY <2>2, <2>4 DEF TimelyInv, ReplayType
<1> QED BY <1>1, <1>2, <1>3, <1>4 DEF ReplayNext

\* As many requests in a row as the cache holds have as many nonces.
LEMMA NoncesInARow ==
    ASSUME ReplayType, CacheInv, NEW i \in 1..Len(accepted), NEW j \in 1..Len(accepted),
           i < j, accepted[i].nonce = accepted[j].nonce
    PROVE  Cardinality({accepted[k].nonce : k \in (i + 1)..(j - 1)}) >= Capacity
<1> DEFINE T == {accepted[k].nonce : k \in (i + 1)..(j - 1)}
           f == [k \in (i + 1)..(j - 1) |-> accepted[k].nonce]
           R == (i + 1)..(i + Capacity)
           g == [k \in R |-> accepted[k].nonce]
<1>0. Capacity \in Nat /\ Len(accepted) \in Nat /\ i \in Nat /\ j \in Nat
  BY ReplayAssumption DEF ReplayType
<1>1. ~(j - i <= Capacity)
  BY DEF CacheInv
<1>2. R \subseteq (i + 1)..(j - 1) /\ (i + 1)..(j - 1) \subseteq 1..Len(accepted)
  BY <1>0, <1>1
<1>a. i + 1 \in Int /\ j - 1 \in Int /\ i + Capacity \in Int
  BY <1>0
<1>b. IsFiniteSet((i + 1)..(j - 1)) /\ IsFiniteSet(R)
  BY <1>a, FS_Interval
<1>c. Cardinality(R) = IF i + 1 > i + Capacity THEN 0 ELSE (i + Capacity) - (i + 1) + 1
  BY <1>a, FS_Interval
<1>d. (IF i + 1 > i + Capacity THEN 0 ELSE (i + Capacity) - (i + 1) + 1) = Capacity
  BY <1>0
<1>3. IsFiniteSet((i + 1)..(j - 1)) /\ IsFiniteSet(R) /\ Cardinality(R) = Capacity
  BY <1>b, <1>c, <1>d
<1>4. f \in Surjection((i + 1)..(j - 1), T)
  BY DEF Surjection
<1>5. IsFiniteSet(T)
  BY <1>3, <1>4, FS_Surjection
<1>6. ASSUME NEW k \in R, NEW l \in R, k # l PROVE accepted[k].nonce # accepted[l].nonce
  <2>1. /\ k \in 1..Len(accepted) /\ l \in 1..Len(accepted)
        /\ (k < l /\ l - k <= Capacity) \/ (l < k /\ k - l <= Capacity)
    BY <1>0, <1>2, <1>6
  <2> QED BY <2>1 DEF CacheInv
<1>7. g \in Injection(R, T)
  BY <1>2, <1>6 DEF Injection, IsInjective
<1>8. Cardinality(R) <= Cardinality(T) /\ Cardinality(T) \in Nat
  <2> HIDE DEF R, T, g
  <2> QED BY <1>5, <1>7, FS_Injection, FS_CardinalityType
<1> QED BY <1>3, <1>8

\* A nonce is accepted twice only after the cache was filled by others in between,
\* and one message only within twice the window and two seconds, however the
\* requests of the connections interleave (validate_replay).
THEOREM ReplayTheorem == ReplaySpec => []ReplayBounded
<1>1. ReplayInit => ReplayType /\ CacheInv /\ TimelyInv
  BY ReplayAssumption DEF ReplayInit, ReplayType, CacheInv, TimelyInv
<1>2. ReplayType /\ CacheInv /\ TimelyInv => ReplayBounded
  <2> SUFFICES ASSUME ReplayType, CacheInv, TimelyInv,
                      NEW i \in 1..Len(accepted), NEW j \in 1..Len(accepted),
                      i < j, accepted[i].nonce = accepted[j].nonce
               PROVE  /\ Cardinality({accepted[k].nonce : k \in (i + 1)..(j - 1)}) >= Capacity
                      /\ accepted[i].stamp = accepted[j].stamp =>
                            Abs(accepted[i].at - accepted[j].at) < 2 * (Window + 1) * Tick
    BY DEF ReplayBounded
  <2>1. accepted[i] \in AcceptedRequest /\ accepted[j] \in AcceptedRequest
    BY DEF ReplayType
  <2>2. /\ accepted[i].at \in Nat /\ accepted[i].stamp \in Nat
        /\ accepted[j].at \in Nat /\ accepted[j].stamp \in Nat
    BY <2>1 DEF AcceptedRequest
  <2> DEFINE b == (Window + 1) * Tick
  <2>3. b \in Nat /\ 2 * (Window + 1) * Tick = b + b
    BY ReplayAssumption
  <2>4. /\ accepted[i].at - accepted[i].stamp < b /\ accepted[i].stamp - accepted[i].at < b
        /\ accepted[j].at - accepted[j].stamp < b /\ accepted[j].stamp - accepted[j].at < b
    BY DEF TimelyInv, Timely
  <2> HIDE DEF b
  <2>5. accepted[i].stamp = accepted[j].stamp => Abs(accepted[i].at - accepted[j].at) < b + b
    BY <2>2, <2>3, <2>4, SMTT(30) DEF Abs
  <2> QED BY <2>3, <2>5, NoncesInARow
<1> QED BY <1>1, <1>2, CacheNext, TimelyNext, PTL DEF ReplaySpec

(***************************************************************************)
(* ClientSession: calls and their answers                                  *)
(*                                                                         *)
(* A line under way answers the call with its number, and where answers go *)
(* by their order there is one call and, unless one was abandoned, one     *)
(* line.  An answer with a lease names the reference it was granted for.   *)
(***************************************************************************)

Asked == CredRef \cup {"register", "renew"}

Call == [id : Nat, what : Asked]

Answer == [id : Nat, what : Asked, ok : BOOLEAN, lease : Nat]

Grant == [ref : CredRef, gate : GateId \cup {NoGate}, live : BOOLEAN]

ClientState ==
    [kind : Kind, step : {"idle", "verify", "connect", "connected", "session", "ended"},
     named : GateId \cup {NoGate}, gate : GateId \cup {NoGate}, torn : BOOLEAN]

HeldState ==
    [asked : CredRef \cup {NoGate}, lease : Nat, over : BOOLEAN, late : BOOLEAN]

SessionType ==
    /\ client \in ClientState
    /\ calls \in Seq(Call)
    /\ wire \in [requests : Seq(Call), answers : Seq(Answer)]
    /\ sent \in Nat
    /\ grants \in Seq(Grant)
    /\ held \in HeldState
    /\ dropped \in BOOLEAN

Numbered ==
    /\ \A i \in DOMAIN calls : calls[i].id <= sent
    /\ \A i, j \in DOMAIN calls : i # j => calls[i].id # calls[j].id
    /\ \A i \in DOMAIN wire.requests : wire.requests[i].id <= sent
    /\ \A i \in DOMAIN wire.answers : wire.answers[i].id <= sent

Matched ==
    \A i \in DOMAIN calls :
        /\ \A r \in DOMAIN wire.requests :
              wire.requests[r].id = calls[i].id => wire.requests[r].what = calls[i].what
        /\ \A r \in DOMAIN wire.answers :
              wire.answers[r].id = calls[i].id => wire.answers[r].what = calls[i].what

Honest ==
    /\ \A r \in DOMAIN wire.answers : wire.answers[r].lease # 0 =>
          /\ wire.answers[r].lease \in DOMAIN grants
          /\ grants[wire.answers[r].lease].ref = wire.answers[r].what
    /\ held # NoHold /\ ~held.late =>
          held.lease \in DOMAIN grants /\ grants[held.lease].ref = held.asked

\* The lines under way are those of the open call, one for one.
Aligned(open, requests, answers) ==
    /\ Len(requests) + Len(answers) = Len(open)
    /\ \A r \in DOMAIN requests : requests[r].id = open[1].id
    /\ \A r \in DOMAIN answers : answers[r].id = open[1].id

InOrder ==
    client.kind # "typescript" =>
        /\ Len(calls) <= 1
        /\ ~dropped => Aligned(calls, wire.requests, wire.answers)

\* A line is under way.
Coming(requests, answers) == Len(requests) + Len(answers) >= 1

Awaited ==
    calls # <<>> =>
        /\ Joined
        /\ IF client.kind = "typescript"
           THEN \A i \in DOMAIN calls :
                   \/ \E r \in DOMAIN wire.requests : wire.requests[r].id = calls[i].id
                   \/ \E r \in DOMAIN wire.answers : wire.answers[r].id = calls[i].id
           ELSE Coming(wire.requests, wire.answers)

SessionInv == SessionType /\ Numbered /\ Matched /\ Honest /\ InOrder /\ Awaited

\* t is s with e at its end.
Longer(s, e, t) ==
    /\ Len(s) \in Nat /\ Len(t) = Len(s) + 1
    /\ DOMAIN s = 1..Len(s) /\ DOMAIN t = 1..(Len(s) + 1)
    /\ \A i \in 1..Len(s) : t[i] = s[i]
    /\ t[Len(s) + 1] = e

\* t is s without its head.
Shorter(s, t) ==
    /\ Len(s) \in Nat /\ Len(s) >= 1 /\ Len(t) = Len(s) - 1
    /\ DOMAIN s = 1..Len(s) /\ DOMAIN t = 1..(Len(s) - 1)
    /\ \A i \in DOMAIN t : t[i] = s[i + 1]

\* What Append does.
LEMMA AppendLonger ==
    ASSUME NEW S, NEW s \in Seq(S), NEW e \in S
    PROVE  Append(s, e) \in Seq(S) /\ Longer(s, e, Append(s, e))
<1>1. /\ Append(s, e) \in Seq(S) /\ Len(Append(s, e)) = Len(s) + 1
      /\ \A i \in 1..Len(s) : Append(s, e)[i] = s[i]
      /\ Append(s, e)[Len(s) + 1] = e
  BY AppendProperties
<1>2. Len(s) \in Nat /\ DOMAIN s = 1..Len(s) /\ DOMAIN Append(s, e) = 1..(Len(s) + 1)
  BY <1>1
<1> QED BY <1>1, <1>2 DEF Longer

\* What Tail does.
LEMMA TailShorter ==
    ASSUME NEW S, NEW s \in Seq(S), s # <<>>
    PROVE  Tail(s) \in Seq(S) /\ Shorter(s, Tail(s)) /\ Head(s) = s[1] /\ Head(s) \in S
<1>1. /\ Tail(s) \in Seq(S) /\ Len(Tail(s)) = Len(s) - 1
      /\ \A i \in 1..Len(Tail(s)) : Tail(s)[i] = s[i + 1]
      /\ Head(s) = s[1] /\ Head(s) \in S
  BY HeadTailProperties
<1>2. Len(s) \in Nat /\ Len(s) >= 1 /\ DOMAIN s = 1..Len(s)
  OBVIOUS
<1>3. DOMAIN Tail(s) = 1..(Len(s) - 1) /\ 1..Len(Tail(s)) = 1..(Len(s) - 1)
  BY <1>1
<1> QED BY <1>1, <1>2, <1>3 DEF Shorter

(***************************************************************************)
(* What the steps do, as far as calls and lines go                         *)
(***************************************************************************)

\* The client moves on while it has no connection.
MoveStep ==
    /\ ~Joined
    /\ client' \in ClientState /\ client'.kind = client.kind
    /\ UNCHANGED <<calls, wire, sent, grants, held, dropped>>

\* A call is made.
CallStep(what) ==
    LET call == [id |-> sent + 1, what |-> what] IN
    /\ Joined
    /\ client.kind # "typescript" => Len(calls) < 1
    /\ sent' = sent + 1
    /\ calls' = Append(calls, call)
    /\ wire'.requests = Append(wire.requests, call) /\ wire'.answers = wire.answers
    /\ wire' \in [requests : Seq(Call), answers : Seq(Answer)]
    /\ UNCHANGED <<client, grants, held, dropped>>

\* The connection is given up.
CloseStep ==
    /\ client' \in ClientState /\ client'.kind = client.kind
    /\ calls' = <<>> /\ wire' = Quiet /\ dropped' = FALSE
    /\ UNCHANGED <<sent, grants, held>>

\* A call is abandoned, the connection kept.
AbandonStep ==
    /\ client.kind # "typescript" /\ calls # <<>>
    /\ client' \in ClientState /\ client'.kind = client.kind /\ client'.step = client.step
    /\ calls' = <<>> /\ dropped' = TRUE
    /\ UNCHANGED <<wire, sent, grants, held>>

\* Call i returns with the first answer of the stream.
ReturnStep(i, ok) ==
    LET call == calls[i]
        a == Head(wire.answers)
    IN  /\ i \in DOMAIN calls /\ wire.answers # <<>>
        /\ client.kind = "typescript" => call.id = a.id
        /\ client' \in ClientState /\ client'.kind = client.kind
        /\ client'.step \in {"session", client.step}
        /\ calls' = RemoveAt(calls, i)
        /\ wire'.requests = wire.requests /\ wire'.answers = Tail(wire.answers)
        /\ wire' \in [requests : Seq(Call), answers : Seq(Answer)]
        /\ held' = IF ok /\ call.what \in CredRef /\ a.lease # 0
                   THEN [asked |-> call.what, lease |-> a.lease, over |-> FALSE, late |-> dropped]
                   ELSE held
        /\ UNCHANGED <<sent, grants, dropped>>

\* A client that gave up its connection.
LEMMA ApartType ==
    ASSUME SessionType
    PROVE  Apart \in ClientState /\ Apart.kind = client.kind
BY DEF Apart, SessionType, ClientState

\* CloseTransport gives up the connection.
LEMMA Closes == SessionType /\ CloseTransport => CloseStep
BY ApartType DEF CloseTransport, CloseStep

\* Send makes a call.
LEMMA Calls ==
    ASSUME SessionType, NEW w \in Asked, Joined, Send(w)
    PROVE  CallStep(w)
<1> DEFINE call == [id |-> sent + 1, what |-> w]
<1>1. call \in Call /\ wire \in [requests : Seq(Call), answers : Seq(Answer)]
  BY DEF SessionType, Call
<1>2. /\ sent' = sent + 1 /\ calls' = Append(calls, call)
      /\ wire' = [wire EXCEPT !.requests = Append(@, call)]
      /\ UNCHANGED <<client, grants, held, dropped>>
      /\ client.kind # "typescript" => Len(calls) < 1
  BY DEF Send, Room
<1> HIDE DEF call
<1>3. Append(wire.requests, call) \in Seq(Call)
  BY <1>1, AppendProperties
<1>4. /\ wire'.requests = Append(wire.requests, call) /\ wire'.answers = wire.answers
      /\ wire' \in [requests : Seq(Call), answers : Seq(Answer)]
  BY <1>1, <1>2, <1>3
<1> QED BY <1>2, <1>4 DEF CallStep, call

\* A call returns, with the connection or, after a failure, without it.
LEMMA ReturnsOrCloses ==
    ASSUME SessionType, NEW i \in DOMAIN calls, NEW ok \in BOOLEAN, NEW last \in BOOLEAN,
           wire.answers # <<>>, Returns(i, Head(wire.answers), ok, last), last => ~ok,
           client.kind = "typescript" => calls[i].id = Head(wire.answers).id
    PROVE  ReturnStep(i, ok) \/ CloseStep
<1>1. CASE last
  BY <1>1, ApartType DEF Returns, CloseStep
<1>2. CASE ~last
  <2> DEFINE a == Head(wire.answers)
             call == calls[i]
  <2>1. wire \in [requests : Seq(Call), answers : Seq(Answer)] /\ client \in ClientState
    BY DEF SessionType
  <2>2. /\ calls' = RemoveAt(calls, i)
        /\ wire' = [wire EXCEPT !.answers = Tail(@)]
        /\ UNCHANGED <<sent, grants, dropped>>
        /\ held' = IF ok /\ call.what \in CredRef /\ a.lease # 0
                   THEN [asked |-> call.what, lease |-> a.lease, over |-> FALSE, late |-> dropped]
                   ELSE held
    BY <1>2 DEF Returns, SessionType
  <2>3. \E s \in {"session", client.step} : client' = [client EXCEPT !.torn = FALSE, !.step = s]
    BY <1>2, <2>1 DEF Returns, ClientState
  <2>4. /\ client' \in ClientState /\ client'.kind = client.kind
        /\ client'.step \in {"session", client.step}
    BY <2>1, <2>3 DEF ClientState
  <2>5. Tail(wire.answers) \in Seq(Answer)
    BY <2>1, TailShorter
  <2>6. /\ wire'.requests = wire.requests /\ wire'.answers = Tail(wire.answers)
        /\ wire' \in [requests : Seq(Call), answers : Seq(Answer)]
    BY <2>1, <2>2, <2>5
  <2> QED BY <2>2, <2>4, <2>6 DEF ReturnStep
<1> QED BY <1>1, <1>2

\* Every step of the four clients is one of these, or one of the Gate's.
LEMMA SessionSteps ==
    HostType /\ SessionType /\ ClientNext =>
        \/ MoveStep \/ CloseStep \/ AbandonStep \/ Serve \/ LocalExpiry
        \/ \E w \in Asked : CallStep(w)
        \/ \E i \in DOMAIN calls, ok \in BOOLEAN : ReturnStep(i, ok)
        \/ \E l \in DOMAIN grants : LeaseEnds(l)
<1> SUFFICES ASSUME HostType, SessionType, ClientNext
             PROVE  \/ MoveStep \/ CloseStep \/ AbandonStep \/ Serve \/ LocalExpiry
                    \/ \E w \in Asked : CallStep(w)
                    \/ \E i \in DOMAIN calls, ok \in BOOLEAN : ReturnStep(i, ok)
                    \/ \E l \in DOMAIN grants : LeaseEnds(l)
  OBVIOUS
<1>0. /\ client \in ClientState /\ client.torn \in BOOLEAN
      /\ file.of \in GateId \cup {NoGate} /\ link \in GateId \cup {NoGate}
      /\ calls \in Seq(Call) /\ wire.answers \in Seq(Answer)
  BY DEF SessionType, ClientState, HostType, FileState
<1>1. ASSUME NEW s \in {"verify", "connect"}, NEW env, Find(s, env), client.step = "idle"
      PROVE  MoveStep
  <2>1. \/ client' = [client EXCEPT !.named = file.of, !.step = s]
        \/ client' = [client EXCEPT !.step = "connect"]
    BY <1>1 DEF Find
  <2>2. client' \in ClientState /\ client'.kind = client.kind
    BY <1>0, <2>1 DEF ClientState
  <2> QED BY <1>1, <2>2 DEF Find, MoveStep, Joined
<1>2. CASE Seek
  BY <1>1, <1>2 DEF Seek, RustDiscover, PythonDiscover, TypeScriptDiscover, WrapLoad, As
<1>3. CASE VerifyGate \/ OpenTransport
  <2>1. /\ client.step \in {"verify", "connect"} /\ client'.kind = client.kind
        /\ UNCHANGED <<calls, wire, sent, grants, held, dropped>>
        /\ client' \in ClientState
    BY <1>0, <1>3 DEF VerifyGate, OpenTransport, ClientState
  <2> QED BY <2>1 DEF MoveStep, Joined
<1>4. CASE NotFound \/ ReadTimeout \/ GateClosed \/ HangUp
  BY <1>4, Closes DEF NotFound, ReadTimeout, GateClosed, HangUp
<1>5. CASE Register \/ PythonRenew \/ TypeScriptRenew
  <2>1. PICK w \in {"register", "renew"} : Send(w)
    BY <1>5 DEF Register, RustRegister, PythonRegister, TypeScriptRegister, WrapRegister,
                PythonRenew, TypeScriptRenew
  <2>2. Joined
    BY <1>5 DEF Register, RustRegister, PythonRegister, TypeScriptRegister, WrapRegister,
                PythonRenew, TypeScriptRenew, As, Joined
  <2> QED BY <2>1, <2>2, Calls DEF Asked
<1>6. ASSUME NEW ref \in CredRef, RequestLease(ref) PROVE \E w \in Asked : CallStep(w)
  <2>1. Send(ref) /\ Joined
    BY <1>6 DEF RequestLease, RustRequestLease, PythonRequestLease, TypeScriptRequestLease,
                WrapRequestCredential, As, Joined
  <2> QED BY <2>1, Calls DEF Asked
<1>7. CASE RustReadLine \/ PythonReadLine \/ WrapReadLine
  <2> DEFINE a == Head(wire.answers)
  <2>1. calls # <<>> /\ wire.answers # <<>> /\ client.kind # "typescript"
    BY <1>7 DEF RustReadLine, PythonReadLine, WrapReadLine, Reads
  <2>2. 1 \in DOMAIN calls
    BY <1>0, <2>1
  <2>3. a \in Answer
    BY <1>0, <2>1, TailShorter
  <2>4. a.ok \in BOOLEAN
    BY <2>3 DEF Answer
  <2> HIDE DEF a
  <2>5. \E ok, last \in BOOLEAN : Returns(1, a, ok, last) /\ (last => ~ok)
    BY <1>0, <1>7, <2>4 DEF RustReadLine, PythonReadLine, WrapReadLine, a
  <2> QED BY <2>1, <2>2, <2>5, ReturnsOrCloses DEF a
<1>8. CASE ProcessBuffer
  <2> DEFINE a == Head(wire.answers)
  <2>1. PICK i \in DOMAIN calls : calls[i].id = a.id /\ Returns(i, a, a.ok, FALSE)
    BY <1>8 DEF ProcessBuffer
  <2>2. wire.answers # <<>>
    BY <1>8 DEF ProcessBuffer
  <2>3. a \in Answer
    BY <1>0, <2>2, TailShorter
  <2>4. a.ok \in BOOLEAN
    BY <2>3 DEF Answer
  <2> QED BY <2>1, <2>2, <2>4, ReturnsOrCloses
<1>9. CASE RustAbandon
  <2>1. CASE client.step = "connected"
    BY <1>9, <2>1, Closes DEF RustAbandon
  <2>2. CASE client.step # "connected"
    <3>1. \E torn \in BOOLEAN : client' = [client EXCEPT !.torn = torn]
      BY <1>0, <1>9, <2>2 DEF RustAbandon
    <3>2. client' \in ClientState /\ client'.kind = client.kind /\ client'.step = client.step
      BY <1>0, <3>1 DEF ClientState
    <3> QED BY <1>9, <2>2, <3>2 DEF RustAbandon, AbandonStep
  <2> QED BY <2>1, <2>2
<1>10. CASE PythonAbandon
  BY <1>0, <1>10 DEF PythonAbandon, AbandonStep
<1> QED BY <1>2, <1>3, <1>4, <1>5, <1>6, <1>7, <1>8, <1>9, <1>10 DEF ClientNext

\* A move, before there is a connection.
LEMMA MoveKeeps == SessionInv /\ MoveStep => SessionInv'
<1> SUFFICES ASSUME SessionInv, MoveStep PROVE SessionInv'
  OBVIOUS
<1>1. SessionType' /\ Numbered' /\ Matched'
  BY DEF SessionInv, MoveStep, SessionType, Numbered, Matched
<1>2. Honest' /\ InOrder' /\ Awaited'
  BY DEF SessionInv, MoveStep, SessionType, Honest, InOrder, Awaited
<1> QED BY <1>1, <1>2 DEF SessionInv

\* The end of a connection takes the calls and the lines with it.
LEMMA CloseKeeps == SessionInv /\ CloseStep => SessionInv'
<1> SUFFICES ASSUME SessionInv, CloseStep PROVE SessionInv'
  OBVIOUS
<1>0. /\ calls' = <<>> /\ wire'.requests = <<>> /\ wire'.answers = <<>> /\ dropped' = FALSE
      /\ client' \in ClientState /\ UNCHANGED <<sent, grants, held>>
      /\ wire' \in [requests : Seq(Call), answers : Seq(Answer)]
  BY DEF CloseStep, Quiet
<1>1. SessionType'
  BY <1>0 DEF SessionInv, SessionType
<1>3. Numbered' /\ Matched'
  BY <1>0 DEF Numbered, Matched
<1>2. Honest' /\ InOrder' /\ Awaited'
  BY <1>0 DEF SessionInv, Honest, InOrder, Awaited, Aligned
<1> QED BY <1>1, <1>2, <1>3 DEF SessionInv

\* An abandoned call is forgotten; its line stays under way.
LEMMA AbandonKeeps == SessionInv /\ AbandonStep => SessionInv'
<1> SUFFICES ASSUME SessionInv, AbandonStep PROVE SessionInv'
  OBVIOUS
<1>0. /\ calls' = <<>> /\ dropped' = TRUE
      /\ client' \in ClientState /\ UNCHANGED <<wire, sent, grants, held>>
  BY DEF AbandonStep
<1>1. SessionType' /\ Numbered' /\ Matched'
  BY <1>0 DEF SessionInv, SessionType, Numbered, Matched
<1>2. Honest' /\ InOrder' /\ Awaited'
  BY <1>0 DEF SessionInv, Honest, InOrder, Awaited
<1> QED BY <1>1, <1>2 DEF SessionInv

\* The first call and its request.
LEMMA AlignedCall ==
    ASSUME NEW T, NEW a \in Seq(T), NEW c, NEW q, NEW r, NEW q1, NEW r1,
           Len(q) = 0, Longer(q, c, q1), Longer(r, c, r1), Aligned(q, r, a)
    PROVE  Aligned(q1, r1, a)
<1>1. Len(a) \in Nat /\ DOMAIN a = 1..Len(a)
  OBVIOUS
<1>2. /\ Len(r) \in Nat /\ Len(r1) = Len(r) + 1 /\ DOMAIN r1 = 1..(Len(r) + 1)
      /\ r1[Len(r) + 1] = c /\ q1[1] = c /\ Len(q1) = 1
  BY DEF Longer
<1>3. Len(r) = 0 /\ Len(a) = 0
  BY <1>1, <1>2 DEF Aligned
<1> QED BY <1>1, <1>2, <1>3 DEF Aligned

\* A request is under way.
LEMMA ComingCall ==
    ASSUME NEW T, NEW a \in Seq(T), NEW c, NEW r, NEW r1, Longer(r, c, r1)
    PROVE  Coming(r1, a)
BY DEF Longer, Coming

\* The request becomes an answer.
LEMMA AlignedServe ==
    ASSUME NEW q, NEW r, NEW r1, NEW a, NEW a1, NEW e,
           Shorter(r, r1), Longer(a, e, a1), e.id = r[1].id, Aligned(q, r, a)
    PROVE  Aligned(q, r1, a1)
<1>1. /\ Len(r) \in Nat /\ Len(r) >= 1 /\ Len(r1) = Len(r) - 1
      /\ DOMAIN r = 1..Len(r) /\ DOMAIN r1 = 1..(Len(r) - 1)
      /\ \A i \in DOMAIN r1 : r1[i] = r[i + 1]
  BY DEF Shorter
<1>2. /\ Len(a) \in Nat /\ Len(a1) = Len(a) + 1
      /\ DOMAIN a = 1..Len(a) /\ DOMAIN a1 = 1..(Len(a) + 1)
      /\ \A i \in 1..Len(a) : a1[i] = a[i]
      /\ a1[Len(a) + 1] = e
  BY DEF Longer
<1>3. Len(r1) + Len(a1) = Len(r) + Len(a)
  BY <1>1, <1>2
<1>4. \A i \in DOMAIN r1 : i + 1 \in DOMAIN r /\ r1[i] = r[i + 1]
  BY <1>1
<1>5. \A i \in DOMAIN a1 : (i \in DOMAIN a /\ a1[i] = a[i]) \/ a1[i] = e
  BY <1>2
<1>6. 1 \in DOMAIN r
  BY <1>1
<1> QED BY <1>3, <1>4, <1>5, <1>6 DEF Aligned

\* An answer is under way.
LEMMA ComingServe ==
    ASSUME NEW r, NEW r1, NEW a, NEW a1, NEW e, Shorter(r, r1), Longer(a, e, a1)
    PROVE  Coming(r1, a1)
BY DEF Longer, Shorter, Coming

\* The answer is read.
LEMMA AlignedReturn ==
    ASSUME NEW q, NEW q1, NEW T, NEW r \in Seq(T), NEW a, NEW a1,
           Len(q) = 1, Len(q1) = 0, Shorter(a, a1), Aligned(q, r, a)
    PROVE  Aligned(q1, r, a1) /\ a[1].id = q[1].id
<1>1. Len(r) \in Nat /\ DOMAIN r = 1..Len(r)
  OBVIOUS
<1>2. /\ Len(a) \in Nat /\ Len(a) >= 1 /\ Len(a1) = Len(a) - 1
      /\ DOMAIN a = 1..Len(a) /\ DOMAIN a1 = 1..(Len(a) - 1)
  BY DEF Shorter
<1>3. Len(r) + Len(a) = 1
  BY DEF Aligned
<1>4. Len(r) = 0 /\ Len(a) = 1
  BY <1>1, <1>2, <1>3
<1>5. 1 \in DOMAIN a /\ DOMAIN r = {} /\ DOMAIN a1 = {} /\ Len(r) + Len(a1) = 0
  BY <1>1, <1>2, <1>4
<1> QED BY <1>5 DEF Aligned

\* A new call has a number no call and no line has.
LEMMA CallKeeps ==
    ASSUME SessionInv, NEW w \in Asked, CallStep(w)
    PROVE  SessionInv'
<1> DEFINE call == [id |-> sent + 1, what |-> w]
<1>1. /\ Joined /\ (client.kind # "typescript" => Len(calls) < 1)
      /\ sent' = sent + 1 /\ calls' = Append(calls, call)
      /\ wire'.requests = Append(wire.requests, call) /\ wire'.answers = wire.answers
      /\ wire' \in [requests : Seq(Call), answers : Seq(Answer)]
      /\ UNCHANGED <<client, grants, held, dropped>>
  BY DEF CallStep
<1>2. call \in Call /\ call.id = sent + 1 /\ call.what = w
  BY DEF SessionInv, SessionType, Call
<1>3. /\ calls \in Seq(Call) /\ wire.requests \in Seq(Call) /\ wire.answers \in Seq(Answer)
      /\ sent \in Nat /\ DOMAIN wire.answers = 1..Len(wire.answers) /\ Len(wire.answers) \in Nat
  BY DEF SessionInv, SessionType
<1>3a. /\ \A i \in DOMAIN calls : calls[i].id \in Nat
       /\ \A i \in DOMAIN wire.requests : wire.requests[i].id \in Nat
       /\ \A i \in DOMAIN wire.answers : wire.answers[i].id \in Nat
  <2>1. /\ \A i \in DOMAIN calls : calls[i] \in Call
        /\ \A i \in DOMAIN wire.requests : wire.requests[i] \in Call
        /\ \A i \in DOMAIN wire.answers : wire.answers[i] \in Answer
    BY <1>3
  <2> QED BY <2>1 DEF Call, Answer
<1> HIDE DEF call
<1>4. /\ calls' \in Seq(Call) /\ Longer(calls, call, calls')
      /\ Longer(wire.requests, call, wire'.requests)
  BY <1>1, <1>2, <1>3, AppendLonger
<1>4a. /\ Len(wire.requests) \in Nat /\ Len(wire'.requests) = Len(wire.requests) + 1
       /\ DOMAIN wire'.requests = 1..(Len(wire.requests) + 1)
  BY <1>4 DEF Longer
<1>4b. /\ Len(wire.answers) \in Nat /\ Len(wire'.answers) = Len(wire.answers)
       /\ DOMAIN wire'.answers = 1..Len(wire.answers)
  BY <1>1, <1>3
<1>5. SessionType'
  BY <1>1, <1>3, <1>4 DEF SessionInv, SessionType
<1>6. Numbered'
  BY <1>1, <1>2, <1>3, <1>3a, <1>4 DEF SessionInv, Numbered, Longer
<1>7. Matched'
  <2> SUFFICES ASSUME NEW i \in DOMAIN calls'
               PROVE  /\ \A r \in DOMAIN wire'.requests : wire'.requests[r].id = calls'[i].id
                                                          => wire'.requests[r].what = calls'[i].what
                      /\ \A r \in DOMAIN wire'.answers : wire'.answers[r].id = calls'[i].id
                                                         => wire'.answers[r].what = calls'[i].what
    BY DEF Matched
  <2>1. CASE i \in DOMAIN calls
    <3>1. calls'[i] = calls[i] /\ calls[i].id <= sent /\ calls[i].id \in Nat
      BY <1>3a, <1>4, <2>1 DEF Longer, SessionInv, Numbered
    <3>2. \A r \in DOMAIN wire'.requests :
              \/ wire'.requests[r] = call
              \/ r \in DOMAIN wire.requests /\ wire'.requests[r] = wire.requests[r]
      BY <1>4 DEF Longer
    <3>3. call.id # calls'[i].id
      BY <1>2, <1>3, <3>1
    <3>4. /\ \A r \in DOMAIN wire.requests : wire.requests[r].id = calls[i].id
                                              => wire.requests[r].what = calls[i].what
          /\ \A r \in DOMAIN wire.answers : wire.answers[r].id = calls[i].id
                                             => wire.answers[r].what = calls[i].what
      BY <2>1 DEF SessionInv, Matched
    <3>5. wire'.answers = wire.answers
      BY <1>1, <1>3
    <3> HIDE DEF SessionInv
    <3> QED BY <3>1, <3>2, <3>3, <3>4, <3>5
  <2>2. CASE i \notin DOMAIN calls
    <3>1. calls'[i] = call
      BY <1>4, <2>2 DEF Longer
    <3>2. /\ \A r \in DOMAIN wire.requests : wire.requests[r].id # sent + 1
          /\ \A r \in DOMAIN wire.answers : wire.answers[r].id # sent + 1
      BY <1>3, <1>3a DEF SessionInv, Numbered
    <3>3. \A r \in DOMAIN wire'.requests :
              \/ wire'.requests[r] = call
              \/ r \in DOMAIN wire.requests /\ wire'.requests[r] = wire.requests[r]
      BY <1>4 DEF Longer
    <3> QED BY <1>1, <1>2, <3>1, <3>2, <3>3
  <2> QED BY <2>1, <2>2
<1>8. Honest'
  BY <1>1 DEF SessionInv, Honest
<1>9. InOrder'
  <2> SUFFICES ASSUME client.kind # "typescript"
               PROVE  Len(calls') <= 1 /\ (~dropped => Aligned(calls', wire'.requests, wire'.answers))
    BY <1>1 DEF InOrder
  <2>1. Len(calls) = 0 /\ Len(calls') = 1
    BY <1>1, <1>4 DEF Longer
  <2>2. ASSUME ~dropped PROVE Aligned(calls, wire.requests, wire.answers)
    BY <2>2 DEF SessionInv, InOrder
  <2> QED BY <1>1, <1>3, <1>4, <2>1, <2>2, AlignedCall
<1>10. Awaited'
  <2>1. Joined'
    BY <1>1 DEF Joined
  <2>2. CASE client.kind # "typescript"
    <3>1. Coming(wire'.requests, wire'.answers)
      BY <1>3, <1>4, ComingCall, <1>1
    <3> QED BY <1>1, <2>1, <2>2, <3>1 DEF Awaited
  <2>3. CASE client.kind = "typescript"
    <3>1. ASSUME NEW i \in DOMAIN calls'
          PROVE  \/ \E r \in DOMAIN wire'.requests : wire'.requests[r].id = calls'[i].id
                 \/ \E r \in DOMAIN wire'.answers : wire'.answers[r].id = calls'[i].id
      <4>1. CASE i \in DOMAIN calls
        <5>1. calls'[i] = calls[i] /\ calls # <<>>
          BY <1>3, <1>4, <4>1 DEF Longer
        <5>2. \A r \in DOMAIN wire.requests :
                  r \in DOMAIN wire'.requests /\ wire'.requests[r] = wire.requests[r]
          BY <1>4 DEF Longer
        <5> QED BY <1>1, <2>3, <4>1, <5>1, <5>2 DEF SessionInv, Awaited
      <4>2. CASE i \notin DOMAIN calls
        <5>1. calls'[i] = call
          BY <1>4, <4>2 DEF Longer
        <5>2. Len(wire.requests) + 1 \in DOMAIN wire'.requests /\ wire'.requests[Len(wire.requests) + 1] = call
          BY <1>4 DEF Longer
        <5> QED BY <5>1, <5>2
      <4> QED BY <4>1, <4>2
    <3> QED BY <1>1, <2>1, <2>3, <3>1 DEF Awaited
  <2> QED BY <2>2, <2>3
<1> QED BY <1>5, <1>6, <1>7, <1>8, <1>9, <1>10 DEF SessionInv

\* Every lease is still for the reference it was granted for.
GrantsKept ==
    /\ grants' \in Seq(Grant)
    /\ \A l \in DOMAIN grants : l \in DOMAIN grants' /\ grants'[l].ref = grants[l].ref

\* The first request is answered by e.
ServeStep(e) ==
    /\ e \in Answer /\ e.id = wire.requests[1].id /\ e.what = wire.requests[1].what
    /\ e.lease # 0 => e.lease \in DOMAIN grants' /\ grants'[e.lease].ref = e.what
    /\ Shorter(wire.requests, wire'.requests) /\ Longer(wire.answers, e, wire'.answers)
    /\ wire' \in [requests : Seq(Call), answers : Seq(Answer)]
    /\ GrantsKept
    /\ UNCHANGED <<client, calls, sent, held, dropped>>

\* handle_request answers the first request, with an error, a registration or a lease.
LEMMA Serves == SessionType /\ Serve => \E e \in Answer : ServeStep(e)
<1> SUFFICES ASSUME SessionType, Serve PROVE \E e \in Answer : ServeStep(e)
  OBVIOUS
<1> DEFINE r == Head(wire.requests)
           Ans(ok, lease) == [id |-> r.id, what |-> r.what, ok |-> ok, lease |-> lease]
<1>1. /\ wire.requests # <<>> /\ wire.requests \in Seq(Call) /\ wire.answers \in Seq(Answer)
      /\ grants \in Seq(Grant) /\ client.gate \in GateId \cup {NoGate}
      /\ UNCHANGED <<client, calls, sent, held, dropped>>
  BY DEF Serve, SessionType, ClientState
<1>2. /\ Tail(wire.requests) \in Seq(Call) /\ Shorter(wire.requests, Tail(wire.requests))
      /\ r = wire.requests[1] /\ r \in Call
  BY <1>1, TailShorter
<1>3. r.id \in Nat /\ r.what \in Asked
  BY <1>2 DEF Call
<1>4. \/ \E ok \in BOOLEAN :
            /\ wire' = [requests |-> Tail(wire.requests), answers |-> Append(wire.answers, Ans(ok, 0))]
            /\ UNCHANGED grants
      \/ /\ r.what \in CredRef
         /\ grants' = Append(grants, [ref |-> r.what, gate |-> client.gate, live |-> TRUE])
         /\ wire' = [requests |-> Tail(wire.requests),
                     answers |-> Append(wire.answers, Ans(TRUE, Len(grants) + 1))]
  BY DEF Serve
<1>5. \A ok \in BOOLEAN, l \in Nat : Ans(ok, l) \in Answer /\ Ans(ok, l).lease = l
                                     /\ Ans(ok, l).id = r.id /\ Ans(ok, l).what = r.what
  BY <1>3 DEF Answer
<1>6. Len(grants) \in Nat /\ DOMAIN grants = 1..Len(grants)
  BY <1>1
<1> HIDE DEF r, Ans
<1>7. ASSUME NEW e \in Answer, e.id = r.id, e.what = r.what, GrantsKept,
             e.lease # 0 => e.lease \in DOMAIN grants' /\ grants'[e.lease].ref = e.what,
             wire' = [requests |-> Tail(wire.requests), answers |-> Append(wire.answers, e)]
      PROVE  ServeStep(e)
  <2>1. /\ Append(wire.answers, e) \in Seq(Answer)
        /\ Longer(wire.answers, e, Append(wire.answers, e))
    BY <1>1, AppendLonger
  <2>2. /\ wire'.requests = Tail(wire.requests) /\ wire'.answers = Append(wire.answers, e)
        /\ wire' \in [requests : Seq(Call), answers : Seq(Answer)]
    BY <1>2, <1>7, <2>1
  <2> QED BY <1>1, <1>2, <1>7, <2>1, <2>2 DEF ServeStep
<1>8. CASE \E ok \in BOOLEAN :
            /\ wire' = [requests |-> Tail(wire.requests), answers |-> Append(wire.answers, Ans(ok, 0))]
            /\ UNCHANGED grants
  <2>1. PICK ok \in BOOLEAN :
            /\ wire' = [requests |-> Tail(wire.requests), answers |-> Append(wire.answers, Ans(ok, 0))]
            /\ UNCHANGED grants
    BY <1>8
  <2>2. GrantsKept
    BY <1>1, <2>1 DEF GrantsKept
  <2> QED BY <1>5, <1>7, <2>1, <2>2
<1>9. CASE /\ r.what \in CredRef
           /\ grants' = Append(grants, [ref |-> r.what, gate |-> client.gate, live |-> TRUE])
           /\ wire' = [requests |-> Tail(wire.requests),
                       answers |-> Append(wire.answers, Ans(TRUE, Len(grants) + 1))]
  <2> DEFINE g == [ref |-> r.what, gate |-> client.gate, live |-> TRUE]
             e == Ans(TRUE, Len(grants) + 1)
  <2>1. g \in Grant /\ g.ref = r.what
    BY <1>1, <1>9 DEF Grant
  <2>2. e \in Answer /\ e.lease = Len(grants) + 1 /\ e.id = r.id /\ e.what = r.what
    <3> DEFINE n == Len(grants) + 1
    <3>1. n \in Nat
      BY <1>6
    <3> HIDE DEF n
    <3>2. Ans(TRUE, n) \in Answer /\ Ans(TRUE, n).lease = n
          /\ Ans(TRUE, n).id = r.id /\ Ans(TRUE, n).what = r.what
      BY <1>5, <3>1
    <3> QED BY <3>2 DEF n
  <2>3. wire' = [requests |-> Tail(wire.requests), answers |-> Append(wire.answers, e)]
        /\ grants' = Append(grants, g)
    BY <1>9
  <2> HIDE DEF g, e
  <2>4. grants' \in Seq(Grant) /\ Longer(grants, g, grants')
    BY <1>1, <2>1, <2>3, AppendLonger
  <2>5. GrantsKept /\ e.lease \in DOMAIN grants' /\ grants'[e.lease].ref = e.what
    <3>1. /\ DOMAIN grants' = 1..(Len(grants) + 1) /\ \A l \in 1..Len(grants) : grants'[l] = grants[l]
          /\ grants'[Len(grants) + 1] = g
      BY <2>4 DEF Longer
    <3>2. GrantsKept
      BY <1>6, <2>4, <3>1 DEF GrantsKept
    <3>3. Len(grants) + 1 \in DOMAIN grants'
      BY <1>6, <3>1
    <3> QED BY <2>1, <2>2, <3>1, <3>2, <3>3
  <2> QED BY <1>7, <2>2, <2>3, <2>5
<1> QED BY <1>4, <1>8, <1>9

\* A lease held or under way stays that of its reference.
LEMMA HonestKept ==
    ASSUME Honest, GrantsKept, UNCHANGED held,
           \A r \in DOMAIN wire'.answers :
              \/ \E s \in DOMAIN wire.answers : wire'.answers[r] = wire.answers[s]
              \/ wire'.answers[r].lease # 0 =>
                    /\ wire'.answers[r].lease \in DOMAIN grants'
                    /\ grants'[wire'.answers[r].lease].ref = wire'.answers[r].what
    PROVE  Honest'
<1>1. ASSUME NEW r \in DOMAIN wire'.answers, wire'.answers[r].lease # 0
      PROVE  /\ wire'.answers[r].lease \in DOMAIN grants'
             /\ grants'[wire'.answers[r].lease].ref = wire'.answers[r].what
  BY <1>1 DEF Honest, GrantsKept
<1>2. ASSUME held' # NoHold, ~held'.late
      PROVE  held'.lease \in DOMAIN grants' /\ grants'[held'.lease].ref = held'.asked
  BY <1>2 DEF Honest, GrantsKept
<1> QED BY <1>1, <1>2 DEF Honest

\* The answer takes the place of its request.
LEMMA ServeKeeps ==
    ASSUME SessionInv, NEW e \in Answer, ServeStep(e)
    PROVE  SessionInv'
<1>1. /\ e.id = wire.requests[1].id /\ e.what = wire.requests[1].what
      /\ e.lease # 0 => e.lease \in DOMAIN grants' /\ grants'[e.lease].ref = e.what
      /\ Shorter(wire.requests, wire'.requests) /\ Longer(wire.answers, e, wire'.answers)
      /\ wire' \in [requests : Seq(Call), answers : Seq(Answer)]
      /\ GrantsKept
      /\ UNCHANGED <<client, calls, sent, held, dropped>>
  BY DEF ServeStep
<1>2. /\ 1 \in DOMAIN wire.requests
      /\ \A r \in DOMAIN wire'.requests :
            r + 1 \in DOMAIN wire.requests /\ wire'.requests[r] = wire.requests[r + 1]
      /\ \A r \in DOMAIN wire.requests :
            r = 1 \/ (r - 1 \in DOMAIN wire'.requests /\ wire'.requests[r - 1] = wire.requests[r])
  BY <1>1 DEF Shorter
<1>3. /\ \A r \in DOMAIN wire'.answers :
            \/ r \in DOMAIN wire.answers /\ wire'.answers[r] = wire.answers[r]
            \/ wire'.answers[r] = e
      /\ \A r \in DOMAIN wire.answers : r \in DOMAIN wire'.answers /\ wire'.answers[r] = wire.answers[r]
      /\ \E r \in DOMAIN wire'.answers : wire'.answers[r] = e
  BY <1>1 DEF Longer
<1>4. SessionType'
  BY <1>1 DEF SessionInv, SessionType, GrantsKept
<1>5. Numbered'
  BY <1>1, <1>2, <1>3 DEF SessionInv, Numbered
<1>6. Matched'
  <2> SUFFICES ASSUME NEW i \in DOMAIN calls
               PROVE  /\ \A r \in DOMAIN wire'.requests : wire'.requests[r].id = calls[i].id
                                                          => wire'.requests[r].what = calls[i].what
                      /\ \A r \in DOMAIN wire'.answers : wire'.answers[r].id = calls[i].id
                                                         => wire'.answers[r].what = calls[i].what
    BY <1>1 DEF Matched
  <2>1. /\ \A r \in DOMAIN wire.requests : wire.requests[r].id = calls[i].id
                                              => wire.requests[r].what = calls[i].what
        /\ \A r \in DOMAIN wire.answers : wire.answers[r].id = calls[i].id
                                             => wire.answers[r].what = calls[i].what
    BY DEF SessionInv, Matched
  <2>2. ASSUME NEW r \in DOMAIN wire'.requests, wire'.requests[r].id = calls[i].id
        PROVE  wire'.requests[r].what = calls[i].what
    BY <1>2, <2>1, <2>2
  <2>3. ASSUME NEW r \in DOMAIN wire'.answers, wire'.answers[r].id = calls[i].id
        PROVE  wire'.answers[r].what = calls[i].what
    <3>1. e.id = calls[i].id => e.what = calls[i].what
      BY <1>1, <1>2, <2>1
    <3> QED BY <1>3, <2>1, <2>3, <3>1
  <2> QED BY <2>2, <2>3
<1>7. Honest'
  BY <1>1, <1>3, HonestKept DEF SessionInv
<1>8. InOrder'
  BY <1>1, AlignedServe DEF SessionInv, InOrder
<1>9. Awaited'
  <2>1. Coming(wire'.requests, wire'.answers)
    BY <1>1, ComingServe
  <2>2. ASSUME calls # <<>>, client.kind = "typescript", NEW i \in DOMAIN calls
        PROVE  \/ \E r \in DOMAIN wire'.requests : wire'.requests[r].id = calls[i].id
               \/ \E r \in DOMAIN wire'.answers : wire'.answers[r].id = calls[i].id
    BY <1>1, <1>2, <1>3, <2>2 DEF SessionInv, Awaited
  <2> QED BY <1>1, <2>1, <2>2 DEF SessionInv, Awaited, Joined
<1> QED BY <1>4, <1>5, <1>6, <1>7, <1>8, <1>9 DEF SessionInv

\* A call that returns leaves with the first answer.  Where answers go by their order,
\* it is the only call, and unless one was abandoned before it the answer is its own.
LEMMA ReturnKeeps ==
    ASSUME SessionInv, NEW i \in DOMAIN calls, NEW ok \in BOOLEAN, ReturnStep(i, ok)
    PROVE  SessionInv'
<1> DEFINE call == calls[i]
           a == Head(wire.answers)
           won == ok /\ call.what \in CredRef /\ a.lease # 0
<1>1. /\ wire.answers # <<>>
      /\ client.kind = "typescript" => call.id = a.id
      /\ client' \in ClientState /\ client'.kind = client.kind
      /\ client'.step \in {"session", client.step}
      /\ calls' = RemoveAt(calls, i)
      /\ wire'.requests = wire.requests /\ wire'.answers = Tail(wire.answers)
      /\ wire' \in [requests : Seq(Call), answers : Seq(Answer)]
      /\ UNCHANGED <<sent, grants, dropped>>
  BY DEF ReturnStep
<1>2. held' = IF won THEN [asked |-> call.what, lease |-> a.lease, over |-> FALSE, late |-> dropped]
              ELSE held
  BY DEF ReturnStep
<1>3. /\ calls \in Seq(Call) /\ wire.requests \in Seq(Call) /\ wire.answers \in Seq(Answer)
      /\ sent \in Nat /\ dropped \in BOOLEAN /\ held \in HeldState
  BY DEF SessionInv, SessionType
<1>4. /\ Shorter(wire.answers, wire'.answers) /\ a = wire.answers[1] /\ a \in Answer
  BY <1>1, <1>3, TailShorter
<1>5. /\ a.lease \in Nat /\ a.id \in Nat /\ call \in Call
  BY <1>3, <1>4 DEF Answer
<1> HIDE DEF a, call, won
<1>6. /\ calls' \in Seq(Call) /\ Len(calls') = Len(calls) - 1
      /\ \A j \in DOMAIN calls' : calls'[j] = IF j < i THEN calls[j] ELSE calls[j + 1]
  BY <1>1, <1>3, RemoveAtElements
<1>7. /\ DOMAIN calls' = 1..(Len(calls) - 1) /\ DOMAIN calls = 1..Len(calls) /\ Len(calls) \in Nat
      /\ i \in 1..Len(calls)
  BY <1>3, <1>6
<1> DEFINE at(j) == IF j < i THEN j ELSE j + 1
<1>8. \A j \in DOMAIN calls' : at(j) \in DOMAIN calls /\ at(j) # i /\ calls'[j] = calls[at(j)]
  BY <1>6, <1>7
<1>9. \A j, k \in DOMAIN calls' : j # k => at(j) # at(k)
  BY <1>7
<1> HIDE DEF at
<1>10. /\ 1 \in DOMAIN wire.answers
       /\ \A r \in DOMAIN wire'.answers :
             r + 1 \in DOMAIN wire.answers /\ wire'.answers[r] = wire.answers[r + 1]
       /\ \A r \in DOMAIN wire.answers :
             r = 1 \/ (r - 1 \in DOMAIN wire'.answers /\ wire'.answers[r - 1] = wire.answers[r])
  BY <1>4 DEF Shorter
<1>11. SessionType'
  <2>1. held' \in HeldState
    BY <1>2, <1>3, <1>5 DEF HeldState, won
  <2> QED BY <1>1, <1>6, <2>1 DEF SessionInv, SessionType
<1>12. Numbered'
  <2>1. /\ \A j \in DOMAIN calls : calls[j].id <= sent
        /\ \A j, k \in DOMAIN calls : j # k => calls[j].id # calls[k].id
        /\ \A r \in DOMAIN wire.requests : wire.requests[r].id <= sent
        /\ \A r \in DOMAIN wire.answers : wire.answers[r].id <= sent
    BY DEF SessionInv, Numbered
  <2>2. \A j \in DOMAIN calls' : calls'[j].id <= sent
    BY <1>8, <2>1
  <2>3. \A j, k \in DOMAIN calls' : j # k => calls'[j].id # calls'[k].id
    BY <1>8, <1>9, <2>1
  <2>4. \A r \in DOMAIN wire'.answers : wire'.answers[r].id <= sent
    BY <1>10, <2>1
  <2> QED BY <1>1, <2>1, <2>2, <2>3, <2>4 DEF Numbered
<1>13. Matched'
  <2> SUFFICES ASSUME NEW j \in DOMAIN calls'
               PROVE  /\ \A r \in DOMAIN wire'.requests : wire'.requests[r].id = calls'[j].id
                                                          => wire'.requests[r].what = calls'[j].what
                      /\ \A r \in DOMAIN wire'.answers : wire'.answers[r].id = calls'[j].id
                                                         => wire'.answers[r].what = calls'[j].what
    BY DEF Matched
  <2>1. PICK k \in DOMAIN calls : calls'[j] = calls[k]
    BY <1>8
  <2>2. /\ \A r \in DOMAIN wire.requests : wire.requests[r].id = calls[k].id
                                              => wire.requests[r].what = calls[k].what
        /\ \A r \in DOMAIN wire.answers : wire.answers[r].id = calls[k].id
                                             => wire.answers[r].what = calls[k].what
    BY DEF SessionInv, Matched
  <2>3. ASSUME NEW r \in DOMAIN wire'.answers, wire'.answers[r].id = calls'[j].id
        PROVE  wire'.answers[r].what = calls'[j].what
    BY <1>10, <2>1, <2>2, <2>3
  <2> QED BY <1>1, <2>1, <2>2, <2>3
<1>14. client.kind # "typescript" => Len(calls) = 1 /\ Len(calls') = 0 /\ i = 1
  BY <1>6, <1>7 DEF SessionInv, InOrder
<1>15. InOrder'
  BY <1>1, <1>3, <1>4, <1>14, AlignedReturn DEF SessionInv, InOrder
<1>16. ~dropped => a.id = call.id
  <2>1. CASE client.kind = "typescript"
    BY <1>1, <2>1
  <2>2. ASSUME client.kind # "typescript", ~dropped PROVE a.id = call.id
    <3>1. Aligned(calls, wire.requests, wire.answers)
      BY <2>2 DEF SessionInv, InOrder
    <3>2. wire.answers[1].id = calls[1].id
      BY <1>10, <3>1 DEF Aligned
    <3> QED BY <1>4, <1>14, <2>2, <3>2 DEF call
  <2> QED BY <2>1, <2>2
<1>17. Honest'
  <2>1. ASSUME NEW r \in DOMAIN wire'.answers, wire'.answers[r].lease # 0
        PROVE  /\ wire'.answers[r].lease \in DOMAIN grants'
               /\ grants'[wire'.answers[r].lease].ref = wire'.answers[r].what
    BY <1>1, <1>10, <2>1 DEF SessionInv, Honest
  <2>2. ASSUME held' # NoHold, ~held'.late
        PROVE  held'.lease \in DOMAIN grants' /\ grants'[held'.lease].ref = held'.asked
    <3>1. CASE won
      <4>1. held'.asked = call.what /\ held'.lease = a.lease /\ held'.late = dropped
        BY <1>2, <3>1
      <4>2. a.what = call.what
        BY <1>4, <1>10, <1>16, <2>2, <4>1 DEF SessionInv, Matched, call
      <4>3. a.lease \in DOMAIN grants /\ grants[a.lease].ref = a.what
        BY <1>4, <1>10, <3>1 DEF SessionInv, Honest, won
      <4> QED BY <1>1, <4>1, <4>2, <4>3
    <3>2. CASE ~won
      BY <1>1, <1>2, <2>2, <3>2 DEF SessionInv, Honest
    <3> QED BY <3>1, <3>2
  <2> QED BY <2>1, <2>2 DEF Honest
<1>18. Awaited'
  <2>1. CASE client.kind # "typescript"
    <3>1. calls' = <<>>
      BY <1>6, <1>14, <2>1
    <3> QED BY <3>1 DEF Awaited
  <2>2. CASE client.kind = "typescript"
    <3>1. Joined'
      <4>1. calls # <<>>
        BY <1>3
      <4> QED BY <1>1, <4>1 DEF SessionInv, Awaited, Joined
    <3>2. ASSUME NEW j \in DOMAIN calls'
          PROVE  \/ \E r \in DOMAIN wire'.requests : wire'.requests[r].id = calls'[j].id
                 \/ \E r \in DOMAIN wire'.answers : wire'.answers[r].id = calls'[j].id
      <4>1. PICK k \in DOMAIN calls : k # i /\ calls'[j] = calls[k]
        BY <1>8
      <4>2. calls[k].id # wire.answers[1].id
        BY <1>1, <1>4, <2>2, <4>1 DEF SessionInv, Numbered, call
      <4>3. \/ \E r \in DOMAIN wire.requests : wire.requests[r].id = calls[k].id
            \/ \E r \in DOMAIN wire.answers : wire.answers[r].id = calls[k].id
        BY <1>3, <2>2 DEF SessionInv, Awaited
      <4> QED BY <1>1, <1>10, <4>1, <4>2, <4>3
    <3> QED BY <1>1, <2>2, <3>1, <3>2 DEF Awaited
  <2> QED BY <2>1, <2>2
<1> QED BY <1>11, <1>12, <1>13, <1>15, <1>17, <1>18 DEF SessionInv

\* The end of a lease leaves its reference.
LEMMA LeaseEndsKeeps ==
    ASSUME SessionInv, NEW l \in DOMAIN grants, LeaseEnds(l)
    PROVE  SessionInv'
<1>1. /\ grants' = [grants EXCEPT ![l].live = FALSE]
      /\ UNCHANGED <<client, calls, wire, sent, held, dropped>>
  BY DEF LeaseEnds
<1>2. grants \in Seq(Grant) /\ \A m \in DOMAIN grants : grants[m] \in Grant
  BY DEF SessionInv, SessionType
<1>3. DOMAIN grants' = DOMAIN grants
  BY <1>1
<1>4. \A m \in DOMAIN grants : grants'[m] \in Grant /\ grants'[m].ref = grants[m].ref
  BY <1>1, <1>2 DEF Grant
<1>5. grants' \in Seq(Grant)
  <2>1. Len(grants) \in Nat /\ DOMAIN grants = 1..Len(grants) 
    BY <1>2
  <2>2. grants' = [m \in DOMAIN grants |-> grants'[m]]
    BY <1>1
  <2>3. grants' \in [1..Len(grants) -> Grant]
    BY <1>4, <2>1, <2>2
  <2> QED BY <2>1, <2>3
<1>6. GrantsKept
  BY <1>3, <1>4, <1>5 DEF GrantsKept
<1>7. Honest'
  BY <1>1, <1>6, HonestKept DEF SessionInv
<1>8. SessionType' /\ Numbered' /\ Matched'
  BY <1>1, <1>5 DEF SessionInv, SessionType, Numbered, Matched
<1>9. InOrder' /\ Awaited'
  BY <1>1 DEF SessionInv, InOrder, Awaited, Joined
<1> QED BY <1>7, <1>8, <1>9 DEF SessionInv

\* The expiry the client keeps says nothing of the lease itself.
LEMMA LocalExpiryKeeps == SessionInv /\ LocalExpiry => SessionInv'
<1> SUFFICES ASSUME SessionInv, LocalExpiry PROVE SessionInv'
  OBVIOUS
<1>1. /\ held # NoHold /\ held' = [held EXCEPT !.over = TRUE]
      /\ UNCHANGED <<client, calls, wire, sent, grants, dropped>>
  BY DEF LocalExpiry
<1>2. /\ held' \in HeldState /\ held'.late = held.late /\ held'.lease = held.lease
      /\ held'.asked = held.asked
  BY <1>1 DEF SessionInv, SessionType, HeldState
<1>3. SessionType' /\ Numbered' /\ Matched'
  BY <1>1, <1>2 DEF SessionInv, SessionType, Numbered, Matched
<1>4. InOrder' /\ Awaited'
  BY <1>1 DEF SessionInv, InOrder, Awaited, Joined
<1>5. Honest'
  BY <1>1, <1>2 DEF SessionInv, Honest
<1> QED BY <1>3, <1>4, <1>5 DEF SessionInv

sessionVars == <<hostVars, clientVars>>

SessionNext ==
    \/ HostNext /\ UNCHANGED clientVars
    \/ ClientNext /\ UNCHANGED hostVars

\* A client that has not begun has no call, no line and no lease.
LEMMA SessionInitial == ClientInit => SessionInv
<1> SUFFICES ASSUME ClientInit PROVE SessionInv
  OBVIOUS
<1>1. /\ calls = <<>> /\ wire.requests = <<>> /\ wire.answers = <<>> /\ sent = 0 /\ grants = <<>>
      /\ wire = Quiet /\ held = NoHold /\ dropped = FALSE
      /\ client \in [kind : Kind, step : {"idle"}, named : {NoGate}, gate : {NoGate}, torn : {FALSE}]
  BY DEF ClientInit, Quiet
<1>2. client \in ClientState /\ held \in HeldState
  BY <1>1 DEF ClientState, HeldState, NoHold
<1>3. wire \in [requests : Seq(Call), answers : Seq(Answer)]
  BY <1>1 DEF Quiet
<1>4. SessionType
  <2>1. calls \in Seq(Call) /\ grants \in Seq(Grant) /\ sent \in Nat /\ dropped \in BOOLEAN
    <3>1. <<>> \in Seq(Call) /\ <<>> \in Seq(Grant)
      OBVIOUS
    <3> QED BY <1>1, <3>1
  <2> QED BY <1>2, <1>3, <2>1 DEF SessionType
<1>5. Numbered /\ Matched
  BY <1>1 DEF Numbered, Matched
<1>6. Honest /\ Awaited
  BY <1>1 DEF Honest, Awaited
<1>7. InOrder
  BY <1>1 DEF InOrder, Aligned
<1> QED BY <1>4, <1>5, <1>6, <1>7 DEF SessionInv

\* Every step of a client, and of the Gates beside it, keeps the matching of calls,
\* lines and leases.
LEMMA SessionKept ==
    HostType /\ SessionInv /\ [SessionNext]_sessionVars => SessionInv'
<1> SUFFICES ASSUME HostType, SessionInv, [SessionNext]_sessionVars PROVE SessionInv'
  OBVIOUS
<1>1. CASE UNCHANGED clientVars
  <2>1. SessionType' /\ Numbered' /\ Matched'
    BY <1>1 DEF clientVars, SessionInv, SessionType, Numbered, Matched
  <2>2. Honest' /\ InOrder' /\ Awaited'
    BY <1>1 DEF clientVars, SessionInv, Honest, InOrder, Awaited, Joined
  <2> QED BY <2>1, <2>2 DEF SessionInv
<1>2. CASE ClientNext
  <2>1. \/ MoveStep \/ CloseStep \/ AbandonStep \/ Serve \/ LocalExpiry
        \/ \E w \in Asked : CallStep(w)
        \/ \E i \in DOMAIN calls, ok \in BOOLEAN : ReturnStep(i, ok)
        \/ \E l \in DOMAIN grants : LeaseEnds(l)
    BY <1>2, SessionSteps DEF SessionInv
  <2>2. Serve => \E e \in Answer : ServeStep(e)
    BY Serves DEF SessionInv
  <2> QED BY <2>1, <2>2, MoveKeeps, CloseKeeps, AbandonKeeps, ServeKeeps, LocalExpiryKeeps,
             CallKeeps, ReturnKeeps, LeaseEndsKeeps
<1> QED BY <1>1, <1>2 DEF SessionNext, sessionVars

\* The invariant of a client among the Gates it may find.
LEMMA SessionAlways == SessionSpec => [](HostType /\ SessionInv)
<1>1. HostInit /\ ClientInit => HostType /\ SessionInv
  BY SessionInitial DEF HostInit, HostType, NoFile, FileState, Phase
<1>2. HostType /\ SessionInv /\ [SessionNext]_sessionVars => (HostType /\ SessionInv)'
  <2> SUFFICES ASSUME HostType, SessionInv, [SessionNext]_sessionVars PROVE HostType' /\ SessionInv'
    OBVIOUS
  <2>1. [HostNext]_hostVars
    BY DEF SessionNext, sessionVars
  <2> QED BY <2>1, HostTypeNext, SessionKept
<1> QED BY <1>1, <1>2, PTL DEF SessionSpec, SessionNext, sessionVars

\* A call that is open waits for a line that is under way, the one with its number
\* where the transport goes by numbers: send, processBuffer and the handler of
\* "close" of the SDKs, whatever calls were abandoned before it.
THEOREM StrandedTheorem == SessionSpec => []NoCallStranded
<1>1. SessionInv => NoCallStranded
  <2> SUFFICES ASSUME SessionInv, calls # <<>>
               PROVE  /\ Joined
                      /\ IF client.kind = "typescript"
                         THEN \A c \in Range(calls) :
                                 \E l \in Range(wire.requests \o wire.answers) : l.id = c.id
                         ELSE Len(wire.requests \o wire.answers) >= Len(calls)
    BY DEF NoCallStranded
  <2> DEFINE q == wire.requests
             a == wire.answers
             S == Call \cup Answer
  <2>1. q \in Seq(S) /\ a \in Seq(S) /\ Len(q) \in Nat /\ Len(a) \in Nat
        /\ DOMAIN q = 1..Len(q) /\ DOMAIN a = 1..Len(a)
    <3>1. q \in Seq(Call) /\ a \in Seq(Answer)
      BY DEF SessionInv, SessionType
    <3>2. q \in [1..Len(q) -> Call] /\ a \in [1..Len(a) -> Answer] /\ Len(q) \in Nat /\ Len(a) \in Nat
      BY <3>1
    <3> QED BY <3>1, <3>2
  <2> HIDE DEF q, a, S
  <2>2. /\ q \o a \in Seq(S) /\ Len(q \o a) = Len(q) + Len(a)
        /\ \A i \in 1..(Len(q) + Len(a)) : (q \o a)[i] = IF i <= Len(q) THEN q[i] ELSE a[i - Len(q)]
    BY <2>1, ConcatProperties
  <2>3. DOMAIN (q \o a) = 1..(Len(q) + Len(a))
    BY <2>1, <2>2
  <2>4. ASSUME NEW r \in DOMAIN q PROVE q[r] \in Range(q \o a)
    <3>1. r \in DOMAIN (q \o a) /\ (q \o a)[r] = q[r]
      BY <2>1, <2>2, <2>3
    <3> QED BY <3>1 DEF Range
  <2>5. ASSUME NEW r \in DOMAIN a PROVE a[r] \in Range(q \o a)
    <3>1. Len(q) + r \in DOMAIN (q \o a) /\ (q \o a)[Len(q) + r] = a[r]
      BY <2>1, <2>2, <2>3
    <3> QED BY <3>1 DEF Range
  <2>6. CASE client.kind = "typescript"
    <3>1. ASSUME NEW c \in Range(calls) PROVE \E l \in Range(q \o a) : l.id = c.id
      <4>1. PICK i \in DOMAIN calls : c = calls[i]
        BY DEF Range
      <4>2. \/ \E r \in DOMAIN q : q[r].id = calls[i].id
            \/ \E r \in DOMAIN a : a[r].id = calls[i].id
        BY <2>6 DEF SessionInv, Awaited, q, a
      <4> QED BY <2>4, <2>5, <4>1, <4>2
    <3> QED BY <2>6, <3>1 DEF SessionInv, Awaited, q, a
  <2>7. CASE client.kind # "typescript"
    <3>1. Len(calls) <= 1 /\ Coming(q, a)
      BY <2>7 DEF SessionInv, InOrder, Awaited, q, a
    <3>2. Len(calls) \in Nat
      BY DEF SessionInv, SessionType
    <3>3. Len(q \o a) >= Len(calls)
      BY <2>1, <2>2, <3>1, <3>2 DEF Coming
    <3> QED BY <2>7, <3>3 DEF SessionInv, Awaited, q, a
  <2> QED BY <2>6, <2>7
<1> QED BY <1>1, SessionAlways, PTL

\* A fetch that the proxy serves goes out with the credential the lease was asked for,
\* unless a call was abandoned before the answer with the lease came: request_lease
\* and fetch of the SDKs, with the proxy's authenticate.
THEOREM AskedTheorem == SessionSpec => []FetchUsesAsked
<1>1. SessionInv => FetchUsesAsked
  <2> SUFFICES ASSUME SessionInv, Fetches, ~held.late
               PROVE  grants[Len(grants)].ref = held.asked
    BY DEF FetchUsesAsked
  <2>1. held # NoHold /\ held.lease = Len(grants)
    BY DEF Fetches, RustFetch, PythonFetch, TypeScriptFetch, WrappedRequest, Proxied, Authenticate
  <2> QED BY <2>1 DEF SessionInv, Honest
<1> QED BY <1>1, SessionAlways, PTL

(***************************************************************************)
(* Glob: the work list computes the declarative definition                 *)
(*                                                                         *)
(* From says that what is left of the path at p matches what is left of    *)
(* the pattern at q.  It holds at a pair the loop accepts; at another pair *)
(* it holds exactly if it holds at one of the pairs pushed for it.  So a   *)
(* pair on the stack that matches means that the whole path does, and the  *)
(* pairs explored are closed under what was pushed: if one of them matched *)
(* and the stack is empty, one closest to both ends would have no pair to  *)
(* match from.                                                             *)
(***************************************************************************)

\* The cuts of what is left of a path of l segments at p, for what is left of a
\* pattern of m segments at q.
CutsOn(p, q, l, m) ==
    {cut \in [q..(m + 1) -> p..(l + 1)] :
        /\ cut[q] = p
        /\ cut[m + 1] = l + 1
        /\ \A i, j \in q..(m + 1) : i <= j => cut[i] <= cut[j]}

FromCuts(path, pat, p, q) == CutsOn(p, q, Len(path), Len(pat))

Covers(path, pat, cut, j) ==
    \/ pat[j] = StarStar
    \/ /\ cut[j + 1] = cut[j] + 1
       /\ pat[j] \in {Star, path[cut[j]]}

From(path, pat, p, q) ==
    \E cut \in FromCuts(path, pat, p, q) : \A j \in q..Len(pat) : Covers(path, pat, cut, j)

Positions(path, pat) == (1..(Len(path) + 1)) \X (1..(Len(pat) + 1))

\* The cut that goes from <<p, q>> on as cut does after q.
Rerouted(cut, p, q, s, m) == [j \in s..(m + 1) |-> IF j = q THEN p ELSE cut[j]]

\* A cut from one of the pairs that may be pushed for <<p, q>> is extended to it.
LEMMA ExtendCut ==
    ASSUME NEW l \in Nat, NEW m \in Nat, NEW p \in 1..l, NEW q \in 1..m,
           NEW r \in {p, p + 1}, NEW s \in {q, q + 1}, NEW cut \in CutsOn(r, s, l, m),
           NEW new, new = Rerouted(cut, p, q, q, m)
    PROVE  /\ new \in CutsOn(p, q, l, m)
           /\ new[q] = p
           /\ \A j \in (q + 1)..(m + 1) : new[j] = cut[j]
<1> USE DEF Rerouted
<1>1. /\ cut \in [s..(m + 1) -> r..(l + 1)]
      /\ cut[m + 1] = l + 1
      /\ \A i, j \in s..(m + 1) : i <= j => cut[i] <= cut[j]
  BY DEF CutsOn
<1>2. \A j \in (q + 1)..(m + 1) : j \in s..(m + 1) /\ cut[j] \in p..(l + 1) /\ new[j] = cut[j]
  <2> SUFFICES ASSUME NEW j \in (q + 1)..(m + 1)
               PROVE  j \in s..(m + 1) /\ cut[j] \in p..(l + 1) /\ new[j] = cut[j]
    OBVIOUS
  <2>1. j \in s..(m + 1) /\ j \in q..(m + 1) /\ j # q
    OBVIOUS
  <2>2. cut[j] \in r..(l + 1)
    BY <1>1, <2>1
  <2>3. cut[j] \in p..(l + 1)
    BY <2>2
  <2> QED BY <2>1, <2>3
<1>3. new[q] = p
  OBVIOUS
<1>4. new \in [q..(m + 1) -> p..(l + 1)]
  <2>1. \A j \in q..(m + 1) : new[j] \in p..(l + 1)
    <3> TAKE j \in q..(m + 1)
    <3>1. CASE j = q
      BY <1>3, <3>1
    <3>2. CASE j # q
      <4>1. j \in (q + 1)..(m + 1)
        BY <3>2
      <4> QED BY <1>2, <4>1
    <3> QED BY <3>1, <3>2
  <2> QED BY <2>1
<1>5. new[m + 1] = l + 1
  BY <1>1, <1>2
<1>6. ASSUME NEW i \in q..(m + 1), NEW j \in q..(m + 1), i <= j PROVE new[i] <= new[j]
  <2>1. CASE i = q
    BY <1>3, <1>4, <2>1
  <2>2. CASE i # q
    <3>1. i \in (q + 1)..(m + 1) /\ j \in (q + 1)..(m + 1)
      BY <1>6, <2>2
    <3> QED BY <1>1, <1>2, <1>6, <3>1
  <2> QED BY <2>1, <2>2
<1> QED BY <1>2, <1>3, <1>4, <1>5, <1>6 DEF CutsOn

\* A cut is restricted to a pair after its first one that it goes through, or moved
\* within its first `**`.
LEMMA RestrictCut ==
    ASSUME NEW l \in Nat, NEW m \in Nat, NEW p \in 1..l, NEW q \in 1..m,
           NEW r \in {p, p + 1}, NEW s \in {q, q + 1}, NEW cut \in CutsOn(p, q, l, m),
           cut[q + 1] >= r, s = q + 1 => cut[q + 1] = r,
           NEW new, new = Rerouted(cut, r, q, s, m)
    PROVE  /\ new \in CutsOn(r, s, l, m)
           /\ \A j \in (q + 1)..(m + 1) : new[j] = cut[j]
<1> USE DEF Rerouted
<1>1. /\ cut \in [q..(m + 1) -> p..(l + 1)]
      /\ cut[m + 1] = l + 1
      /\ \A i, j \in q..(m + 1) : i <= j => cut[i] <= cut[j]
  BY DEF CutsOn
<1>2. \A j \in (q + 1)..(m + 1) : cut[j] \in r..(l + 1) /\ new[j] = cut[j]
  <2> SUFFICES ASSUME NEW j \in (q + 1)..(m + 1)
               PROVE  cut[j] \in r..(l + 1) /\ new[j] = cut[j]
    OBVIOUS
  <2>1. j \in s..(m + 1) /\ j \in q..(m + 1) /\ q + 1 \in q..(m + 1) /\ j # q
    OBVIOUS
  <2>2. cut[j] \in p..(l + 1) /\ cut[q + 1] \in p..(l + 1) /\ cut[q + 1] <= cut[j]
    BY <1>1, <2>1
  <2>3. cut[j] \in r..(l + 1)
    BY <2>2
  <2> QED BY <2>1, <2>3
<1>3. new[s] = r
  <2>1. CASE s = q
    BY <2>1
  <2>2. CASE s = q + 1
    BY <1>2, <2>2
  <2> QED BY <2>1, <2>2
<1>4. new \in [s..(m + 1) -> r..(l + 1)]
  <2>1. \A j \in s..(m + 1) : new[j] \in r..(l + 1)
    <3> TAKE j \in s..(m + 1)
    <3>1. CASE j = s
      BY <1>3, <3>1
    <3>2. CASE j # s
      <4>1. j \in (q + 1)..(m + 1)
        BY <3>2
      <4> QED BY <1>2, <4>1
    <3> QED BY <3>1, <3>2
  <2> QED BY <2>1
<1>5. new[m + 1] = l + 1
  BY <1>1, <1>2
<1>6. ASSUME NEW i \in s..(m + 1), NEW j \in s..(m + 1), i <= j PROVE new[i] <= new[j]
  <2>1. CASE i = s
    BY <1>3, <1>4, <2>1
  <2>2. CASE i # s
    <3>1. i \in (q + 1)..(m + 1) /\ j \in (q + 1)..(m + 1)
      BY <1>6, <2>2
    <3> QED BY <1>1, <1>2, <1>6, <3>1
  <2> QED BY <2>1, <2>2
<1> QED BY <1>2, <1>3, <1>4, <1>5, <1>6 DEF CutsOn

\* The whole path matches the whole pattern if it matches from the first pair on.
LEMMA MatchesIsFrom ==
    ASSUME NEW path \in Seq(STRING), NEW pat \in Seq(STRING)
    PROVE  Matches(path, pat) <=> From(path, pat, 1, 1)
<1>1. Cuts(path, pat) = FromCuts(path, pat, 1, 1)
  BY DEF Cuts, FromCuts, CutsOn
<1> QED BY <1>1 DEF Matches, From, Covers

\* A pair the loop accepts matches: each `**` that is left covers nothing.
LEMMA AcceptingMatches ==
    ASSUME NEW path \in Seq(STRING), NEW pat \in Seq(STRING),
           NEW p \in 1..(Len(path) + 1), NEW q \in 1..(Len(pat) + 1),
           Accepts(path, pat, p, q)
    PROVE  From(path, pat, p, q)
<1>1. p = Len(path) + 1
  BY DEF Accepts, PathDone
<1>2. PICK cut : cut = [j \in q..(Len(pat) + 1) |-> p]
  OBVIOUS
<1>3. cut \in FromCuts(path, pat, p, q)
  BY <1>1, <1>2 DEF FromCuts, CutsOn
<1>4. \A j \in q..Len(pat) : Covers(path, pat, cut, j)
  BY DEF Accepts, Covers
<1> QED BY <1>3, <1>4 DEF From

\* A pair from which a pushed pair matches, matches: `**` at zero segments, `**` at
\* one more, and one segment for one.
LEMMA BackByNone ==
    ASSUME NEW path \in Seq(STRING), NEW pat \in Seq(STRING),
           NEW p \in 1..Len(path), NEW q \in 1..Len(pat),
           pat[q] = StarStar, From(path, pat, p, q + 1)
    PROVE  From(path, pat, p, q)
<1>1. PICK cut \in FromCuts(path, pat, p, q + 1) :
          \A j \in (q + 1)..Len(pat) : Covers(path, pat, cut, j)
  BY DEF From
<1>2. PICK new : new = Rerouted(cut, p, q, q, Len(pat))
  OBVIOUS
<1>3. Len(path) \in Nat /\ Len(pat) \in Nat /\ p \in {p, p + 1} /\ q + 1 \in {q, q + 1}
  OBVIOUS
<1>4. /\ new \in FromCuts(path, pat, p, q)
      /\ new[q] = p
      /\ \A j \in (q + 1)..(Len(pat) + 1) : new[j] = cut[j]
  BY <1>2, <1>3, ExtendCut DEF FromCuts
<1>5. ASSUME NEW j \in q..Len(pat) PROVE Covers(path, pat, new, j)
  <2>1. CASE j = q
    BY <2>1 DEF Covers
  <2>2. CASE j # q
    <3>1. Covers(path, pat, cut, j) /\ new[j] = cut[j] /\ new[j + 1] = cut[j + 1]
      BY <1>1, <1>4, <2>2
    <3> QED BY <3>1 DEF Covers
  <2> QED BY <2>1, <2>2
<1> QED BY <1>4, <1>5 DEF From

LEMMA BackByOneMore ==
    ASSUME NEW path \in Seq(STRING), NEW pat \in Seq(STRING),
           NEW p \in 1..Len(path), NEW q \in 1..Len(pat),
           pat[q] = StarStar, From(path, pat, p + 1, q)
    PROVE  From(path, pat, p, q)
<1>1. PICK cut \in FromCuts(path, pat, p + 1, q) :
          \A j \in q..Len(pat) : Covers(path, pat, cut, j)
  BY DEF From
<1>2. PICK new : new = Rerouted(cut, p, q, q, Len(pat))
  OBVIOUS
<1>3. Len(path) \in Nat /\ Len(pat) \in Nat /\ p + 1 \in {p, p + 1} /\ q \in {q, q + 1}
  OBVIOUS
<1>4. /\ new \in FromCuts(path, pat, p, q)
      /\ new[q] = p
      /\ \A j \in (q + 1)..(Len(pat) + 1) : new[j] = cut[j]
  BY <1>2, <1>3, ExtendCut DEF FromCuts
<1>5. ASSUME NEW j \in q..Len(pat) PROVE Covers(path, pat, new, j)
  <2>1. CASE j = q
    BY <2>1 DEF Covers
  <2>2. CASE j # q
    <3>1. Covers(path, pat, cut, j) /\ new[j] = cut[j] /\ new[j + 1] = cut[j + 1]
      BY <1>1, <1>4, <2>2
    <3> QED BY <3>1 DEF Covers
  <2> QED BY <2>1, <2>2
<1> QED BY <1>4, <1>5 DEF From

LEMMA BackByOne ==
    ASSUME NEW path \in Seq(STRING), NEW pat \in Seq(STRING),
           NEW p \in 1..Len(path), NEW q \in 1..Len(pat),
           pat[q] \in {Star, path[p]}, From(path, pat, p + 1, q + 1)
    PROVE  From(path, pat, p, q)
<1>1. PICK cut \in FromCuts(path, pat, p + 1, q + 1) :
          \A j \in (q + 1)..Len(pat) : Covers(path, pat, cut, j)
  BY DEF From
<1>2. PICK new : new = Rerouted(cut, p, q, q, Len(pat))
  OBVIOUS
<1>3. Len(path) \in Nat /\ Len(pat) \in Nat /\ p + 1 \in {p, p + 1} /\ q + 1 \in {q, q + 1}
  OBVIOUS
<1>4. /\ new \in FromCuts(path, pat, p, q)
      /\ new[q] = p
      /\ \A j \in (q + 1)..(Len(pat) + 1) : new[j] = cut[j]
  BY <1>2, <1>3, ExtendCut DEF FromCuts
<1>5. ASSUME NEW j \in q..Len(pat) PROVE Covers(path, pat, new, j)
  <2>1. CASE j = q
    <3>1. new[j] = p /\ new[j + 1] = p + 1
      BY <1>1, <1>4, <2>1 DEF FromCuts, CutsOn
    <3> QED BY <3>1, <2>1 DEF Covers
  <2>2. CASE j # q
    <3>1. Covers(path, pat, cut, j) /\ new[j] = cut[j] /\ new[j + 1] = cut[j + 1]
      BY <1>1, <1>4, <2>2
    <3> QED BY <3>1 DEF Covers
  <2> QED BY <2>1, <2>2
<1> QED BY <1>4, <1>5 DEF From

\* A pair that matches and is not accepted has both a segment and a pattern segment
\* left.
LEMMA MatchingGoesOn ==
    ASSUME NEW path \in Seq(STRING), NEW pat \in Seq(STRING),
           NEW p \in 1..(Len(path) + 1), NEW q \in 1..(Len(pat) + 1),
           From(path, pat, p, q), ~Accepts(path, pat, p, q)
    PROVE  p <= Len(path) /\ q <= Len(pat)
<1>1. PICK cut \in FromCuts(path, pat, p, q) : \A j \in q..Len(pat) : Covers(path, pat, cut, j)
  BY DEF From
<1>2. CASE q = Len(pat) + 1
  <2>1. p = Len(path) + 1
    BY <1>1, <1>2 DEF FromCuts, CutsOn
  <2> QED BY <2>1, <1>2 DEF Accepts, PathDone
<1>3. CASE p = Len(path) + 1
  <2>1. ASSUME NEW j \in q..Len(pat) PROVE pat[j] = StarStar
    <3>0. /\ cut[j] \in p..(Len(path) + 1) /\ cut[j + 1] \in p..(Len(path) + 1)
          /\ Len(path) \in Nat
      BY <1>1 DEF FromCuts, CutsOn
    <3>1. cut[j] = p /\ cut[j + 1] = p
      BY <1>3, <3>0
    <3> QED BY <3>1, <1>1 DEF Covers
  <2> QED BY <2>1, <1>3 DEF Accepts, PathDone
<1> QED BY <1>2, <1>3

\* From a pair that matches at a `**`, one of the two pushed pairs matches.
LEMMA OnFromStarStar ==
    ASSUME NEW path \in Seq(STRING), NEW pat \in Seq(STRING),
           NEW p \in 1..Len(path), NEW q \in 1..Len(pat),
           pat[q] = StarStar, From(path, pat, p, q)
    PROVE  From(path, pat, p, q + 1) \/ From(path, pat, p + 1, q)
<1>1. PICK cut \in FromCuts(path, pat, p, q) : \A j \in q..Len(pat) : Covers(path, pat, cut, j)
  BY DEF From
<1>2. cut[q + 1] \in p..(Len(path) + 1)
  BY DEF FromCuts, CutsOn
<1>3. CASE cut[q + 1] = p
  <2>1. PICK new : new = Rerouted(cut, p, q, q + 1, Len(pat))
    OBVIOUS
  <2>2. /\ new \in FromCuts(path, pat, p, q + 1)
        /\ \A j \in (q + 1)..(Len(pat) + 1) : new[j] = cut[j]
    <3>1. /\ Len(path) \in Nat /\ Len(pat) \in Nat /\ p \in {p, p + 1} /\ q + 1 \in {q, q + 1}
          /\ cut[q + 1] >= p
      BY <1>3
    <3> QED BY <1>3, <2>1, <3>1, RestrictCut DEF FromCuts
  <2>3. ASSUME NEW j \in (q + 1)..Len(pat) PROVE Covers(path, pat, new, j)
    <3>1. Covers(path, pat, cut, j) /\ new[j] = cut[j] /\ new[j + 1] = cut[j + 1]
      BY <1>1, <2>2
    <3> QED BY <3>1 DEF Covers
  <2> QED BY <2>2, <2>3 DEF From
<1>4. CASE cut[q + 1] # p
  <2>1. PICK new : new = Rerouted(cut, p + 1, q, q, Len(pat))
    OBVIOUS
  <2>2. cut[q + 1] >= p + 1
    BY <1>2, <1>4
  <2>3. /\ new \in FromCuts(path, pat, p + 1, q)
        /\ \A j \in (q + 1)..(Len(pat) + 1) : new[j] = cut[j]
    <3>1. /\ Len(path) \in Nat /\ Len(pat) \in Nat /\ p + 1 \in {p, p + 1} /\ q \in {q, q + 1}
          /\ q # q + 1
      OBVIOUS
    <3> QED BY <2>1, <2>2, <3>1, RestrictCut DEF FromCuts
  <2>4. ASSUME NEW j \in q..Len(pat) PROVE Covers(path, pat, new, j)
    <3>1. CASE j = q
      BY <3>1 DEF Covers
    <3>2. CASE j # q
      <4>1. Covers(path, pat, cut, j) /\ new[j] = cut[j] /\ new[j + 1] = cut[j + 1]
        BY <1>1, <2>3, <3>2
      <4> QED BY <4>1 DEF Covers
    <3> QED BY <3>1, <3>2
  <2> QED BY <2>3, <2>4 DEF From
<1> QED BY <1>3, <1>4

\* From a pair that matches elsewhere, the segments agree and the next pair matches.
LEMMA OnFromSegment ==
    ASSUME NEW path \in Seq(STRING), NEW pat \in Seq(STRING),
           NEW p \in 1..Len(path), NEW q \in 1..Len(pat),
           pat[q] # StarStar, From(path, pat, p, q)
    PROVE  pat[q] \in {Star, path[p]} /\ From(path, pat, p + 1, q + 1)
<1>1. PICK cut \in FromCuts(path, pat, p, q) : \A j \in q..Len(pat) : Covers(path, pat, cut, j)
  BY DEF From
<1>2. cut[q] = p /\ cut[q + 1] = p + 1 /\ pat[q] \in {Star, path[p]}
  BY <1>1 DEF FromCuts, CutsOn, Covers
<1>3. PICK new : new = Rerouted(cut, p + 1, q, q + 1, Len(pat))
  OBVIOUS
<1>4. /\ Len(path) \in Nat /\ Len(pat) \in Nat /\ p + 1 \in {p, p + 1} /\ q + 1 \in {q, q + 1}
      /\ cut[q + 1] >= p + 1
  BY <1>2
<1>5. /\ new \in FromCuts(path, pat, p + 1, q + 1)
      /\ \A j \in (q + 1)..(Len(pat) + 1) : new[j] = cut[j]
  BY <1>2, <1>3, <1>4, RestrictCut DEF FromCuts
<1>6. ASSUME NEW j \in (q + 1)..Len(pat) PROVE Covers(path, pat, new, j)
  <2>1. Covers(path, pat, cut, j) /\ new[j] = cut[j] /\ new[j + 1] = cut[j + 1]
    BY <1>1, <1>5
  <2> QED BY <2>1 DEF Covers
<1> QED BY <1>2, <1>5, <1>6 DEF From

\* The pairs pushed for a pair lie within the positions, closer to the ends.
LEMMA SuccessorsType ==
    ASSUME NEW path \in Seq(STRING), NEW pat \in Seq(STRING),
           NEW p \in 1..(Len(path) + 1), NEW q \in 1..(Len(pat) + 1)
    PROVE  /\ Successors(path, pat, p, q) \in Seq(Positions(path, pat))
           /\ Len(Successors(path, pat, p, q)) <= 2
           /\ \A i \in 1..Len(Successors(path, pat, p, q)) :
                LET t == Successors(path, pat, p, q)[i] IN
                /\ t[1] \in {p, p + 1} /\ t[2] \in {q, q + 1}
                /\ t[1] + t[2] > p + q
<1>1. CASE Successors(path, pat, p, q) = <<>>
  BY <1>1
<1>2. CASE Successors(path, pat, p, q) # <<>>
  <2>1. p + 1 \in 1..(Len(path) + 1) /\ q + 1 \in 1..(Len(pat) + 1)
    BY <1>2 DEF Successors, PathDone, PatDone
  <2>2. /\ <<p, q + 1>> \in Positions(path, pat) /\ <<p + 1, q>> \in Positions(path, pat)
        /\ <<p + 1, q + 1>> \in Positions(path, pat)
    BY <2>1 DEF Positions
  <2>3. CASE Successors(path, pat, p, q) = <<<<p, q + 1>>, <<p + 1, q>>>>
    BY <2>2, <2>3
  <2>4. CASE Successors(path, pat, p, q) = <<<<p + 1, q + 1>>>>
    BY <2>2, <2>4
  <2> QED BY <1>2, <2>3, <2>4 DEF Successors
<1> QED BY <1>1, <1>2

\* The pairs of a work list.
Listed(list) == {list[i] : i \in 1..Len(list)}

\* A pair matches if a pushed pair does.
LEMMA BackFromSuccessor ==
    ASSUME NEW path \in Seq(STRING), NEW pat \in Seq(STRING),
           NEW p \in 1..(Len(path) + 1), NEW q \in 1..(Len(pat) + 1),
           NEW t \in Listed(Successors(path, pat, p, q)), From(path, pat, t[1], t[2])
    PROVE  From(path, pat, p, q)
<1>1. Successors(path, pat, p, q) # <<>>
  BY DEF Listed
<1>2. p \in 1..Len(path) /\ q \in 1..Len(pat)
  BY <1>1 DEF Successors, PathDone, PatDone
<1>3. CASE pat[q] = StarStar
  <2>1. Successors(path, pat, p, q) = <<<<p, q + 1>>, <<p + 1, q>>>>
    BY <1>1, <1>3 DEF Successors
  <2>2. t = <<p, q + 1>> \/ t = <<p + 1, q>>
    BY <2>1 DEF Listed
  <2> QED BY <1>2, <1>3, <2>2, BackByNone, BackByOneMore
<1>4. CASE pat[q] # StarStar
  <2>1. Successors(path, pat, p, q) = <<<<p + 1, q + 1>>>> /\ pat[q] \in {Star, path[p]}
    BY <1>1, <1>4 DEF Successors
  <2>2. t = <<p + 1, q + 1>>
    BY <2>1 DEF Listed
  <2> QED BY <1>2, <2>1, <2>2, BackByOne
<1> QED BY <1>3, <1>4

\* A pair that matches and is not accepted has pushed one that matches.
LEMMA OnToSuccessor ==
    ASSUME NEW path \in Seq(STRING), NEW pat \in Seq(STRING),
           NEW p \in 1..(Len(path) + 1), NEW q \in 1..(Len(pat) + 1),
           From(path, pat, p, q), ~Accepts(path, pat, p, q)
    PROVE  \E t \in Listed(Successors(path, pat, p, q)) : From(path, pat, t[1], t[2])
<1>1. p \in 1..Len(path) /\ q \in 1..Len(pat)
  BY MatchingGoesOn
<1>2. ~PathDone(path, p) /\ ~PatDone(pat, q)
  BY <1>1 DEF PathDone, PatDone
<1>3. CASE pat[q] = StarStar
  <2>1. Successors(path, pat, p, q) = <<<<p, q + 1>>, <<p + 1, q>>>>
    BY <1>2, <1>3 DEF Successors
  <2>2. <<p, q + 1>> \in Listed(Successors(path, pat, p, q))
        /\ <<p + 1, q>> \in Listed(Successors(path, pat, p, q))
    BY <2>1 DEF Listed
  <2>3. From(path, pat, p, q + 1) \/ From(path, pat, p + 1, q)
    BY <1>1, <1>3, OnFromStarStar
  <2> QED BY <2>2, <2>3
<1>4. CASE pat[q] # StarStar
  <2>1. pat[q] \in {Star, path[p]} /\ From(path, pat, p + 1, q + 1)
    BY <1>1, <1>4, OnFromSegment
  <2>2. Successors(path, pat, p, q) = <<<<p + 1, q + 1>>>>
    BY <1>2, <1>4, <2>1 DEF Successors
  <2>3. <<p + 1, q + 1>> \in Listed(Successors(path, pat, p, q))
    BY <2>2 DEF Listed
  <2> QED BY <2>1, <2>3
<1> QED BY <1>3, <1>4

GlobType ==
    /\ subject \in Seq(STRING) /\ pattern \in Seq(STRING)
    /\ stack \in Seq(Positions(subject, pattern))
    /\ visited \in SUBSET Positions(subject, pattern)
    /\ verdict \in {"open", "match", "miss"}

\* Everything explored has been expanded, and what it pushed is explored or listed.
Explored ==
    /\ <<1, 1>> \in visited \cup Listed(stack)
    /\ \A v \in visited :
        /\ ~Accepts(subject, pattern, v[1], v[2])
        /\ Listed(Successors(subject, pattern, v[1], v[2])) \subseteq visited \cup Listed(stack)

\* What is listed is part of a match, if it matches.
ListedSound ==
    \A t \in Listed(stack) : From(subject, pattern, t[1], t[2]) => From(subject, pattern, 1, 1)

VerdictRight ==
    /\ verdict = "open" => Explored
    /\ verdict = "match" => From(subject, pattern, 1, 1)
    /\ verdict = "miss" => ~From(subject, pattern, 1, 1)

\* Each pair explored pushed at most two, and each round pops one.
RoundsPaid ==
    /\ rounds \in Nat
    /\ IsFiniteSet(visited)
    /\ rounds + Len(stack) <= 1 + 2 * Cardinality(visited)

GlobInv == GlobType /\ ListedSound /\ VerdictRight /\ RoundsPaid

\* The pairs of a list whose last one is popped.
LEMMA ListedPopped ==
    ASSUME NEW S, NEW list \in Seq(S), list # <<>>
    PROVE  /\ SubSeq(list, 1, Len(list) - 1) \in Seq(S)
           /\ Len(SubSeq(list, 1, Len(list) - 1)) = Len(list) - 1
           /\ list[Len(list)] \in S
           /\ Listed(list) = Listed(SubSeq(list, 1, Len(list) - 1)) \cup {list[Len(list)]}
<1>1. PICK rest : rest = SubSeq(list, 1, Len(list) - 1)
  OBVIOUS
<1>2. /\ rest \in Seq(S) /\ Len(rest) = Len(list) - 1 /\ list[Len(list)] \in S
      /\ \A i \in 1..(Len(list) - 1) : rest[i] = list[i]
  <2>1. Len(list) \in Nat \ {0} /\ Len(list) - 1 \in Nat
    BY EmptySeq
  <2>2. \A i \in 1..(Len(list) - 1) : list[i] \in S
    OBVIOUS
  <2>3. rest = [i \in 1..(Len(list) - 1) |-> list[i]]
    BY <1>1, <2>1
  <2> QED BY <2>1, <2>2, <2>3
<1>3. Listed(list) = Listed(rest) \cup {list[Len(list)]}
  BY <1>2 DEF Listed
<1> QED BY <1>1, <1>2, <1>3

\* The pairs of a list that is extended.
LEMMA ListedJoined ==
    ASSUME NEW S, NEW list \in Seq(S), NEW more \in Seq(S)
    PROVE  /\ list \o more \in Seq(S)
           /\ Len(list \o more) = Len(list) + Len(more)
           /\ Listed(list \o more) = Listed(list) \cup Listed(more)
<1>1. Listed(list \o more) \subseteq Listed(list) \cup Listed(more)
  BY DEF Listed
<1>2. ASSUME NEW i \in 1..Len(list) PROVE list[i] \in Listed(list \o more)
  <2>1. i \in 1..Len(list \o more) /\ (list \o more)[i] = list[i]
    OBVIOUS
  <2> QED BY <2>1 DEF Listed
<1>3. ASSUME NEW i \in 1..Len(more) PROVE more[i] \in Listed(list \o more)
  <2>1. Len(list) + i \in 1..Len(list \o more) /\ (list \o more)[Len(list) + i] = more[i]
    OBVIOUS
  <2> QED BY <2>1 DEF Listed
<1>4. Listed(list) \cup Listed(more) \subseteq Listed(list \o more)
  BY <1>2, <1>3 DEF Listed
<1> QED BY <1>1, <1>4

\* A round leaves the positions and the work list typed.
LEMMA TopType ==
    ASSUME GlobType, Pop
    PROVE  /\ Rest \in Seq(Positions(subject, pattern)) /\ Len(Rest) = Len(stack) - 1
           /\ Listed(stack) = Listed(Rest) \cup {Top}
           /\ Top \in Positions(subject, pattern)
           /\ Top[1] \in 1..(Len(subject) + 1) /\ Top[2] \in 1..(Len(pattern) + 1)
           /\ Top = <<Top[1], Top[2]>>
<1>1. /\ Rest \in Seq(Positions(subject, pattern)) /\ Len(Rest) = Len(stack) - 1
      /\ Listed(stack) = Listed(Rest) \cup {Top}
      /\ Top \in Positions(subject, pattern)
  BY ListedPopped DEF Pop, GlobType, Rest, Top
<1> QED BY <1>1 DEF Positions

\* A pair that was explored already is dropped.
LEMMA GlobInvPopSeen ==
    ASSUME GlobInv, PopSeen
    PROVE  GlobInv'
<1>1. /\ Rest \in Seq(Positions(subject, pattern)) /\ Len(Rest) = Len(stack) - 1
      /\ Listed(stack) = Listed(Rest) \cup {Top}
  BY TopType DEF GlobInv, PopSeen
<1>2. PICK rest, top : rest = Rest /\ top = Top
  OBVIOUS
<1>3. /\ stack' = rest /\ rounds' = rounds + 1 /\ top \in visited /\ verdict = "open"
      /\ UNCHANGED <<subject, pattern, visited, verdict>>
  BY <1>2 DEF PopSeen, Pop, Seen
<1>4. /\ rest \in Seq(Positions(subject, pattern)) /\ Len(rest) = Len(stack) - 1
      /\ Listed(stack) = Listed(rest) \cup {top}
  BY <1>1, <1>2
<1>5. GlobType'
  BY <1>3, <1>4 DEF GlobInv, GlobType
<1>6. ListedSound'
  BY <1>3, <1>4 DEF GlobInv, ListedSound, Listed
<1>7. visited \cup Listed(stack) = visited \cup Listed(rest)
  BY <1>3, <1>4
<1>8. Explored'
  BY <1>3, <1>7 DEF GlobInv, VerdictRight, Explored, Listed
<1>9. RoundsPaid'
  <2>1. Len(stack) \in Nat
    BY DEF GlobInv, GlobType
  <2> QED BY <1>3, <1>4, <2>1, FS_CardinalityType DEF GlobInv, RoundsPaid
<1> QED BY <1>3, <1>5, <1>6, <1>8, <1>9 DEF GlobInv, VerdictRight

\* An accepted pair matches, so the path does.
LEMMA GlobInvPopAccepting ==
    ASSUME GlobInv, PopAccepting
    PROVE  GlobInv'
<1>1. /\ Rest \in Seq(Positions(subject, pattern)) /\ Len(Rest) = Len(stack) - 1
      /\ Listed(stack) = Listed(Rest) \cup {Top}
      /\ Top \in Positions(subject, pattern)
      /\ Top[1] \in 1..(Len(subject) + 1) /\ Top[2] \in 1..(Len(pattern) + 1)
  BY TopType DEF GlobInv, PopAccepting
<1>2. PICK rest, top : rest = Rest /\ top = Top
  OBVIOUS
<1>3. /\ stack' = rest /\ rounds' = rounds + 1 /\ top \notin visited /\ verdict' = "match"
      /\ visited' = visited \cup {top} /\ Accepts(subject, pattern, top[1], top[2])
      /\ UNCHANGED <<subject, pattern>>
  BY <1>2 DEF PopAccepting, Pop, Seen
<1>4. /\ rest \in Seq(Positions(subject, pattern)) /\ Len(rest) = Len(stack) - 1
      /\ Listed(stack) = Listed(rest) \cup {top} /\ top \in Positions(subject, pattern)
      /\ top[1] \in 1..(Len(subject) + 1) /\ top[2] \in 1..(Len(pattern) + 1)
  BY <1>1, <1>2
<1>5. GlobType'
  BY <1>3, <1>4 DEF GlobInv, GlobType
<1>6. ListedSound'
  BY <1>3, <1>4 DEF GlobInv, ListedSound, Listed
<1>7. From(subject, pattern, 1, 1)
  <2>1. From(subject, pattern, top[1], top[2])
    BY <1>3, <1>4, AcceptingMatches DEF GlobInv, GlobType
  <2> QED BY <1>4, <2>1 DEF GlobInv, ListedSound
<1>8. RoundsPaid'
  <2>1. Len(stack) \in Nat /\ Cardinality(visited) \in Nat
    BY FS_CardinalityType DEF GlobInv, GlobType, RoundsPaid
  <2>2. IsFiniteSet(visited') /\ Cardinality(visited') = Cardinality(visited) + 1
    BY <1>3, FS_AddElement DEF GlobInv, RoundsPaid
  <2> QED BY <1>3, <1>4, <2>1, <2>2 DEF GlobInv, RoundsPaid
<1>9. VerdictRight'
  BY <1>3, <1>7 DEF VerdictRight
<1> QED BY <1>5, <1>6, <1>8, <1>9 DEF GlobInv

\* A pair that is expanded is explored, and what it pushes is listed.
LEMMA GlobInvPopExpanding ==
    ASSUME GlobInv, PopExpanding
    PROVE  GlobInv'
<1>1. /\ Rest \in Seq(Positions(subject, pattern)) /\ Len(Rest) = Len(stack) - 1
      /\ Listed(stack) = Listed(Rest) \cup {Top}
      /\ Top \in Positions(subject, pattern)
      /\ Top[1] \in 1..(Len(subject) + 1) /\ Top[2] \in 1..(Len(pattern) + 1)
  BY TopType DEF GlobInv, PopExpanding
<1>2. PICK rest, top, more :
        rest = Rest /\ top = Top /\ more = Successors(subject, pattern, top[1], top[2])
  OBVIOUS
<1>3. /\ stack' = rest \o more /\ rounds' = rounds + 1 /\ top \notin visited
      /\ verdict = "open" /\ verdict' = "open"
      /\ visited' = visited \cup {top} /\ ~Accepts(subject, pattern, top[1], top[2])
      /\ UNCHANGED <<subject, pattern>>
  BY <1>2 DEF PopExpanding, Pop, Seen
<1>4. /\ rest \in Seq(Positions(subject, pattern)) /\ Len(rest) = Len(stack) - 1
      /\ Listed(stack) = Listed(rest) \cup {top} /\ top \in Positions(subject, pattern)
      /\ top[1] \in 1..(Len(subject) + 1) /\ top[2] \in 1..(Len(pattern) + 1)
  BY <1>1, <1>2
<1>5. more \in Seq(Positions(subject, pattern)) /\ Len(more) <= 2
  BY <1>2, <1>4, SuccessorsType DEF GlobInv, GlobType
<1>6. /\ rest \o more \in Seq(Positions(subject, pattern))
      /\ Len(rest \o more) = Len(rest) + Len(more)
      /\ Listed(rest \o more) = Listed(rest) \cup Listed(more)
  BY <1>4, <1>5, ListedJoined
<1>7. GlobType'
  BY <1>3, <1>4, <1>6 DEF GlobInv, GlobType
<1>8. ListedSound'
  <2>1. ASSUME NEW t \in Listed(rest \o more), From(subject, pattern, t[1], t[2])
        PROVE  From(subject, pattern, 1, 1)
    <3>1. CASE t \in Listed(rest)
      BY <1>4, <2>1, <3>1 DEF GlobInv, ListedSound
    <3>2. CASE t \in Listed(more)
      <4>1. From(subject, pattern, top[1], top[2])
        BY <1>2, <1>4, <2>1, <3>2, BackFromSuccessor DEF GlobInv, GlobType
      <4> QED BY <1>4, <4>1 DEF GlobInv, ListedSound
    <3> QED BY <1>6, <3>1, <3>2
  <2>2. Listed(stack)' = Listed(rest \o more)
    BY <1>3 DEF Listed
  <2> QED BY <1>3, <2>1, <2>2 DEF ListedSound
<1>9. Explored'
  <2>1. Listed(stack)' = Listed(rest) \cup Listed(more)
    BY <1>3, <1>6 DEF Listed
  <2>2. visited \cup Listed(stack) \cup Listed(more) = (visited \cup Listed(stack))'
    BY <1>3, <1>4, <2>1
  <2>3. <<1, 1>> \in (visited \cup Listed(stack))'
    BY <1>3, <2>2 DEF GlobInv, VerdictRight, Explored
  <2>4. ASSUME NEW v \in visited'
        PROVE  /\ ~Accepts(subject, pattern, v[1], v[2])
               /\ Listed(Successors(subject, pattern, v[1], v[2])) \subseteq (visited \cup Listed(stack))'
    <3>1. CASE v \in visited
      BY <1>3, <2>2, <3>1 DEF GlobInv, VerdictRight, Explored
    <3>2. CASE v = top
      BY <1>2, <1>3, <2>2, <3>2
    <3> QED BY <1>3, <3>1, <3>2
  <2>5. UNCHANGED <<subject, pattern>>
    BY <1>3
  <2>6. \A v \in visited' : /\ ~Accepts(subject', pattern', v[1], v[2])
                            /\ Listed(Successors(subject', pattern', v[1], v[2]))
                                 \subseteq (visited \cup Listed(stack))'
    BY <2>4, <2>5
  <2> QED BY <2>3, <2>6 DEF Explored, Listed, Accepts, Successors, PathDone, PatDone
<1>10. RoundsPaid'
  <2>1. Len(stack) \in Nat /\ Cardinality(visited) \in Nat /\ Len(more) \in Nat
    BY <1>5, FS_CardinalityType DEF GlobInv, GlobType, RoundsPaid
  <2>2. IsFiniteSet(visited') /\ Cardinality(visited') = Cardinality(visited) + 1
    BY <1>3, FS_AddElement DEF GlobInv, RoundsPaid
  <2> QED BY <1>3, <1>4, <1>5, <1>6, <2>1, <2>2 DEF GlobInv, RoundsPaid
<1> QED BY <1>3, <1>7, <1>8, <1>9, <1>10 DEF GlobInv, VerdictRight

\* When the list is empty no explored pair matches: one that is closest to the ends
\* would have pushed a pair that matches, and that is explored too.
LEMMA ExploredMiss ==
    ASSUME GlobType, Explored, stack = <<>>
    PROVE  ~From(subject, pattern, 1, 1)
<1> SUFFICES ASSUME From(subject, pattern, 1, 1) PROVE FALSE
  OBVIOUS
<1>1. Listed(stack) = {}
  BY DEF Listed
<1> DEFINE left(v) == (Len(subject) + 1 - v[1]) + (Len(pattern) + 1 - v[2])
           matching == {v \in visited : From(subject, pattern, v[1], v[2])}
           lefts == {left(v) : v \in matching}
<1>2. /\ \A v \in visited : v[1] \in 1..(Len(subject) + 1) /\ v[2] \in 1..(Len(pattern) + 1)
      /\ Len(subject) \in Nat /\ Len(pattern) \in Nat
  BY DEF GlobType, Positions
<1>3. <<1, 1>> \in matching
  BY <1>1 DEF Explored
<1>4. lefts \in SUBSET Nat /\ lefts # {}
  BY <1>2, <1>3
<1>5. PICK n \in lefts : \A k \in lefts : n <= k
  <2> HIDE DEF lefts
  <2> QED BY <1>4, LeastInSet
<1>6. PICK v \in matching : n = left(v)
  BY <1>5
<1>7. PICK t \in Listed(Successors(subject, pattern, v[1], v[2])) : From(subject, pattern, t[1], t[2])
  BY <1>2, <1>6, OnToSuccessor DEF Explored, GlobType
<1>8. t \in visited
  BY <1>1, <1>6, <1>7 DEF Explored
<1>9. t[1] + t[2] > v[1] + v[2]
  BY <1>2, <1>6, <1>7, SuccessorsType DEF Listed, GlobType
<1>10. t \in matching
  BY <1>7, <1>8
<1>11. left(t) \in lefts
  BY <1>10
<1>12. v \in visited
  BY <1>6
<1>13. left(t) < left(v)
  <2>1. /\ t[1] \in 1..(Len(subject) + 1) /\ t[2] \in 1..(Len(pattern) + 1)
        /\ v[1] \in 1..(Len(subject) + 1) /\ v[2] \in 1..(Len(pattern) + 1)
    BY <1>2, <1>8, <1>12
  <2>2. PICK a, b, c, d : a = t[1] /\ b = t[2] /\ c = v[1] /\ d = v[2]
    OBVIOUS
  <2>3. /\ a \in Int /\ b \in Int /\ c \in Int /\ d \in Int /\ a + b > c + d
    BY <1>9, <2>1, <2>2
  <2>4. (Len(subject) + 1 - a) + (Len(pattern) + 1 - b) < (Len(subject) + 1 - c) + (Len(pattern) + 1 - d)
    BY <1>2, <2>3
  <2> QED BY <2>2, <2>4
<1> HIDE DEF left, lefts
<1>14. left(v) <= left(t)
  BY <1>5, <1>6, <1>11
<1>15. left(v) \in Nat /\ left(t) \in Nat
  BY <1>4, <1>5, <1>6, <1>11
<1> QED BY <1>13, <1>14, <1>15

\* The invariant of the work list holds throughout.
LEMMA GlobInvariant == GlobSpec => []GlobInv
<1>1. GlobInit => GlobInv
  <2> SUFFICES ASSUME GlobInit PROVE GlobInv
    OBVIOUS
  <2>1. subject \in Seq(STRING) /\ pattern \in Seq(STRING)
    BY GlobAssumption DEF GlobInit
  <2>2. <<1, 1>> \in Positions(subject, pattern)
    BY <2>1 DEF Positions
  <2>3. stack \in Seq(Positions(subject, pattern)) /\ Len(stack) = 1 /\ Listed(stack) = {<<1, 1>>}
    BY <2>2 DEF GlobInit, Listed
  <2>4. GlobType
    BY <2>1, <2>3 DEF GlobInit, GlobType
  <2>5. ListedSound
    BY <2>3 DEF ListedSound
  <2>6. VerdictRight
    BY <2>3 DEF GlobInit, VerdictRight, Explored
  <2>7. RoundsPaid
    BY <2>3, FS_EmptySet DEF GlobInit, RoundsPaid
  <2> QED BY <2>4, <2>5, <2>6, <2>7 DEF GlobInv
<1>2. GlobInv /\ [GlobNext]_globVars => GlobInv'
  <2> SUFFICES ASSUME GlobInv, [GlobNext]_globVars PROVE GlobInv'
    OBVIOUS
  <2>1. CASE RunDry
    <3>1. ~From(subject, pattern, 1, 1)
      BY <2>1, ExploredMiss DEF RunDry, GlobInv, VerdictRight
    <3>2. UNCHANGED <<subject, pattern, stack, visited, rounds>> /\ verdict' = "miss"
      BY <2>1 DEF RunDry
    <3>3. GlobType' /\ ListedSound' /\ RoundsPaid'
      BY <3>2 DEF GlobInv, GlobType, ListedSound, RoundsPaid, Listed
    <3>4. VerdictRight'
      BY <3>1, <3>2 DEF VerdictRight
    <3> QED BY <3>3, <3>4 DEF GlobInv
  <2>2. CASE UNCHANGED globVars
    <3>1. UNCHANGED <<subject, pattern, stack, visited, rounds, verdict>>
      BY <2>2 DEF globVars
    <3>2. GlobType' /\ ListedSound' /\ RoundsPaid'
      BY <3>1 DEF GlobInv, GlobType, ListedSound, RoundsPaid, Listed
    <3>3. Explored' <=> Explored
      BY <3>1 DEF Explored, Listed
    <3>4. VerdictRight'
      BY <3>1, <3>3 DEF GlobInv, VerdictRight
    <3> QED BY <3>2, <3>4 DEF GlobInv
  <2> QED BY <2>1, <2>2, GlobInvPopSeen, GlobInvPopAccepting, GlobInvPopExpanding DEF GlobNext
<1> QED BY <1>1, <1>2, PTL DEF GlobSpec

\* For every path and pattern, of any length, matches_segs returns what the
\* declarative definition says, and has by then taken at most one round more than
\* twice the product of the lengths plus one each, its bound "even for pathological
\* patterns" (glob.rs).
THEOREM GlobTheorem == GlobSpec => []GlobRight
<1>1. GlobInv => GlobRight
  <2> SUFFICES ASSUME GlobInv PROVE GlobRight
    OBVIOUS
  <2>1. verdict # "open" => (verdict = "match" <=> Matches(subject, pattern))
    BY MatchesIsFrom DEF GlobInv, GlobType, VerdictRight
  <2>2. PICK l \in Nat, m \in Nat : l = Len(subject) + 1 /\ m = Len(pattern) + 1
    BY DEF GlobInv, GlobType
  <2>3. IsFiniteSet(1..l) /\ Cardinality(1..l) = l /\ IsFiniteSet(1..m) /\ Cardinality(1..m) = m
    BY FS_Interval
  <2>4. /\ IsFiniteSet(Positions(subject, pattern))
        /\ Cardinality(Positions(subject, pattern)) = l * m
    <3>1. Positions(subject, pattern) = (1..l) \X (1..m)
      BY <2>2 DEF Positions
    <3> HIDE <2>2
    <3>2. IsFiniteSet((1..l) \X (1..m)) /\ Cardinality((1..l) \X (1..m)) = Cardinality(1..l) * Cardinality(1..m)
      BY <2>3, FS_Product, Zenon
    <3> QED BY <2>3, <3>1, <3>2
  <2>5. Cardinality(visited) <= l * m /\ Cardinality(visited) \in Nat
    BY <2>4, FS_Subset, FS_CardinalityType DEF GlobInv, GlobType
  <2>6. rounds <= 2 * (l * m) + 1
    <3>1. Len(stack) \in Nat /\ rounds \in Nat /\ rounds + Len(stack) <= 1 + 2 * Cardinality(visited)
      BY DEF GlobInv, GlobType, RoundsPaid
    <3>2. PICK k \in Nat : k = l * m
      OBVIOUS
    <3> QED BY <2>5, <3>1, <3>2
  <2>7. 2 * (l * m) = 2 * l * m
    OBVIOUS
  <2> QED BY <2>1, <2>2, <2>6, <2>7 DEF GlobRight
<1> QED BY <1>1, GlobInvariant, PTL

=============================================================================
