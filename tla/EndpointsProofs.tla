--------------------------- MODULE EndpointsProofs ---------------------------
(***************************************************************************)
(* For any declarations, any machine and any number of callers: nobody is  *)
(* terminated who was not in the way, and an audit that nobody disturbs    *)
(* says what is so.                                                        *)
(*                                                                         *)
(* The first follows from where holders come from: whatever the tables     *)
(* name for a claim has held it (HoldersMet).  The second needs what a     *)
(* thread holds at each point of a pass, since a bind is refused by its    *)
(* own sockets too (InHand), and that what an undisturbed pass has found   *)
(* stays so until it ends (FoundIsSo).                                     *)
(***************************************************************************)
EXTENDS Endpoints, SequenceTheorems, WellFoundedInduction, TLAPS

-----------------------------------------------------------------------------
(***************************************************************************)
(* What is declared is a sequence.                                         *)
(***************************************************************************)
LEMMA Least ==
  ASSUME NEW T, T \subseteq Nat, T # {}
  PROVE  \E n \in T : \A k \in T : n <= k
<1>1. \E n \in T : \A k \in T : <<k, n>> \notin OpToRel(<, Nat)
  BY NatLessThanWellFounded, WFMin
<1>2. \A k, n \in Nat : k < n => <<k, n>> \in OpToRel(<, Nat)
  BY DEF OpToRel
<1>3. \A k, n \in Nat : n <= k \/ k < n
  OBVIOUS
<1>4. QED
  BY <1>1, <1>2, <1>3

LEMMA Induction ==
  ASSUME NEW T, NEW m \in Nat, 0 \in T, \A n \in 1..m : n - 1 \in T => n \in T
  PROVE  m \in T
<1> DEFINE Bad == {n \in 0..m : n \notin T}
<1> SUFFICES ASSUME Bad # {} PROVE FALSE
  OBVIOUS
<1>1. PICK n \in Bad : \A k \in Bad : n <= k
  <2>1. Bad \subseteq Nat
    OBVIOUS
  <2> HIDE DEF Bad
  <2>2. QED
    BY <2>1, Least
<1>2. n \in 1..m /\ n - 1 \in 0..m /\ ~(n <= n - 1)
  BY <1>1
<1>3. QED
  BY <1>1, <1>2

\* A walk along what [Ports] lists that keeps what can be read.
Reads(w, s, n) ==
  /\ w[0] = <<>>
  /\ \A k \in 1..n : w[k] = IF Readable(s[k]) THEN Append(w[k - 1], s[k]) ELSE w[k - 1]

LEMMA ReadExists ==
  ASSUME NEW S, NEW s \in Seq(S)
  PROVE  \E w \in [0..Len(s) -> Seq(S)] : Reads(w, s, Len(s))
<1> DEFINE B == {n \in 0..Len(s) : \E w \in [0..n -> Seq(S)] : Reads(w, s, n)}
<1>1. 0 \in B
  <2> DEFINE z == [k \in 0..0 |-> <<>>]
  <2>1. z \in [0..0 -> Seq(S)] /\ Reads(z, s, 0)
    BY DEF Reads
  <2>2. 0 \in 0..Len(s)
    OBVIOUS
  <2> HIDE DEF z
  <2>3. QED
    BY <2>1, <2>2
<1>2. ASSUME NEW n \in 1..Len(s), n - 1 \in B PROVE n \in B
  <2>1. PICK w \in [0..(n - 1) -> Seq(S)] : Reads(w, s, n - 1)
    BY <1>2
  <2> DEFINE v == [k \in 0..n |-> IF k < n THEN w[k]
                                  ELSE IF Readable(s[n]) THEN Append(w[n - 1], s[n]) ELSE w[n - 1]]
  <2>2. n \in 0..Len(s) /\ n - 1 \in 0..(n - 1) /\ s[n] \in S
    OBVIOUS
  <2>3. v \in [0..n -> Seq(S)]
    BY <2>2
  <2>4. Reads(v, s, n)
    <3>1. 0 \in 0..(n - 1) /\ v[0] = w[0]
      OBVIOUS
    <3>2. ASSUME NEW k \in 1..n
          PROVE  v[k] = IF Readable(s[k]) THEN Append(v[k - 1], s[k]) ELSE v[k - 1]
      <4>1. k - 1 \in 0..(n - 1) /\ v[k - 1] = w[k - 1]
        OBVIOUS
      <4>2. CASE k = n
        BY <4>1, <4>2
      <4>3. CASE k # n
        <5>1. k \in 1..(n - 1) /\ v[k] = w[k]
          BY <4>3
        <5>2. QED
          BY <2>1, <4>1, <5>1 DEF Reads
      <4>4. QED
        BY <4>2, <4>3
    <3> HIDE DEF v
    <3>3. QED
      BY <2>1, <3>1, <3>2 DEF Reads
  <2> HIDE DEF v
  <2>5. QED
    BY <2>2, <2>3, <2>4
<1> HIDE DEF B
<1>3. Len(s) \in B
  <2>1. \A n \in 1..Len(s) : n - 1 \in B => n \in B
    BY <1>2
  <2>2. Len(s) \in Nat
    OBVIOUS
  <2>3. QED
    BY <1>1, <2>1, <2>2, Induction
<1>4. QED
  BY <1>3 DEF B

LEMMA ClaimsRead ==
  ASSUME NEW declared, declared.ports \in Seq(Entries)
  PROVE  LoadPortClaims(declared) \in Seq(Entries)
<1> DEFINE s == declared.ports
           Goes(w) == w = [n \in 0..Len(s) |->
                             IF n = 0 THEN <<>>
                             ELSE IF Readable(s[n]) THEN Append(w[n - 1], s[n]) ELSE w[n - 1]]
           w == CHOOSE w : Goes(w)
<1>1. PICK v \in [0..Len(s) -> Seq(Entries)] : Reads(v, s, Len(s))
  BY ReadExists
<1>2. Goes(v)
  <2>1. ASSUME NEW n \in 0..Len(s)
        PROVE  v[n] = IF n = 0 THEN <<>>
                      ELSE IF Readable(s[n]) THEN Append(v[n - 1], s[n]) ELSE v[n - 1]
    <3>1. n = 0 \/ n \in 1..Len(s)
      OBVIOUS
    <3>2. QED
      BY <1>1, <3>1 DEF Reads
  <2>2. QED
    BY <2>1
<1>3. Goes(w)
  BY <1>2
<1>4. LoadPortClaims(declared) = w[Len(s)]
  BY DEF LoadPortClaims
<1> DEFINE G == {n \in 0..Len(s) : w[n] \in Seq(Entries)}
<1>5. \A n \in 0..Len(s) : w[n] = IF n = 0 THEN <<>>
                             ELSE IF Readable(s[n]) THEN Append(w[n - 1], s[n]) ELSE w[n - 1]
  BY <1>3
<1> HIDE DEF w
<1>6. 0 \in G
  <2>1. 0 \in 0..Len(s) /\ <<>> \in Seq(Entries)
    OBVIOUS
  <2>2. QED
    BY <1>5, <2>1
<1>7. ASSUME NEW n \in 1..Len(s), n - 1 \in G PROVE n \in G
  <2>1. n \in 0..Len(s) /\ n # 0 /\ w[n - 1] \in Seq(Entries) /\ s[n] \in Entries
    BY <1>7
  <2>2. w[n] = IF Readable(s[n]) THEN Append(w[n - 1], s[n]) ELSE w[n - 1]
    BY <1>5, <2>1
  <2>3. w[n] \in Seq(Entries)
    BY <2>1, <2>2, AppendProperties
  <2>4. QED
    BY <2>1, <2>3
<1> HIDE DEF G
<1>8. Len(s) \in G
  <2>1. \A n \in 1..Len(s) : n - 1 \in G => n \in G
    BY <1>7
  <2>2. Len(s) \in Nat
    OBVIOUS
  <2>3. QED
    BY <1>6, <2>1, <2>2, Induction
<1>9. QED
  BY <1>4, <1>8 DEF G

LEMMA RequiredAreClaims ==
  ASSUME EndpointsAssumption, NEW s \in Scenarios
  PROVE  RequiredPorts(s.declared) \in Seq(Entries)
<1> DEFINE d == s.declared
           listed == [i \in DOMAIN d.listeners |-> Exclusively(d.listeners[i])]
<1>1. LoadPortClaims(d) \in Seq(Entries)
  BY ClaimsRead DEF EndpointsAssumption
<1>2. listed \in Seq(Entries)
  <2>1. d.listeners \in Seq(Listeners)
    BY DEF EndpointsAssumption
  <2>2. DOMAIN d.listeners = 1..Len(d.listeners) /\ Len(d.listeners) \in Nat
    BY <2>1
  <2>3. ASSUME NEW i \in 1..Len(d.listeners) PROVE Exclusively(d.listeners[i]) \in Entries
    <3>1. d.listeners[i] \in Listeners
      BY <2>1
    <3>2. QED
      BY <3>1 DEF Exclusively, Entries, Listeners, Modes
  <2>4. QED
    BY <2>2, <2>3
<1>3. <<Exclusively(LoadResolverEndpoint(d))>> \in Seq(Entries)
  <2>1. d.resolver \in Texts
    BY DEF EndpointsAssumption
  <2>2. Exclusively(LoadResolverEndpoint(d)) \in Entries
    BY <2>1 DEF Exclusively, LoadResolverEndpoint, Entries, Texts, Literals, V4, V6, Modes
  <2>3. QED
    BY <2>2
<1> HIDE DEF listed
<1>4. LoadPortClaims(d) \o listed \in Seq(Entries)
  BY <1>1, <1>2
<1>5. QED
  BY <1>3, <1>4 DEF RequiredPorts, listed

-----------------------------------------------------------------------------
(***************************************************************************)
(* Claims, holders and binds.                                              *)
(***************************************************************************)
LEMMA LegsOfAClaim ==
  ASSUME NEW i
  PROVE  /\ Len(Legs(i)) \in {1, 2} /\ DOMAIN Legs(i) = 1..Len(Legs(i))
         /\ \A k \in DOMAIN Legs(i) : Legs(i)[k] \in {"tcp", "udp"}
         /\ Len(Legs(i)) = 2 => Legs(i)[1] = "tcp" /\ Legs(i)[2] = "udp"
<1>1. Legs(i) = <<"tcp">> \/ Legs(i) = <<"udp">> \/ Legs(i) = <<"tcp", "udp">>
  BY DEF Legs
<1>2. QED
  BY <1>1

LEMMA ClaimsNumbered ==
  ASSUME TypeOK
  PROVE  Claims \subseteq Nat /\ Claims = 1..Len(claims) /\ Len(claims) \in Nat
BY DEF TypeOK, Claims

LEMMA FirstOfSome ==
  ASSUME TypeOK, NEW todo \in SUBSET Claims, todo # {}
  PROVE  Min(todo) \in todo
<1>1. todo \subseteq Nat
  BY ClaimsNumbered
<1>2. \E n \in todo : \A k \in todo : n <= k
  BY <1>1, Least
<1>3. QED
  BY <1>2 DEF Min

\* Whoever the tables name for a claim holds something of it.
LEMMA BlockersHold ==
  ASSUME NEW s, NEW i, Meets(s, i), ConflictsWith(s.address, Claim(i).address)
  PROVE  Holds(s, i)
<1> DEFINE h == s.address
           c == Claim(i).address
<1>1. CASE c \in V4 /\ h = "any6"
  BY <1>1 DEF Holds, Covers, V4
<1>2. CASE {h, c} \subseteq V4 /\ (h = c \/ {h, c} \cap Wildcards # {})
  BY <1>2 DEF Holds, Covers, V4, Wildcards
<1>3. CASE {h, c} \subseteq V6 /\ (h = c \/ {h, c} \cap Wildcards # {})
  BY <1>3 DEF Holds, Covers, V6, Wildcards
<1>4. QED
  BY <1>1, <1>2, <1>3 DEF ConflictsWith

LEMMA BlockersMet ==
  ASSUME EndpointsAssumption, TypeOK, HoldersMet, NEW i \in Claims
  PROVE  BlockersOf(i) \subseteq met \cup {Self} /\ BlockersOf(i) \subseteq Processes
<1> SUFFICES ASSUME NEW s \in sockets, Meets(s, i), ConflictsWith(s.address, Claim(i).address)
             PROVE  PidOf(s) \in met \cup {Self} /\ PidOf(s) \in Processes
  BY DEF BlockersOf
<1>1. s.by \in Threads \cup {Self} \cup met
  BY BlockersHold DEF HoldersMet
<1>2. s.by \in Processes \cup Threads
  BY DEF TypeOK, SocketsOf
<1>3. QED
  BY <1>1, <1>2 DEF PidOf, Processes

\* A bind that succeeds meets nobody, one that says "in use" meets somebody.
LEMMA BoundMeetsNobody ==
  ASSUME NEW i, NEW t
  PROVE  TryBindOne(i, t) = "bound" <=>
           /\ Claim(i).address \in Literals \cap LocalAddresses
           /\ Claim(i).port \notin ExcludedPorts
           /\ \A s \in sockets : ~Refuses(s, i, t)
<1> DEFINE address == Claim(i).address
           refusing == {s \in sockets : Refuses(s, i, t)}
           error == IF Claim(i).port \in ExcludedPorts THEN "access"
                    ELSE IF refusing = {} THEN "bound"
                    ELSE IF \E s \in refusing : s.listed /\ Denies(s, i) THEN "access"
                    ELSE "inuse"
<1>1. Status(i, error) = "bound" <=> error = "bound"
  BY DEF Status
<1>2. error = "bound" <=> Claim(i).port \notin ExcludedPorts /\ refusing = {}
  OBVIOUS
<1>3. refusing = {} <=> \A s \in sockets : ~Refuses(s, i, t)
  OBVIOUS
<1>4. TryBindOne(i, t) = CASE address \notin Literals -> "notaliteral"
                           [] address \in Literals \ LocalAddresses -> "notlocal"
                           [] OTHER -> Status(i, error)
  BY DEF TryBindOne
<1> HIDE DEF error, refusing
<1>5. QED
  BY <1>1, <1>2, <1>3, <1>4

LEMMA InUseMeetsSomebody ==
  ASSUME HoldersMet, NEW i, NEW t, TryBindOne(i, t) = "inuse"
  PROVE  \E s \in sockets : Refuses(s, i, t)
<1> DEFINE address == Claim(i).address
           refusing == {s \in sockets : Refuses(s, i, t)}
           error == IF Claim(i).port \in ExcludedPorts THEN "access"
                    ELSE IF refusing = {} THEN "bound"
                    ELSE IF \E s \in refusing : s.listed /\ Denies(s, i) THEN "access"
                    ELSE "inuse"
<1>1. TryBindOne(i, t) = CASE address \notin Literals -> "notaliteral"
                           [] address \in Literals \ LocalAddresses -> "notlocal"
                           [] OTHER -> Status(i, error)
  BY DEF TryBindOne
<1>2. Claim(i).port \in ExcludedPorts => BlockersOf(i) = {}
  BY DEF BlockersOf, Meets, HoldersMet
<1>3. Status(i, error) = IF error = "access" THEN IF BlockersOf(i) # {} THEN "inuse" ELSE "unavailable"
                         ELSE error
  BY DEF Status
<1>4. refusing # {} \/ Claim(i).port \in ExcludedPorts \/ error = "bound"
  OBVIOUS
<1>5. Claim(i).port \in ExcludedPorts => error = "access"
  OBVIOUS
<1>6. refusing # {} => \E s \in sockets : Refuses(s, i, t)
  OBVIOUS
<1> HIDE DEF error, refusing
<1>7. QED
  BY <1>1, <1>2, <1>3, <1>4, <1>5, <1>6

LEMMA TryBindOneType ==
  ASSUME NEW i, NEW t
  PROVE  TryBindOne(i, t) \in {"bound", "inuse", "notaliteral", "notlocal", "unavailable"}
BY DEF TryBindOne, Status

\* The processes a kill reaches.
LEMMA TreesGrow ==
  ASSUME NEW S, NEW T, S \subseteq T
  PROVE  Trees(S) \subseteq Trees(T)
BY DEF Trees, Children

LEMMA TreeOfOne ==
  ASSUME EndpointsAssumption, NEW p, NEW q \in CollectTree(p)
  PROVE  q \in Trees({p}) /\ (p = Self => q = Self) /\ q \in Others \cup {p}
<1>1. q \in Trees({p})
  BY DEF CollectTree, Trees, Children
<1>2. q \in Others \cup {p}
  BY DEF CollectTree, Children
<1>3. ASSUME p = Self PROVE q = Self
  <2>1. Self # Nobody /\ Self \notin Others
    BY DEF EndpointsAssumption
  <2>2. \A c \in Others : ParentOf[c] \in Others \cup {Nobody}
    BY DEF EndpointsAssumption
  <2>3. Children({Self}) = {}
    BY <2>1, <2>2 DEF Children
  <2>4. Children({Self} \cup Children({Self})) = {}
    BY <2>3
  <2>5. QED
    BY <1>3, <2>3, <2>4 DEF CollectTree
<1>4. QED
  BY <1>1, <1>2, <1>3
-----------------------------------------------------------------------------
(***************************************************************************)
(* Types.                                                                  *)
(***************************************************************************)
Outcomes == {"bound", "inuse", "notaliteral", "notlocal", "unavailable"}

LEMMA NothingFound ==
  [i \in {} |-> "none"] \in Findings
<1>1. [i \in {} |-> "none"] \in [{} -> Outcomes]
  OBVIOUS
<1>2. {} \in SUBSET Claims
  OBVIOUS
<1>3. QED
  BY <1>1, <1>2 DEF Findings, Outcomes

LEMMA IdleTyped ==
  ASSUME TypeOK
  PROVE  Idle \in PassStates
<1>1. 0 \in 0..Len(claims)
  BY ClaimsNumbered
<1>2. QED
  BY <1>1, NothingFound DEF Idle, PassStates

IsPass(p, r, todo, keep) ==
  /\ p \in PassStates
  /\ p.pc = r.pc /\ p.victims = r.victims /\ p.held = r.held /\ p.claim = r.claim
  /\ p.todo = todo /\ p.keep = keep /\ p.leg = 1 /\ DOMAIN p.found = {}
  /\ p.sub = IF todo = {} THEN "ended" ELSE "bind"

LEMMA PassTyped ==
  ASSUME NEW r \in PassStates, NEW todo \in SUBSET Claims, NEW keep \in BOOLEAN
  PROVE  IsPass(Pass(r, todo, keep), r, todo, keep)
BY NothingFound DEF IsPass, Pass, PassStates

LEMMA EnteredTyped ==
  ASSUME TypeOK, NEW r \in PassStates, NEW pc \in {"done", "asking", "lock", "unlock", "http",
                                               "launch", "free"}
  PROVE  /\ Entered(r, pc) \in PassStates
         /\ Entered(r, pc).pc = pc /\ Entered(r, pc).victims = {} /\ Entered(r, pc).held = {}
         /\ Entered(r, pc).leg = 1 /\ Entered(r, pc).sub = "none" /\ Entered(r, pc).todo = {}
<1>1. /\ Idle \in PassStates /\ Idle.victims = {} /\ Idle.held = {} /\ Idle.leg = 1
      /\ Idle.sub = "none" /\ Idle.todo = {}
  BY IdleTyped DEF Idle
<1>2. r.call \in {"none", "interactive", "quiet", "stop"} /\ r.claim \in 0..Len(claims)
      /\ r.answer \in {"none", "notasked", "yes", "no"}
  BY DEF PassStates
<1>3. Entered(r, pc) \in PassStates
  BY <1>1, <1>2, ZenonT(30) DEF Entered, PassStates
<1>4. QED
  BY <1>1, <1>3 DEF Entered, PassStates

IsConcluded(c, r, i, status) ==
  /\ c \in PassStates
  /\ c.pc = r.pc /\ c.victims = r.victims /\ c.held = r.held /\ c.claim = r.claim
  /\ c.todo = r.todo \ {i} /\ c.keep = r.keep /\ c.leg = 1 /\ c.calm = r.calm
  /\ DOMAIN c.found = DOMAIN r.found \cup {i} /\ c.found[i] = status
  /\ \A j \in DOMAIN r.found \ {i} : c.found[j] = r.found[j]
  /\ c.sub = Rest(r, i)

LEMMA MovesOn ==
  ASSUME NEW r \in PassStates, NEW f \in Findings, NEW todo \in SUBSET Claims,
         NEW sub \in {"bind", "close"}
  PROVE  [r EXCEPT !.found = f, !.todo = todo, !.leg = 1, !.sub = sub] \in PassStates
BY DEF PassStates

LEMMA ConcludedTyped ==
  ASSUME NEW r \in PassStates, NEW i \in Claims, NEW status \in Outcomes
  PROVE  IsConcluded(Concluded(r, i, status), r, i, status)
<1> DEFINE f == [j \in DOMAIN r.found \cup {i} |-> IF j = i THEN status ELSE r.found[j]]
<1>1. PICK tried \in SUBSET Claims : r.found \in [tried -> Outcomes]
  BY DEF PassStates, Findings, Outcomes
<1>2. f \in [tried \cup {i} -> Outcomes]
  BY <1>1
<1>3. f \in Findings
  <2>1. tried \cup {i} \in SUBSET Claims
    OBVIOUS
  <2>2. QED
    BY <1>2, <2>1 DEF Findings, Outcomes
<1>4. Concluded(r, i, status)
        = [r EXCEPT !.found = f, !.todo = r.todo \ {i}, !.leg = 1, !.sub = Rest(r, i)]
  BY DEF Concluded, PassStates
<1>5. DOMAIN f = DOMAIN r.found \cup {i} /\ f[i] = status /\ \A j \in DOMAIN r.found \ {i} : f[j] = r.found[j]
  OBVIOUS
<1>6. Rest(r, i) \in {"bind", "close"}
  BY DEF Rest
<1> HIDE DEF f
<1>7. Concluded(r, i, status) \in PassStates
  <2>1. r.todo \ {i} \in SUBSET Claims
    BY DEF PassStates
  <2>2. [r EXCEPT !.found = f, !.todo = r.todo \ {i}, !.leg = 1, !.sub = Rest(r, i)] \in PassStates
    BY <1>3, <1>6, <2>1, MovesOn, Zenon
  <2>3. QED
    BY <1>4, <2>2
<1> DEFINE c == Concluded(r, i, status)
<1>8. /\ c.pc = r.pc /\ c.victims = r.victims /\ c.held = r.held /\ c.claim = r.claim
      /\ c.todo = r.todo \ {i} /\ c.keep = r.keep /\ c.leg = 1 /\ c.calm = r.calm
      /\ c.found = f /\ c.sub = Rest(r, i)
  BY ONLY <1>4, r \in PassStates DEF PassStates
<1>9. QED
  BY <1>5, <1>7, <1>8 DEF IsConcluded

LEMMA DisturbedTyped ==
  ASSUME NEW f \in [Threads -> PassStates], NEW t
  PROVE  /\ Disturbed(f, t) \in [Threads -> PassStates]
         /\ \A u \in Threads :
              \/ Disturbed(f, t)[u] = f[u]
              \/ /\ u # t /\ Disturbed(f, t)[u] = [f[u] EXCEPT !.calm = FALSE]
                 /\ sockets' # sockets /\ f[u].pc \in Audits
<1>1. ASSUME NEW u \in Threads PROVE [f[u] EXCEPT !.calm = FALSE] \in PassStates
  <2>1. f[u] \in PassStates
    OBVIOUS
  <2> DEFINE r == f[u]
  <2> HIDE DEF r
  <2>2. ASSUME r \in PassStates PROVE [r EXCEPT !.calm = FALSE] \in PassStates
    BY ONLY <2>2 DEF PassStates
  <2>3. QED
    BY <2>1, <2>2 DEF r
<1>2. QED
  BY <1>1 DEF Disturbed

-----------------------------------------------------------------------------
(***************************************************************************)
(* Every variable has its type.                                            *)
(***************************************************************************)
LEMMA TypeInit ==
  ASSUME EndpointsAssumption, Init
  PROVE  TypeOK
<1>1. PICK s \in Scenarios : claims = RequiredPorts(s.declared) /\ sockets = s.open
  BY DEF Init
<1>2. claims \in Seq(Entries)
  BY <1>1, RequiredAreClaims
<1>3. sockets \subseteq SocketsOf(Others \cup {System})
  BY <1>1 DEF EndpointsAssumption
<1>4. sockets \subseteq SocketsOf(Processes \cup Threads) /\ met \subseteq Processes
  <2>1. \A x \in sockets : x.by \in Others \cup {System}
    BY <1>3 DEF SocketsOf
  <2>2. \A x \in SocketsOf(Others \cup {System}) : x \in SocketsOf(Processes \cup Threads)
    BY DEF SocketsOf, Processes
  <2>3. QED
    BY <1>3, <2>1, <2>2 DEF Init, Holding, Processes
<1>5. Idle \in PassStates
  <2>1. 0 \in 0..Len(claims)
    BY <1>2
  <2>2. QED
    BY <2>1, NothingFound DEF Idle, PassStates
<1>6. th \in [Threads -> PassStates]
  BY <1>5 DEF Init
<1>7. killed = {} /\ opMx = Nobody /\ up = FALSE
  BY DEF Init
<1>8. moves \in 0..MaxMoves
  BY DEF Init, EndpointsAssumption
<1>9. killed \subseteq Threads \X Processes /\ opMx \in Starters \cup {Nobody} /\ up \in BOOLEAN
  BY <1>7
<1>10. met \subseteq Processes \cup Threads
  BY <1>4
<1>11. QED
  BY <1>2, <1>4, <1>6, <1>8, <1>9, <1>10 DEF TypeOK

\* While the claims stay, so do the states a thread may be in.
LEMMA StatesStay ==
  ASSUME claims' = claims
  PROVE  /\ Claims' = Claims /\ Findings' = Findings /\ PassStates' = PassStates
         /\ \A i : Claim(i)' = Claim(i) /\ Legs(i)' = Legs(i)
BY DEF Claims, Findings, PassStates, Claim, Legs

LEMMA StepTyped ==
  ASSUME TypeOK, NEW t \in Threads, NEW r \in PassStates, Step(t, r)
  PROVE  TypeOK'
<1>1. th' \in [Threads -> PassStates]
  BY DEF Step, TypeOK
<1>2. QED
  BY <1>1, StatesStay DEF Step, TypeOK

LEMMA ProbesTyped ==
  ASSUME TypeOK, NEW t, NEW i \in Claims, NEW leg \in {"tcp", "udp"}
  PROVE  /\ Probe(t, i, leg) \in SocketsOf({t})
         /\ Probe(t, i, leg).by = t /\ Probe(t, i, leg).of = i
         /\ Probe(t, i, leg).transport = leg /\ Probe(t, i, leg).port = Claim(i).port
         /\ Probe(t, i, leg).address = Claim(i).address /\ Probe(t, i, leg).mode = Claim(i).mode
<1>1. claims[i] \in Entries /\ i \in Nat
  BY ClaimsNumbered DEF TypeOK, Claims
<1>2. QED
  BY <1>1 DEF Probe, Claim, Entries, SocketsOf

LEMMA MoreSockets ==
  ASSUME NEW A, NEW B, A \subseteq B
  PROVE  SocketsOf(A) \subseteq SocketsOf(B)
BY DEF SocketsOf

-----------------------------------------------------------------------------
(***************************************************************************)
(* A step of one thread: what it leaves to the others, and the invariant.  *)
(***************************************************************************)
Sound ==
  /\ TypeOK /\ VictimsInTheWay /\ HoldersMet /\ OnlyThoseInTheWay /\ PassesInOrder

Undisturbed(u) ==
  \/ th'[u] = th[u] /\ (sockets' = sockets \/ th[u].pc \notin Audits)
  \/ th'[u] = [th[u] EXCEPT !.calm = FALSE]

\* t alone moves on, to r.
Turn(t, r) ==
  /\ claims' = claims /\ moves' = moves /\ met' = met
  /\ th' \in [Threads -> PassStates] /\ th'[t] = r
  /\ \A u \in Threads \ {t} : Undisturbed(u)

LEMMA TurnOf ==
  ASSUME EndpointsAssumption, TypeOK,
         NEW t \in Threads, NEW r \in PassStates, NEW x \in {t, Nobody},
         th' = Disturbed([th EXCEPT ![t] = r], x), x = t \/ r.pc \notin Audits,
         claims' = claims, moves' = moves, met' = met
  PROVE  Turn(t, r)
<1> DEFINE f == [th EXCEPT ![t] = r]
<1>1. f \in [Threads -> PassStates] /\ f[t] = r /\ \A u \in Threads \ {t} : f[u] = th[u]
  BY DEF TypeOK
<1>2. \A u \in Threads :
        th'[u] = IF u = x \/ sockets' = sockets \/ f[u].pc \notin Audits THEN f[u]
                 ELSE [f[u] EXCEPT !.calm = FALSE]
  BY DEF Disturbed
<1>3. th' \in [Threads -> PassStates]
  BY <1>1, DisturbedTyped
<1> HIDE DEF f
<1>4. th'[t] = r
  BY <1>1, <1>2
<1>5. ASSUME NEW u \in Threads \ {t} PROVE Undisturbed(u)
  <2>1. f[u] = th[u]
    BY <1>1
  <2>2. CASE u # x
    BY <1>2, <2>1, <2>2 DEF Undisturbed
  <2>3. u # x
    BY DEF EndpointsAssumption, Threads
  <2>4. QED
    BY <2>2, <2>3
<1>6. QED
  BY <1>3, <1>4, <1>5 DEF Turn

LEMMA StepIsTurn ==
  ASSUME TypeOK, NEW t \in Threads, NEW r \in PassStates, Step(t, r)
  PROVE  Turn(t, r) /\ TypeOK'
<1>1. th' \in [Threads -> PassStates] /\ th'[t] = r /\ \A u \in Threads \ {t} : th'[u] = th[u]
  BY DEF Step, TypeOK
<1>2. QED
  BY <1>1, StepTyped DEF Step, Turn, Undisturbed

\* A thread whose sockets stay and whose pass goes on where it was.
LEMMA HandStays ==
  ASSUME NEW t \in Threads, InHand(t), claims' = claims, Own(t)' = Own(t),
         th'[t].todo = th[t].todo, th'[t].leg = th[t].leg, th'[t].sub = th[t].sub,
         th'[t].held = th[t].held, th'[t].keep = th[t].keep
  PROVE  InHand(t)'
BY StatesStay DEF InHand

LEMMA OthersKept ==
  ASSUME TypeOK, NEW u \in Threads, InHand(u), FoundIsSo(u), claims' = claims,
         Own(u)' = Own(u), Undisturbed(u)
  PROVE  InHand(u)' /\ FoundIsSo(u)'
<1> DEFINE r == th[u]
<1>1. r \in PassStates
  BY DEF TypeOK
<1>2. CASE th'[u] = th[u] /\ (sockets' = sockets \/ th[u].pc \notin Audits)
  <2>1. InHand(u)'
    BY <1>2, HandStays
  <2>2. CASE th[u].pc \notin Audits
    BY <1>2, <2>2, <2>1 DEF FoundIsSo
  <2>3. CASE sockets' = sockets
    <3>1. /\ \A i, leg : FreeLeg(u, i, leg)' = FreeLeg(u, i, leg)
          /\ \A i : Free(u, i)' = Free(u, i) /\ Taken(u, i)' = Taken(u, i)
          /\ Claims' = Claims
      BY <2>3, StatesStay DEF FreeLeg, Free, Taken, Refuses, Holds, Meets, Own, Claim, Legs
    <3>2. FoundIsSo(u)'
      BY <1>2, <3>1 DEF FoundIsSo
    <3>3. QED
      BY <2>1, <3>2
  <2>4. QED
    BY <1>2, <2>2, <2>3
<1>3. CASE th'[u] = [th[u] EXCEPT !.calm = FALSE]
  <2>1. /\ th'[u].todo = r.todo /\ th'[u].leg = r.leg /\ th'[u].sub = r.sub
        /\ th'[u].held = r.held /\ th'[u].keep = r.keep /\ th'[u].calm = FALSE
    <3> HIDE DEF r
    <3>1. th'[u] = [r EXCEPT !.calm = FALSE]
      BY <1>3 DEF r
    <3>2. QED
      BY ONLY <1>1, <3>1 DEF PassStates
  <2>2. InHand(u)'
    BY <2>1, HandStays
  <2>3. FoundIsSo(u)'
    BY <2>1 DEF FoundIsSo
  <2>4. QED
    BY <2>2, <2>3
<1>4. QED
  BY <1>2, <1>3 DEF Undisturbed

LEMMA TurnKeeps ==
  ASSUME Sound, NEW t \in Threads, NEW r \in PassStates, Turn(t, r),
         TypeOK', Pursues(t, r), HoldersMet', OnlyThoseInTheWay', killed \subseteq killed',
         Alive(Self)' => /\ InHand(t)' /\ FoundIsSo(t)'
                         /\ \A u \in Threads \ {t} : Own(u)' = Own(u)
  PROVE  Sound'
<1>1. VictimsInTheWay'
  <2>1. ASSUME NEW u \in Threads PROVE Pursues(u, th[u])'
    <3>1. CASE u = t
      BY <3>1 DEF Pursues, Turn
    <3>2. CASE u # t
      <4>1. Undisturbed(u)
        BY <3>2 DEF Turn
      <4>2. th[u] \in PassStates /\ Pursues(u, th[u])
        BY DEF Sound, TypeOK, VictimsInTheWay
      <4>3. /\ th'[u].pc = th[u].pc /\ th'[u].sub = th[u].sub
            /\ th'[u].victims = th[u].victims /\ th'[u].claim = th[u].claim
        BY <4>1, <4>2 DEF Undisturbed, PassStates
      <4>4. met' = met
        BY DEF Turn
      <4>5. QED
        BY <4>2, <4>3, <4>4 DEF Pursues
    <3>3. QED
      BY <3>1, <3>2
  <2>2. QED
    BY <2>1 DEF VictimsInTheWay
<1>2. PassesInOrder'
  <2>1. SUFFICES ASSUME Alive(Self)', NEW u \in Threads PROVE InHand(u)' /\ FoundIsSo(u)'
    BY DEF PassesInOrder
  <2>2. Alive(Self)
    BY <2>1 DEF Alive
  <2>3. InHand(u) /\ FoundIsSo(u)
    BY <2>2 DEF Sound, PassesInOrder
  <2>4. CASE u = t
    BY <2>1, <2>4
  <2>5. CASE u # t
    <3>1. Undisturbed(u) /\ claims' = claims /\ Own(u)' = Own(u)
      BY <2>1, <2>5 DEF Turn
    <3>2. QED
      BY <2>3, <3>1, OthersKept DEF Sound
  <2>6. QED
    BY <2>4, <2>5
<1>3. QED
  BY <1>1, <1>2 DEF Sound

-----------------------------------------------------------------------------
(***************************************************************************)
(* Between passes, and at the beginning of one.                            *)
(***************************************************************************)
Rests(r) == r.sub = "none" /\ r.leg = 1 /\ r.held = {} /\ r.pc \notin Audits
Begins(r) ==
  /\ r.sub = (IF r.todo = {} THEN "ended" ELSE "bind") /\ r.leg = 1 /\ r.held = {}
  /\ DOMAIN r.found = {}
  /\ r.pc \in Audits => r.todo = Claims

LEMMA FreshInOrder ==
  ASSUME TypeOK', NEW t \in Threads, claims' = claims, Own(t)' = {},
         Rests(th'[t]) \/ Begins(th'[t])
  PROVE  InHand(t)' /\ FoundIsSo(t)'
<1> DEFINE r == th'[t]
<1>1. \A i : Len(Legs(i)) >= 1
  BY LegsOfAClaim
<1>2. CASE Rests(r)
  BY <1>2 DEF Rests, InHand, FoundIsSo
<1>3. CASE Begins(r)
  <2>1. InHand(t)'
    BY <1>1, <1>3, StatesStay DEF Begins, InHand
  <2>2. FoundIsSo(t)'
    BY <1>3, StatesStay DEF Begins, FoundIsSo
  <2>3. QED
    BY <2>1, <2>2
<1>4. QED
  BY <1>2, <1>3

LEMMA NothingHeld ==
  ASSUME Sound, NEW t \in Threads, Alive(Self), th[t].sub \in {"none", "ended"}
  PROVE  Own(t) = {} /\ th[t].held = {} /\ th[t].leg = 1
BY DEF Sound, PassesInOrder, InHand

\* A step that only moves the thread on.
LEMMA StepKeeps ==
  ASSUME Sound, NEW t \in Threads, NEW r \in PassStates, Step(t, r), Alive(Self),
         th[t].sub \in {"none", "ended"}, Pursues(t, r), Rests(r) \/ Begins(r)
  PROVE  Sound'
<1>1. Turn(t, r) /\ TypeOK'
  BY StepIsTurn DEF Sound
<1>2. /\ claims' = claims /\ sockets' = sockets /\ killed' = killed /\ met' = met
      /\ \A u : Own(u)' = Own(u)
  BY DEF Step, Own
<1>3. InHand(t)' /\ FoundIsSo(t)'
  BY <1>1, <1>2, NothingHeld, FreshInOrder DEF Turn
<1>4. HoldersMet' /\ OnlyThoseInTheWay'
  <2>1. HoldersMet'
    BY <1>2, StatesStay DEF Sound, HoldersMet, Holds, Meets, Claim, Claims
  <2>2. OnlyThoseInTheWay'
    BY <1>2 DEF Sound, OnlyThoseInTheWay
  <2>3. QED
    BY <2>1, <2>2
<1>5. QED
  BY <1>1, <1>2, <1>3, <1>4, TurnKeeps

LEMMA EnteredKeeps ==
  ASSUME Sound, NEW t \in Threads, Alive(Self), t # MainThread,
         NEW pc \in {"done", "asking", "lock", "unlock", "http", "launch", "free"},
         th[t].sub \in {"none", "ended"}, Step(t, Entered(th[t], pc))
  PROVE  Sound'
<1>1. th[t] \in PassStates
  BY DEF Sound, TypeOK
<1> DEFINE r == Entered(th[t], pc)
<1>2. /\ r \in PassStates /\ r.pc = pc /\ r.victims = {} /\ r.held = {}
      /\ r.leg = 1 /\ r.sub = "none"
  BY <1>1, EnteredTyped DEF Sound
<1> HIDE DEF r
<1>3. Pursues(t, r)
  BY <1>2 DEF Pursues
<1>4. Rests(r)
  BY <1>2 DEF Rests, Audits
<1>5. Step(t, r)
  BY DEF r
<1>6. QED
  BY <1>2, <1>3, <1>4, <1>5, StepKeeps

\* The beginning of a pass over all the claims.
LEMMA WholePass ==
  ASSUME TypeOK, NEW r \in PassStates, r.held = {}
  PROVE  /\ CanBindAll(r) \in PassStates /\ Begins(CanBindAll(r))
         /\ CanBindAll(r).pc = r.pc /\ CanBindAll(r).victims = r.victims
         /\ CanBindAll(r).claim = r.claim
<1>1. Claims \in SUBSET Claims /\ TRUE \in BOOLEAN
  OBVIOUS
<1>2. IsPass(Pass(r, Claims, TRUE), r, Claims, TRUE)
  BY <1>1, PassTyped, Zenon
<1>3. QED
  BY <1>2 DEF CanBindAll, IsPass, Begins

-----------------------------------------------------------------------------
(***************************************************************************)
(* The steps that only move a thread on.                                   *)
(***************************************************************************)
LEMMA CallKeeps ==
  ASSUME EndpointsAssumption, Sound, NEW t \in Starters, NEW c \in Calls[t], Call(t, c)
  PROVE  Sound'
<1> DEFINE r0 == th[t]
<1>1. /\ t \in Threads /\ t # MainThread /\ r0 \in PassStates /\ Pursues(t, r0)
      /\ c \in {"interactive", "quiet", "stop"}
  BY DEF Sound, TypeOK, VictimsInTheWay, Threads, EndpointsAssumption
<1>2. r0.sub = "none" /\ Alive(Self) /\ r0.held = {} /\ r0.leg = 1
  BY <1>1, NothingHeld DEF Call, Going, Running
<1>3. CASE c = "interactive" /\ ~up
  <2> DEFINE q == [r0 EXCEPT !.pc = "look", !.call = c]
             r == CanBindAll(q)
  <2>1. Step(t, r)
    BY <1>3 DEF Call
  <2> HIDE DEF r0
  <2>2. q \in PassStates /\ q.pc = "look" /\ q.victims = r0.victims /\ q.held = {}
    BY <1>1, <1>2 DEF PassStates
  <2> HIDE DEF q
  <2>3. r \in PassStates /\ Begins(r) /\ r.pc = "look" /\ r.victims = r0.victims
    BY <2>2, WholePass DEF Sound
  <2> HIDE DEF r
  <2>4. Pursues(t, r)
    BY <1>1, <2>3 DEF Pursues
  <2>5. QED
    BY <1>1, <1>2, <2>1, <2>3, <2>4, StepKeeps DEF r0
<1>4. CASE ~(c = "interactive" /\ ~up)
  <2> DEFINE r == [r0 EXCEPT !.pc = "lock", !.call = c, !.answer = "notasked"]
  <2>1. Step(t, r)
    BY <1>4 DEF Call
  <2> HIDE DEF r0
  <2>2. /\ r \in PassStates /\ r.pc = "lock" /\ r.victims = r0.victims /\ r.held = {}
        /\ r.sub = "none" /\ r.leg = 1
    BY <1>1, <1>2 DEF PassStates
  <2> HIDE DEF r
  <2>3. Pursues(t, r) /\ Rests(r)
    BY <1>1, <2>2 DEF Pursues, Rests, Audits
  <2>4. QED
    BY <1>1, <1>2, <2>1, <2>2, <2>3, StepKeeps DEF r0
<1>5. QED
  BY <1>3, <1>4

LEMMA AnswerKeeps ==
  ASSUME EndpointsAssumption, Sound, NEW t \in Starters, NEW answer \in {"yes", "no"},
         Answer(t, answer)
  PROVE  Sound'
<1> DEFINE r0 == th[t]
           r == [r0 EXCEPT !.pc = IF answer = "yes" THEN "lock" ELSE "done", !.answer = answer]
<1>1. /\ t \in Threads /\ t # MainThread /\ r0 \in PassStates /\ Pursues(t, r0)
  BY DEF Sound, TypeOK, VictimsInTheWay, Threads, EndpointsAssumption
<1>2. r0.sub = "none" /\ Alive(Self) /\ r0.held = {} /\ r0.leg = 1
  BY <1>1, NothingHeld DEF Answer, Going, Running
<1>3. Step(t, r)
  BY DEF Answer
<1> HIDE DEF r0
<1>4. /\ r \in PassStates /\ r.pc \in {"lock", "done"} /\ r.victims = r0.victims /\ r.held = {}
      /\ r.sub = "none" /\ r.leg = 1
  BY <1>1, <1>2 DEF PassStates
<1> HIDE DEF r
<1>5. Pursues(t, r) /\ Rests(r)
  BY <1>1, <1>4 DEF Pursues, Rests, Audits
<1>6. QED
  BY <1>1, <1>2, <1>3, <1>4, <1>5, StepKeeps DEF r0

\* What an audit leads to, and what follows the last holder.
LEMMA LookedKeeps ==
  ASSUME Sound, NEW t \in Threads, Looked(t) \/ Checked(t) \/ Named(t) \/ HoldersDone(t)
  PROVE  Sound'
<1>1. t # MainThread
  BY DEF Sound, VictimsInTheWay, Pursues, Threads, Looked, Checked, Named, HoldersDone,
         Audited, Ended, Going
<1>2. Alive(Self) /\ th[t].sub \in {"none", "ended"}
  BY DEF Looked, Checked, Named, HoldersDone, Audited, Ended, Going, Running
<1>3. PICK pc \in {"done", "asking", "lock", "unlock", "http", "launch", "free"} :
        Step(t, Entered(th[t], pc))
  BY DEF Looked, Checked, Named, HoldersDone
<1>4. QED
  BY <1>1, <1>2, <1>3, EnteredKeeps

\* A starter's next pass over everything.
LEMMA WholePassKeeps ==
  ASSUME Sound, NEW t \in Starters, t # MainThread, Alive(Self), NEW q \in PassStates,
         th[t].sub \in {"none", "ended"}, Step(t, CanBindAll(q)),
         q.held = {}, q.victims \subseteq met \cup {Self}, q.pc \in {"verdict", "naming", "await"}
  PROVE  Sound'
<1> DEFINE r == CanBindAll(q)
<1>1. r \in PassStates /\ Begins(r) /\ r.pc = q.pc /\ r.victims = q.victims
  BY WholePass DEF Sound
<1>2. Step(t, r) /\ t \in Threads
  BY DEF Threads
<1> HIDE DEF r
<1>3. Pursues(t, r)
  BY <1>1 DEF Pursues
<1>4. QED
  BY <1>1, <1>2, <1>3, StepKeeps

LEMMA Starting ==
  ASSUME Sound, NEW t \in Threads,
         th[t].sub # "none" \/ th[t].pc \notin {"idle", "paths", "ports", "done"}
  PROVE  t \in Starters /\ t # MainThread
BY DEF Sound, VictimsInTheWay, Pursues, Threads

LEMMA StateOf ==
  ASSUME Sound, NEW t \in Threads
  PROVE  th[t] \in PassStates /\ Pursues(t, th[t])
BY DEF Sound, TypeOK, VictimsInTheWay

LEMMA FreeNextKeeps ==
  ASSUME Sound, NEW t \in Threads, FreeNext(t)
  PROVE  Sound'
<1> DEFINE r0 == th[t]
           i == r0.claim + 1
<1>1. t \in Starters /\ t # MainThread
  BY Starting DEF FreeNext, Going
<1>2. /\ r0.sub = "none" /\ r0.pc = "free" /\ Alive(Self) /\ r0.held = {}
      /\ r0 \in PassStates /\ Pursues(t, r0)
  BY NothingHeld, StateOf DEF FreeNext, Going, Running
<1>3. CASE i \notin Claims
  <2> DEFINE q == [r0 EXCEPT !.pc = "verdict", !.claim = 0]
  <2>1. Step(t, CanBindAll(q))
    BY <1>3 DEF FreeNext
  <2>2. 0 \in 0..Len(claims)
    BY ClaimsNumbered DEF Sound
  <2> HIDE DEF r0
  <2>3. q \in PassStates /\ q.pc = "verdict" /\ q.victims = r0.victims /\ q.held = {}
    BY <1>2, <2>2 DEF PassStates
  <2> HIDE DEF q
  <2>4. q.victims \subseteq met \cup {Self}
    BY <1>1, <1>2, <2>3 DEF Pursues
  <2>5. QED
    BY <1>1, <1>2, <2>1, <2>3, <2>4, WholePassKeeps DEF r0
<1>4. CASE i \in Claims
  <2> DEFINE q == [r0 EXCEPT !.claim = i]
             r == Pass(q, {i}, FALSE)
  <2>1. Step(t, r)
    BY <1>4 DEF FreeNext
  <2>2. i \in 0..Len(claims) /\ i # 0
    BY <1>4, ClaimsNumbered DEF Sound
  <2> HIDE DEF r0, i
  <2>3. /\ q \in PassStates /\ q.pc = "free" /\ q.victims = r0.victims /\ q.held = {}
        /\ q.claim = i
    BY <1>2, <2>2 DEF PassStates
  <2> HIDE DEF q
  <2>4. IsPass(r, q, {i}, FALSE)
    <3>1. {i} \in SUBSET Claims /\ FALSE \in BOOLEAN
      BY <1>4
    <3>2. QED
      BY <2>3, <3>1, PassTyped, Zenon
  <2> HIDE DEF r
  <2>5. r \in PassStates /\ Begins(r)
    BY <2>3, <2>4 DEF IsPass, Begins, Audits
  <2>6. Pursues(t, r)
    BY <1>1, <1>2, <2>2, <2>3, <2>4 DEF Pursues, IsPass
  <2>7. QED
    BY <1>2, <2>1, <2>5, <2>6, StepKeeps DEF r0
<1>5. QED
  BY <1>3, <1>4

\* Whoever the tables name for the claim that did not bind has held it.
LEMMA ReadHoldersKeeps ==
  ASSUME EndpointsAssumption, Sound, NEW t \in Threads, ReadHolders(t)
  PROVE  Sound'
<1> DEFINE r0 == th[t]
           named == IF Failed(r0) = {} THEN {} ELSE BlockersOf(r0.claim)
           e == Entered(r0, "free")
           r == [e EXCEPT !.victims = named, !.pc = IF Failed(r0) = {} THEN "free" ELSE "kill"]
<1>1. t \in Starters /\ t # MainThread
  BY Starting DEF ReadHolders, Ended
<1>2. /\ r0.sub = "ended" /\ r0.pc = "free" /\ Alive(Self)
      /\ r0 \in PassStates /\ Pursues(t, r0)
  BY StateOf DEF ReadHolders, Ended, Running
<1>3. Step(t, r)
  BY DEF ReadHolders
<1>4. named \subseteq met \cup {Self} /\ named \subseteq Processes
  <2>1. r0.claim \in Claims
    BY <1>1, <1>2, ClaimsNumbered DEF Pursues, PassStates, Sound
  <2>2. QED
    BY <2>1, BlockersMet DEF Sound
<1>5. e \in PassStates /\ e.leg = 1 /\ e.sub = "none" /\ e.held = {}
  <2>1. "free" \in {"done", "asking", "lock", "unlock", "http", "launch", "free"}
    OBVIOUS
  <2>2. QED
    BY <1>2, <2>1, EnteredTyped DEF Sound
<1> HIDE DEF e, named
<1>6. /\ r \in PassStates /\ r.leg = 1 /\ r.sub = "none" /\ r.held = {} /\ r.victims = named
      /\ r.pc \in {"free", "kill"}
  BY <1>4, <1>5 DEF PassStates
<1> HIDE DEF r, r0
<1>7. Pursues(t, r) /\ Rests(r)
  BY <1>1, <1>4, <1>6 DEF Pursues, Rests, Audits
<1>8. QED
  BY <1>2, <1>3, <1>6, <1>7, StepKeeps DEF r0

LEMMA FreedKeeps ==
  ASSUME Sound, NEW t \in Threads,
         Freed(t) \/ \E late \in BOOLEAN : AwaitPortsReleased(t, late)
  PROVE  Sound'
<1> DEFINE r0 == th[t]
           q == [r0 EXCEPT !.pc = "naming"]
<1>1. t \in Starters /\ t # MainThread
  BY Starting DEF Freed, AwaitPortsReleased, Ended
<1>2. /\ r0.sub = "ended" /\ Alive(Self) /\ r0.held = {}
      /\ r0 \in PassStates /\ r0.victims \subseteq met \cup {Self}
  BY <1>1, NothingHeld, StateOf DEF Freed, AwaitPortsReleased, Ended, Running, Pursues
<1>3. \/ \E pc \in {"launch", "unlock"} : Step(t, Entered(r0, pc))
      \/ Step(t, CanBindAll(q))
      \/ r0.pc = "await" /\ Step(t, CanBindAll(r0))
  BY DEF Freed, AwaitPortsReleased, Ended
<1>4. CASE \E pc \in {"launch", "unlock"} : Step(t, Entered(r0, pc))
  BY <1>1, <1>2, <1>4, EnteredKeeps
<1>5. CASE Step(t, CanBindAll(q))
  <2> HIDE DEF r0
  <2>1. q \in PassStates /\ q.pc = "naming" /\ q.held = {} /\ q.victims = r0.victims
    BY <1>2 DEF PassStates
  <2> HIDE DEF q
  <2>2. QED
    BY <1>1, <1>2, <1>5, <2>1, WholePassKeeps DEF r0
<1>6. CASE r0.pc = "await" /\ Step(t, CanBindAll(r0))
  BY <1>1, <1>2, <1>6, WholePassKeeps
<1>7. QED
  BY <1>3, <1>4, <1>5, <1>6

LEMMA SweepKeeps ==
  ASSUME EndpointsAssumption, Sound, MainStep
  PROVE  Sound'
<1> DEFINE t == MainThread
           r0 == th[t]
           i == r0.claim + 1
<1>1. /\ t \in Threads /\ t \notin Starters /\ r0 \in PassStates /\ Pursues(t, r0)
  BY StateOf DEF Threads, EndpointsAssumption
<1>2. r0.sub = "none" /\ Alive(Self) /\ r0.held = {} /\ r0.leg = 1
  BY <1>1, NothingHeld DEF MainStep, SweepPaths, SweepPorts, Going, Running, Pursues
<1>3. PICK pc \in {"paths", "ports", "done"}, claim \in 0..Len(claims), victims \in SUBSET Leftovers :
        Step(t, [r0 EXCEPT !.pc = pc, !.claim = claim, !.victims = victims])
  <2>1. CASE SweepPaths
    <3> DEFINE swept == {p \in Others : Alive(p) /\ ImageOf[p] = "ours"}
    <3>1. swept \in SUBSET Leftovers /\ 0 \in 0..Len(claims)
      BY ClaimsNumbered DEF Leftovers, Sound
    <3>2. Step(t, [r0 EXCEPT !.pc = "paths", !.claim = 0, !.victims = swept])
      BY <2>1 DEF SweepPaths
    <3> HIDE DEF swept, r0
    <3>3. QED
      BY <3>1, <3>2
  <2>2. CASE SweepPorts /\ i \in Claims
    <3> DEFINE swept == {p \in BlockersOf(i) : OursAndHolding(p)}
    <3>1. swept \in SUBSET Leftovers /\ i \in 0..Len(claims)
      BY <2>2, ClaimsNumbered DEF Leftovers, Sound, OursAndHolding
    <3>2. Step(t, [r0 EXCEPT !.pc = "ports", !.claim = i, !.victims = swept])
      BY <2>2 DEF SweepPorts
    <3> HIDE DEF swept, r0, i
    <3>3. QED
      BY <3>1, <3>2
  <2>3. CASE SweepPorts /\ i \notin Claims
    <3>1. Step(t, [r0 EXCEPT !.pc = "done"]) /\ r0.victims = {}
      BY <2>3 DEF SweepPorts
    <3> HIDE DEF r0
    <3>2. /\ [r0 EXCEPT !.pc = "done"]
                = [r0 EXCEPT !.pc = "done", !.claim = r0.claim, !.victims = {}]
          /\ r0.claim \in 0..Len(claims) /\ {} \in SUBSET Leftovers
      BY <1>1, <3>1 DEF PassStates
    <3>3. QED
      BY <3>1, <3>2
  <2>4. QED
    BY <2>1, <2>2, <2>3 DEF MainStep
<1> DEFINE r == [r0 EXCEPT !.pc = pc, !.claim = claim, !.victims = victims]
<1> HIDE DEF r0
<1>4. /\ r \in PassStates /\ r.sub = "none" /\ r.held = {} /\ r.leg = 1 /\ r.pc = pc
      /\ r.victims = victims
  <2>1. victims \in SUBSET Processes
    BY DEF Leftovers, Processes
  <2>2. QED
    BY <1>1, <1>2, <2>1 DEF PassStates
<1>5. Step(t, r)
  BY <1>3
<1> HIDE DEF r
<1>6. Pursues(t, r) /\ Rests(r)
  BY <1>1, <1>4 DEF Pursues, Rests, Audits
<1>7. QED
  BY <1>1, <1>2, <1>4, <1>5, <1>6, StepKeeps DEF r0

-----------------------------------------------------------------------------
(***************************************************************************)
(* The steps that open or close sockets, or terminate somebody.            *)
(***************************************************************************)
LEMMA TurnInPlace ==
  ASSUME TypeOK, NEW t \in Threads, NEW r \in PassStates, th' = [th EXCEPT ![t] = r],
         sockets' = sockets, claims' = claims, moves' = moves, met' = met
  PROVE  Turn(t, r)
BY DEF TypeOK, Turn, Undisturbed

LEMMA TurnTyped ==
  ASSUME TypeOK, NEW t, NEW r, Turn(t, r), sockets' \subseteq SocketsOf(Processes \cup Threads),
         killed' \subseteq Threads \X Processes, opMx' \in Starters \cup {Nobody}, up' \in BOOLEAN
  PROVE  TypeOK'
BY StatesStay DEF Turn, TypeOK

\* A turn that terminates nobody and opens sockets of this program only.
LEMMA QuietTurnKeeps ==
  ASSUME Sound, NEW t \in Threads, NEW r \in PassStates, Turn(t, r),
         killed' = killed, opMx' \in Starters \cup {Nobody}, up' \in BOOLEAN, Pursues(t, r),
         \A s \in sockets' : \/ s \in sockets
                             \/ s \in SocketsOf(Threads \cup {Self}) /\ s.port \notin ExcludedPorts,
         Alive(Self)' => /\ InHand(t)' /\ FoundIsSo(t)'
                         /\ \A u \in Threads \ {t} : Own(u)' = Own(u)
  PROVE  Sound'
<1>1. claims' = claims /\ met' = met
  BY DEF Turn
<1>2. TypeOK'
  <2>1. \A s \in SocketsOf(Threads \cup {Self}) : s \in SocketsOf(Processes \cup Threads)
    BY DEF SocketsOf, Processes
  <2>2. sockets \subseteq SocketsOf(Processes \cup Threads) /\ killed \subseteq Threads \X Processes
    BY DEF Sound, TypeOK
  <2>3. sockets' \subseteq SocketsOf(Processes \cup Threads)
    BY <2>1, <2>2
  <2>4. QED
    BY <2>2, <2>3, TurnTyped DEF Sound
<1>3. HoldersMet'
  <2>1. ASSUME NEW s \in sockets'
        PROVE  /\ s.port \notin ExcludedPorts
               /\ (\E i \in Claims : Holds(s, i)) => s.by \in Threads \cup {Self} \cup met
    <3>1. CASE s \in sockets
      BY <3>1 DEF Sound, HoldersMet
    <3>2. CASE s \in SocketsOf(Threads \cup {Self}) /\ s.port \notin ExcludedPorts
      BY <3>2 DEF SocketsOf
    <3>3. QED
      BY <3>1, <3>2
  <2>2. Claims' = Claims /\ \A s, i : Holds(s, i)' = Holds(s, i)
    BY <1>1 DEF Claims, Holds, Meets, Claim
  <2>3. QED
    BY <1>1, <2>1, <2>2 DEF HoldersMet
<1>4. OnlyThoseInTheWay'
  BY <1>1 DEF Sound, OnlyThoseInTheWay
<1>5. QED
  BY <1>2, <1>3, <1>4, TurnKeeps

LEMMA UnlockKeeps ==
  ASSUME Sound, NEW t \in Threads, Unlock(t)
  PROVE  Sound'
<1> DEFINE e == Entered(th[t], "done")
           r == [e EXCEPT !.claim = 0]
<1>1. t \in Starters /\ t # MainThread /\ Alive(Self) /\ th[t].sub = "none"
  BY Starting DEF Unlock, Going, Running
<1>2. e \in PassStates /\ e.pc = "done" /\ e.leg = 1 /\ e.sub = "none" /\ e.held = {} /\ e.victims = {}
  <2>1. "done" \in {"done", "asking", "lock", "unlock", "http", "launch", "free"}
    OBVIOUS
  <2>2. QED
    BY <2>1, StateOf, EnteredTyped DEF Sound
<1>3. th' = [th EXCEPT ![t] = r]
  BY DEF Unlock
<1> HIDE DEF e
<1>4. /\ r \in PassStates /\ r.leg = 1 /\ r.sub = "none" /\ r.held = {} /\ r.victims = {}
      /\ r.pc = "done"
  <2>1. 0 \in 0..Len(claims)
    BY ClaimsNumbered DEF Sound
  <2>2. QED
    BY <1>2, <2>1 DEF PassStates
<1> HIDE DEF r
<1>5. Turn(t, r) /\ sockets' = sockets /\ claims' = claims
  BY <1>3, <1>4, TurnInPlace DEF Unlock, Sound
<1>6. Pursues(t, r) /\ Rests(r)
  BY <1>1, <1>4 DEF Pursues, Rests, Audits
<1>7. killed' = killed /\ opMx' \in Starters \cup {Nobody} /\ up' \in BOOLEAN
  BY DEF Unlock, Sound, TypeOK
<1>8. TypeOK'
  BY <1>5, <1>7, TurnTyped DEF Sound, TypeOK
<1>9. \A u : Own(u)' = Own(u)
  BY <1>5 DEF Own
<1>10. InHand(t)' /\ FoundIsSo(t)'
  BY <1>1, <1>5, <1>6, <1>8, <1>9, NothingHeld, FreshInOrder DEF Turn
<1>11. QED
  BY <1>4, <1>5, <1>6, <1>7, <1>9, <1>10, QuietTurnKeeps

\* The sockets of a thread are none of the services', nor of another program.
LEMMA OwnIsOwn ==
  ASSUME EndpointsAssumption, NEW t \in Threads
  PROVE  t \notin Others \cup {Self, System}
BY DEF EndpointsAssumption, Threads, MainThread, Self, System

LEMMA LockKeeps ==
  ASSUME EndpointsAssumption, Sound, NEW t \in Threads, Lock(t)
  PROVE  Sound'
<1> DEFINE r0 == th[t]
           q(pc) == [r0 EXCEPT !.pc = pc]
<1>1. t \in Starters /\ t # MainThread /\ Alive(Self) /\ r0.sub = "none"
  BY Starting DEF Lock, Going, Running
<1>2. /\ r0 \in PassStates /\ r0.victims \subseteq met \cup {Self} /\ Own(t) = {}
      /\ r0.held = {}
  BY <1>1, StateOf, NothingHeld DEF Pursues
<1>3. \A pc \in {"await", "check"} :
        /\ q(pc) \in PassStates /\ q(pc).pc = pc /\ q(pc).victims = r0.victims
        /\ q(pc).held = {}
  <2> HIDE DEF r0
  <2>1. QED
    BY <1>2 DEF PassStates
<1>4. PICK r \in PassStates :
        /\ \/ th' = [th EXCEPT ![t] = r] /\ sockets' = sockets
           \/ th' = Disturbed([th EXCEPT ![t] = r], t)
        /\ r.victims \subseteq met \cup {Self} /\ r.pc \in {"await", "check", "unlock"}
        /\ Rests(r) \/ Begins(r)
  <2>1. CASE r0.call = "stop"
    <3>1. th' = Disturbed([th EXCEPT ![t] = CanBindAll(q("await"))], t)
      BY <2>1 DEF Lock
    <3>2. /\ q("await") \in PassStates /\ q("await").held = {} /\ q("await").pc = "await"
          /\ q("await").victims = r0.victims
      BY <1>3
    <3> HIDE DEF q, r0
    <3>3. QED
      BY <1>2, <3>1, <3>2, WholePass DEF Sound
  <2>2. CASE r0.call # "stop" /\ up
    <3> DEFINE e == Entered(r0, "unlock")
    <3>1. th' = [th EXCEPT ![t] = e] /\ sockets' = sockets
      BY <2>2 DEF Lock
    <3>2. /\ e \in PassStates /\ e.pc = "unlock" /\ e.leg = 1 /\ e.sub = "none" /\ e.held = {}
          /\ e.victims = {}
      <4>1. "unlock" \in {"done", "asking", "lock", "unlock", "http", "launch", "free"}
        OBVIOUS
      <4>2. QED
        BY <1>2, <4>1, EnteredTyped DEF Sound
    <3> HIDE DEF e
    <3>3. QED
      BY <3>1, <3>2 DEF Rests, Audits
  <2>3. CASE r0.call # "stop" /\ ~up
    <3>1. th' = [th EXCEPT ![t] = CanBindAll(q("check"))] /\ sockets' = sockets
      BY <2>3 DEF Lock
    <3>2. /\ q("check") \in PassStates /\ q("check").held = {} /\ q("check").pc = "check"
          /\ q("check").victims = r0.victims
      BY <1>3
    <3> HIDE DEF q, r0
    <3>3. QED
      BY <1>2, <3>1, <3>2, WholePass DEF Sound
  <2>4. QED
    BY <2>1, <2>2, <2>3
<1>5. claims' = claims /\ moves' = moves /\ met' = met /\ killed' = killed
  BY DEF Lock
<1>6. Turn(t, r)
  BY <1>4, <1>5, TurnInPlace, TurnOf DEF Sound
<1>7. opMx' \in Starters \cup {Nobody} /\ up' \in BOOLEAN /\ sockets' \subseteq sockets
  BY <1>1 DEF Lock, Sound, TypeOK
<1>8. \A u \in Threads : Own(u)' = Own(u)
  <2>1. Self \notin Threads
    BY DEF EndpointsAssumption, Threads, MainThread, Self
  <2>2. sockets' = sockets \/ sockets' = {s \in sockets : s.by # Self}
    BY DEF Lock
  <2>3. QED
    BY <2>1, <2>2 DEF Own
<1>9. TypeOK'
  BY <1>5, <1>6, <1>7, TurnTyped DEF Sound, TypeOK
<1>10. InHand(t)' /\ FoundIsSo(t)'
  BY <1>2, <1>4, <1>5, <1>6, <1>8, <1>9, FreshInOrder DEF Turn
<1>11. Pursues(t, r)
  BY <1>1, <1>4 DEF Pursues
<1>12. QED
  BY <1>5, <1>6, <1>7, <1>8, <1>10, <1>11, QuietTurnKeeps

LEMMA StopHttpKeeps ==
  ASSUME EndpointsAssumption, Sound, NEW t \in Threads, StopHttp(t)
  PROVE  Sound'
<1> DEFINE r0 == th[t]
           r == [r0 EXCEPT !.pc = "free", !.claim = 0]
<1>1. t \in Starters /\ t # MainThread /\ Alive(Self) /\ r0.sub = "none"
  BY Starting DEF StopHttp, Going, Running
<1>2. /\ r0 \in PassStates /\ r0.victims \subseteq met \cup {Self} /\ Own(t) = {}
      /\ r0.held = {} /\ r0.leg = 1
  BY <1>1, StateOf, NothingHeld DEF Pursues
<1>3. th' = Disturbed([th EXCEPT ![t] = r], t)
  <2>1. [th EXCEPT ![t].pc = "free", ![t].claim = 0] = [th EXCEPT ![t] = r]
    BY <1>2 DEF Sound, TypeOK
  <2>2. QED
    BY <2>1 DEF StopHttp
<1> HIDE DEF r0
<1>4. /\ r \in PassStates /\ r.leg = 1 /\ r.sub = "none" /\ r.held = {}
      /\ r.victims = r0.victims /\ r.pc = "free"
  <2>1. 0 \in 0..Len(claims)
    BY ClaimsNumbered DEF Sound
  <2>2. QED
    BY <1>1, <1>2, <2>1 DEF PassStates
<1> HIDE DEF r
<1>5. claims' = claims /\ moves' = moves /\ met' = met /\ killed' = killed
  BY DEF StopHttp
<1>6. Turn(t, r)
  BY <1>3, <1>4, <1>5, TurnOf DEF Sound
<1>7. opMx' \in Starters \cup {Nobody} /\ up' \in BOOLEAN /\ sockets' \subseteq sockets
  BY DEF StopHttp, Sound, TypeOK
<1>8. \A u \in Threads : Own(u)' = Own(u)
  <2>1. System \notin Threads
    BY DEF EndpointsAssumption, Threads, MainThread, System
  <2>2. \A s : s.by # System => (s \in sockets' <=> s \in sockets)
    BY DEF StopHttp
  <2>3. QED
    BY <2>1, <2>2 DEF Own
<1>9. TypeOK'
  BY <1>5, <1>6, <1>7, TurnTyped DEF Sound, TypeOK
<1>10. Pursues(t, r) /\ Rests(r)
  BY <1>1, <1>2, <1>4 DEF Pursues, Rests, Audits
<1>11. InHand(t)' /\ FoundIsSo(t)'
  BY <1>2, <1>5, <1>6, <1>8, <1>9, <1>10, FreshInOrder DEF Turn
<1>12. QED
  BY <1>4, <1>5, <1>6, <1>7, <1>8, <1>10, <1>11, QuietTurnKeeps

LEMMA LaunchKeeps ==
  ASSUME EndpointsAssumption, Sound, NEW t \in Threads, Launch(t)
  PROVE  Sound'
<1> DEFINE r0 == th[t]
           q(pc) == [r0 EXCEPT !.pc = pc]
<1>1. t \in Starters /\ t # MainThread /\ Alive(Self) /\ r0.sub = "none"
  BY Starting DEF Launch, Going, Running
<1>2. /\ r0 \in PassStates /\ r0.victims \subseteq met \cup {Self} /\ Own(t) = {}
      /\ r0.held = {} /\ r0.leg = 1
  BY <1>1, StateOf, NothingHeld DEF Pursues
<1>3. \A pc \in {"await", "unlock"} :
        /\ q(pc) \in PassStates /\ q(pc).pc = pc /\ q(pc).victims = r0.victims
        /\ q(pc).held = {} /\ q(pc).leg = 1 /\ q(pc).sub = "none"
  <2> HIDE DEF r0
  <2>1. QED
    BY <1>1, <1>2 DEF PassStates
<1>4. PICK r \in PassStates :
        /\ th' = Disturbed([th EXCEPT ![t] = r], t)
        /\ r.victims \subseteq met \cup {Self} /\ r.pc \in {"await", "unlock"}
        /\ Rests(r) \/ Begins(r)
  <2>1. CASE CanHold
    <3>1. th' = Disturbed([th EXCEPT ![t] = q("unlock")], t)
      BY <2>1 DEF Launch
    <3>2. /\ q("unlock") \in PassStates /\ q("unlock").held = {} /\ q("unlock").pc = "unlock"
          /\ q("unlock").victims = r0.victims /\ q("unlock").leg = 1 /\ q("unlock").sub = "none"
      BY <1>3
    <3> HIDE DEF q, r0
    <3>3. QED
      BY <1>2, <3>1, <3>2 DEF Rests, Audits
  <2>2. CASE ~CanHold
    <3>1. th' = Disturbed([th EXCEPT ![t] = CanBindAll(q("await"))], t)
      BY <2>2 DEF Launch
    <3>2. /\ q("await") \in PassStates /\ q("await").held = {} /\ q("await").pc = "await"
          /\ q("await").victims = r0.victims
      BY <1>3
    <3> HIDE DEF q, r0
    <3>3. QED
      BY <1>2, <3>1, <3>2, WholePass DEF Sound
  <2>3. QED
    BY <2>1, <2>2
<1>5. claims' = claims /\ moves' = moves /\ met' = met /\ killed' = killed
  BY DEF Launch
<1>6. Turn(t, r)
  BY <1>4, <1>5, TurnOf DEF Sound
<1>7. opMx' \in Starters \cup {Nobody} /\ up' \in BOOLEAN
  BY DEF Launch, Sound, TypeOK, CanHold
<1>8. \A s \in ServiceSockets : s \in SocketsOf({Self}) /\ s.by = Self
                                /\ (CanHold => s.port \notin ExcludedPorts)
  <2> SUFFICES ASSUME NEW s \in ServiceSockets
               PROVE  /\ s \in SocketsOf({Self}) /\ s.by = Self
                      /\ CanHold => s.port \notin ExcludedPorts
    OBVIOUS
  <2>1. PICK i \in Claims :
          s \in {[Probe(Self, i, Legs(i)[k]) EXCEPT !.listed = TRUE] : k \in DOMAIN Legs(i)}
    BY Zenon DEF ServiceSockets
  <2>2. PICK k \in DOMAIN Legs(i) : s = [Probe(Self, i, Legs(i)[k]) EXCEPT !.listed = TRUE]
    BY <2>1, Zenon
  <2> DEFINE p == Probe(Self, i, Legs(i)[k])
  <2>3. Legs(i)[k] \in {"tcp", "udp"}
    BY LegsOfAClaim
  <2>4. p \in SocketsOf({Self}) /\ p.by = Self /\ p.port = Claim(i).port
    BY <2>3, ProbesTyped DEF Sound
  <2>5. CanHold => Claim(i).port \notin ExcludedPorts
    BY BoundMeetsNobody DEF CanHold
  <2> HIDE DEF p
  <2>6. s = [p EXCEPT !.listed = TRUE]
    BY <2>2 DEF p
  <2>7. QED
    BY <2>4, <2>5, <2>6 DEF SocketsOf
<1>9. \A s \in sockets' : \/ s \in sockets
                          \/ /\ s \in SocketsOf(Threads \cup {Self}) /\ s.port \notin ExcludedPorts
                             /\ s.by = Self
  <2>1. SocketsOf({Self}) \subseteq SocketsOf(Threads \cup {Self})
    BY MoreSockets
  <2>2. QED
    BY <1>8, <2>1 DEF Launch
<1>10. \A u \in Threads : Own(u)' = Own(u)
  <2>1. Self \notin Threads
    BY DEF EndpointsAssumption, Threads, MainThread, Self
  <2>2. sockets \subseteq sockets'
    BY DEF Launch
  <2>3. QED
    BY <1>9, <2>1, <2>2 DEF Own
<1>11. TypeOK'
  <2>1. SocketsOf(Threads \cup {Self}) \subseteq SocketsOf(Processes \cup Threads)
    BY MoreSockets DEF Processes
  <2>2. sockets' \subseteq SocketsOf(Processes \cup Threads)
    BY <1>9, <2>1 DEF Sound, TypeOK
  <2>3. QED
    BY <1>5, <1>6, <1>7, <2>2, TurnTyped DEF Sound, TypeOK
<1>12. InHand(t)' /\ FoundIsSo(t)'
  BY <1>2, <1>4, <1>5, <1>6, <1>10, <1>11, FreshInOrder DEF Turn
<1>13. Pursues(t, r)
  BY <1>1, <1>4 DEF Pursues
<1>14. QED
  BY <1>5, <1>6, <1>7, <1>9, <1>10, <1>12, <1>13, QuietTurnKeeps

\* Whoever is terminated has been in the way, or has been started by one who has.
LEMMA VictimKeeps ==
  ASSUME EndpointsAssumption, Sound, NEW t \in Threads, NEW p \in Processes, Victim(t, p)
  PROVE  Sound'
<1> DEFINE r0 == th[t]
           r == [r0 EXCEPT !.victims = @ \ {p}]
           gone == CollectTree(p) \ Stubborn
<1>1. /\ Alive(Self) /\ r0 \in PassStates /\ Pursues(t, r0) /\ p \in r0.victims
      /\ r0.pc \in {"kill", "paths", "ports"}
  BY StateOf DEF Victim, Running
<1>2. [th EXCEPT ![t].victims = @ \ {p}] = [th EXCEPT ![t] = r]
  BY DEF Sound, TypeOK
<1>3. /\ r \in PassStates /\ r.pc = r0.pc /\ r.sub = r0.sub /\ r.victims = r0.victims \ {p}
      /\ r.claim = r0.claim /\ r.todo = r0.todo /\ r.leg = r0.leg /\ r.held = r0.held
      /\ r.keep = r0.keep
  <2> HIDE DEF r0
  <2>1. QED
    BY <1>1 DEF PassStates
<1>4. r.pc \notin Audits /\ Pursues(t, r)
  BY <1>1, <1>3 DEF Audits, Pursues
<1> HIDE DEF r
<1>5. claims' = claims /\ moves' = moves /\ met' = met /\ opMx' = opMx
  BY DEF Victim
<1>6. ASSUME \A u \in Threads : Own(u)' = Own(u), Turn(t, r)
      PROVE  InHand(t)' /\ FoundIsSo(t)'
  <2>1. th'[t] = r /\ InHand(t)
    BY <1>1, <1>6 DEF Turn, Sound, PassesInOrder
  <2>2. InHand(t)'
    BY <1>3, <1>5, <1>6, <2>1, HandStays
  <2>3. FoundIsSo(t)'
    BY <1>4, <2>1 DEF FoundIsSo
  <2>4. QED
    BY <2>2, <2>3
<1>7. CASE Spared(t, p)
  <2>1. /\ th' = [th EXCEPT ![t] = r] /\ killed' = killed /\ sockets' = sockets /\ up' = up
    BY <1>2, <1>7 DEF Victim
  <2>2. Turn(t, r) /\ \A u : Own(u)' = Own(u)
    BY <1>3, <1>5, <2>1, TurnInPlace DEF Sound, Own
  <2>3. opMx' \in Starters \cup {Nobody} /\ up' \in BOOLEAN
    BY <1>5, <2>1 DEF Sound, TypeOK
  <2>4. QED
    BY <1>3, <1>4, <1>6, <2>1, <2>2, <2>3, QuietTurnKeeps
<1>8. CASE ~Spared(t, p)
  <2>1. KillTree(t, p)
    BY <1>8 DEF Victim
  <2>2. PICK x \in {t, Nobody} : th' = Disturbed([th EXCEPT ![t] = r], x)
    BY <1>2, <2>1 DEF KillTree
  <2>3. Turn(t, r)
    BY <1>3, <1>4, <1>5, <2>2, TurnOf DEF Sound
  <2>4. /\ killed' = killed \cup {<<t, q>> : q \in gone}
        /\ sockets' = {s \in sockets : PidOf(s) \notin gone}
        /\ up' = (up /\ Self \notin gone)
    BY <2>1 DEF KillTree
  <2>5. \A q \in gone : q \in Trees({p}) /\ (p = Self => q = Self) /\ q \in Others \cup {p}
    BY TreeOfOne
  <2> HIDE DEF gone
  <2>6. TypeOK'
    <3>1. killed' \subseteq Threads \X Processes
      BY <2>4, <2>5 DEF Sound, TypeOK, Processes
    <3>2. up' \in BOOLEAN /\ opMx' \in Starters \cup {Nobody}
      BY <1>5, <2>4 DEF Sound, TypeOK
    <3>3. sockets' \subseteq SocketsOf(Processes \cup Threads)
      BY <2>4 DEF Sound, TypeOK
    <3>4. QED
      BY <2>3, <3>1, <3>2, <3>3, TurnTyped DEF Sound
  <2>7. HoldersMet'
    <3>1. sockets' \subseteq sockets
      BY <2>4
    <3>2. Claims' = Claims /\ \A s, i : Holds(s, i)' = Holds(s, i)
      BY <1>5 DEF Claims, Holds, Meets, Claim
    <3>3. QED
      BY <1>5, <3>1, <3>2 DEF Sound, HoldersMet
  <2>8. OnlyThoseInTheWay'
    <3>1. ASSUME NEW q \in gone
          PROVE  IF t = MainThread THEN q \in Trees(Leftovers) ELSE q \in Trees(met) \cup {Self}
      <4>1. CASE t = MainThread
        <5>1. {p} \subseteq Leftovers
          BY <1>1, <4>1 DEF Pursues
        <5>2. QED
          BY <2>5, <4>1, <5>1, TreesGrow
      <4>2. CASE t # MainThread
        <5>1. p \in met \cup {Self}
          BY <1>1, <4>2 DEF Pursues, Threads
        <5>2. p = Self \/ {p} \subseteq met
          BY <5>1
        <5>3. QED
          BY <2>5, <4>2, <5>2, TreesGrow
      <4>3. QED
        BY <4>1, <4>2
    <3>2. ASSUME NEW k \in killed'
          PROVE  IF k[1] = MainThread THEN k[2] \in Trees(Leftovers)
                 ELSE k[2] \in Trees(met) \cup {Self}
      <4>1. CASE k \in killed
        BY <4>1 DEF Sound, OnlyThoseInTheWay
      <4>2. CASE \E q \in gone : k = <<t, q>>
        BY <3>1, <4>2
      <4>3. QED
        BY <2>4, <4>1, <4>2
    <3>3. QED
      BY <1>5, <3>2 DEF OnlyThoseInTheWay
  <2>9. ASSUME Alive(Self)' PROVE \A u \in Threads : Own(u)' = Own(u)
    <3>1. Self \notin gone
      BY <2>4, <2>9 DEF Alive
    <3>2. \A u \in Threads : \A s \in Own(u) : s \in sockets'
      BY <2>4, <3>1 DEF Own, PidOf
    <3>3. sockets' \subseteq sockets
      BY <2>4
    <3>4. QED
      BY <3>2, <3>3 DEF Own
  <2>10. QED
    BY <1>3, <1>4, <1>6, <2>3, <2>4, <2>6, <2>7, <2>8, <2>9, TurnKeeps
<1>9. QED
  BY <1>7, <1>8

-----------------------------------------------------------------------------
(***************************************************************************)
(* A pass: each bind, its end, and the second half of an audit.            *)
(***************************************************************************)
\* What a thread could have does not depend on the sockets of its own pass.
LEMMA FreeStays ==
  ASSUME NEW t \in Threads, claims' = claims, (sockets \ Own(t))' = sockets \ Own(t)
  PROVE  /\ Claims' = Claims
         /\ \A i, leg : FreeLeg(t, i, leg)' = FreeLeg(t, i, leg)
         /\ \A i : Free(t, i)' = Free(t, i) /\ Taken(t, i)' = Taken(t, i)
<1>1. \A s, i, leg : Refuses(s, i, leg)' = Refuses(s, i, leg)
  BY DEF Refuses, Holds, Meets, Claim
<1>2. \A i, leg : FreeLeg(t, i, leg)' = FreeLeg(t, i, leg)
  BY <1>1 DEF FreeLeg, Claim
<1>3. \A i : Free(t, i)' = Free(t, i)
  BY <1>2, StatesStay DEF Free
<1>4. \A i : Taken(t, i)' = Taken(t, i)
  BY <1>1 DEF Taken
<1>5. QED
  BY <1>2, <1>3, <1>4, StatesStay

\* The second half of an audit asks what failed in the first again.
LEMMA AskAloneKeeps ==
  ASSUME Sound, NEW t \in Threads, AskAlone(t)
  PROVE  Sound'
<1> DEFINE r0 == th[t]
           p == Pass(r0, Failed(r0), FALSE)
           r == [p EXCEPT !.calm = r0.calm]
<1>1. t \in Starters /\ t # MainThread /\ Alive(Self) /\ r0.sub = "ended" /\ r0.keep
  BY Starting DEF AskAlone, Ended, Running
<1>2. /\ r0 \in PassStates /\ r0.victims \subseteq met \cup {Self} /\ Own(t) = {}
      /\ r0.held = {} /\ r0.pc \in Audits /\ Failed(r0) # {} /\ r0.todo = {}
  BY <1>1, StateOf, NothingHeld DEF Pursues, AskAlone, AllBound, Sound, PassesInOrder, InHand
<1>3. Step(t, r)
  BY DEF AskAlone
<1>4. FoundIsSo(t)
  BY <1>1 DEF Sound, PassesInOrder
<1>5. Failed(r0) \in SUBSET Claims
  BY <1>2 DEF Failed, PassStates, Findings
<1>6. IsPass(p, r0, Failed(r0), FALSE)
  <2>1. FALSE \in BOOLEAN
    OBVIOUS
  <2>2. QED
    BY <1>2, <1>5, <2>1, PassTyped, Zenon
<1> HIDE DEF p
<1>7. /\ r \in PassStates /\ r.pc = r0.pc /\ r.victims = r0.victims /\ r.held = {}
      /\ r.todo = Failed(r0) /\ r.keep = FALSE /\ r.leg = 1 /\ DOMAIN r.found = {}
      /\ r.sub = "bind" /\ r.calm = r0.calm
  BY <1>2, <1>6 DEF IsPass, PassStates
<1> HIDE DEF r
<1>8. /\ Turn(t, r) /\ claims' = claims /\ sockets' = sockets /\ killed' = killed
      /\ opMx' \in Starters \cup {Nobody} /\ up' \in BOOLEAN /\ \A u : Own(u)' = Own(u)
  BY <1>3, <1>7, StepIsTurn DEF Step, Sound, TypeOK, Own
<1>9. InHand(t)'
  <2>1. \A i : Len(Legs(i)) >= 1
    BY LegsOfAClaim
  <2>2. QED
    BY <1>2, <1>7, <1>8, <2>1, StatesStay DEF InHand, Turn
<1>10. FoundIsSo(t)'
  <2>1. SUFFICES ASSUME r0.calm PROVE FoundIsSo(t)'
    BY <1>7, <1>8 DEF FoundIsSo, Turn
  <2>2. \A i \in Claims : i \in DOMAIN r0.found
    BY <1>1, <1>2, <1>4, <2>1 DEF FoundIsSo
  <2>3. \A i \in Claims : i \in r.todo \/ Free(t, i)
    BY <1>2, <1>4, <1>7, <2>1, <2>2 DEF FoundIsSo, Failed
  <2>4. /\ Claims' = Claims
        /\ \A i, leg : FreeLeg(t, i, leg)' = FreeLeg(t, i, leg)
        /\ \A i : Free(t, i)' = Free(t, i) /\ Taken(t, i)' = Taken(t, i)
    BY <1>8, FreeStays
  <2>5. QED
    BY <1>7, <1>8, <2>3, <2>4 DEF FoundIsSo, Turn
<1>11. Pursues(t, r)
  BY <1>1, <1>2, <1>7 DEF Pursues, Audits
<1>12. QED
  BY <1>7, <1>8, <1>9, <1>10, <1>11, QuietTurnKeeps

LEMMA CloseKeeps ==
  ASSUME EndpointsAssumption, Sound, NEW t \in Threads, CloseSockets(t)
  PROVE  Sound'
<1> DEFINE r0 == th[t]
           next == IF r0.todo = {} THEN "ended" ELSE "bind"
           r == [r0 EXCEPT !.held = {}, !.sub = next]
<1>1. t \in Starters /\ t # MainThread /\ Alive(Self) /\ r0.sub = "close"
  BY Starting DEF CloseSockets, Running
<1>2. /\ r0 \in PassStates /\ Pursues(t, r0) /\ InHand(t) /\ FoundIsSo(t) /\ r0.leg = 1
      /\ Own(t) = r0.held
  BY <1>1, StateOf DEF Sound, PassesInOrder, InHand
<1>3. th' = Disturbed([th EXCEPT ![t] = r], t)
  <2>1. [th EXCEPT ![t].held = {}, ![t].sub = IF th[t].todo = {} THEN "ended" ELSE "bind"]
          = [th EXCEPT ![t] = r]
    BY <1>2 DEF Sound, TypeOK
  <2>2. QED
    BY <2>1 DEF CloseSockets
<1>4. sockets' = sockets \ r0.held
  BY DEF CloseSockets
<1> HIDE DEF r0
<1>5. /\ r \in PassStates /\ r.pc = r0.pc /\ r.victims = r0.victims /\ r.claim = r0.claim
      /\ r.held = {} /\ r.todo = r0.todo /\ r.keep = r0.keep /\ r.leg = 1
      /\ r.found = r0.found /\ r.sub = next /\ r.calm = r0.calm
  BY <1>2 DEF PassStates
<1> HIDE DEF r
<1>6. claims' = claims /\ moves' = moves /\ met' = met /\ killed' = killed
  BY DEF CloseSockets
<1>7. Turn(t, r)
  BY <1>3, <1>5, <1>6, TurnOf DEF Sound
<1>8. opMx' \in Starters \cup {Nobody} /\ up' \in BOOLEAN
  BY DEF CloseSockets, Sound, TypeOK
<1>9. Own(t)' = {} /\ \A u \in Threads \ {t} : Own(u)' = Own(u)
  BY <1>2, <1>4 DEF Own
<1>10. InHand(t)'
  <2>1. \A i : Len(Legs(i)) >= 1
    BY LegsOfAClaim
  <2>2. QED
    BY <1>5, <1>6, <1>7, <1>9, <2>1, StatesStay DEF InHand, Turn
<1>11. FoundIsSo(t)'
  <2>1. (sockets \ Own(t))' = sockets \ Own(t)
    BY <1>2, <1>4, <1>9
  <2>2. /\ Claims' = Claims
        /\ \A i, leg : FreeLeg(t, i, leg)' = FreeLeg(t, i, leg)
        /\ \A i : Free(t, i)' = Free(t, i) /\ Taken(t, i)' = Taken(t, i)
    BY <1>6, <2>1, FreeStays
  <2>3. QED
    BY <1>2, <1>5, <1>7, <2>2 DEF FoundIsSo, Turn, r0
<1>12. Pursues(t, r)
  BY <1>1, <1>2, <1>5 DEF Pursues
<1>13. QED
  BY <1>4, <1>5, <1>6, <1>7, <1>8, <1>9, <1>10, <1>11, <1>12, QuietTurnKeeps

LEMMA TryBindKeeps ==
  ASSUME EndpointsAssumption, Sound, NEW t \in Threads, TryBindClaim(t)
  PROVE  Sound'
<1> DEFINE r0 == th[t]
           i == Min(r0.todo)
           leg == Legs(i)[r0.leg]
           outcome == TryBindOne(i, leg)
           last == r0.leg = Len(Legs(i))
           probe == Probe(t, i, leg)
<1>1. t \in Starters /\ t # MainThread /\ Alive(Self) /\ r0.sub = "bind"
  BY Starting DEF TryBindClaim, Running
<1>2. /\ r0 \in PassStates /\ Pursues(t, r0) /\ InHand(t) /\ FoundIsSo(t)
      /\ Own(t) = r0.held /\ r0.todo # {} /\ r0.leg <= Len(Legs(i))
      /\ ~r0.keep => \A s \in r0.held : r0.leg = 2 /\ s.transport = "tcp"
  BY <1>1, StateOf DEF Sound, PassesInOrder, InHand
<1>3. i \in r0.todo /\ i \in Claims /\ r0.todo \in SUBSET Claims
  <2>1. r0.todo \in SUBSET Claims
    BY <1>2 DEF PassStates
  <2> HIDE DEF r0
  <2>2. QED
    BY <1>2, <2>1, FirstOfSome DEF Sound
<1>4. /\ r0.leg \in {1, 2} /\ leg \in {"tcp", "udp"} /\ r0.leg \in DOMAIN Legs(i)
      /\ r0.leg = 2 => leg = "udp" /\ last
      /\ ~last => r0.leg = 1 /\ leg = "tcp" /\ Len(Legs(i)) = 2
  <2>1. r0.leg \in {1, 2}
    BY <1>2 DEF PassStates
  <2> HIDE DEF r0, i
  <2>2. /\ Len(Legs(i)) \in {1, 2} /\ DOMAIN Legs(i) = 1..Len(Legs(i))
        /\ \A k \in DOMAIN Legs(i) : Legs(i)[k] \in {"tcp", "udp"}
        /\ Len(Legs(i)) = 2 => Legs(i)[1] = "tcp" /\ Legs(i)[2] = "udp"
    BY LegsOfAClaim
  <2>3. QED
    BY <1>2, <2>1, <2>2
<1>5. /\ outcome \in Outcomes
      /\ outcome = "bound" <=>
           /\ Claim(i).address \in Literals \cap LocalAddresses
           /\ Claim(i).port \notin ExcludedPorts
           /\ \A s \in sockets : ~Refuses(s, i, leg)
      /\ outcome = "inuse" => \E s \in sockets : Refuses(s, i, leg)
  BY TryBindOneType, BoundMeetsNobody, InUseMeetsSomebody DEF Outcomes, Sound
<1>6. /\ probe \in SocketsOf({t}) /\ probe.by = t /\ probe.of = i
      /\ probe.transport = leg /\ probe.port = Claim(i).port
  <2>1. TypeOK /\ i \in Claims /\ leg \in {"tcp", "udp"}
    BY <1>3, <1>4 DEF Sound
  <2> HIDE DEF i, leg
  <2>2. QED
    BY <2>1, ProbesTyped
<1> DEFINE r == IF outcome # "bound" THEN Refused(r0, i, outcome)
                ELSE IF last THEN Whole(r0, i, probe) ELSE Half(r0, probe)
<1>7. /\ th' = Disturbed([th EXCEPT ![t] = r], t)
      /\ sockets' = IF outcome = "bound" THEN sockets \cup {probe}
                    ELSE sockets \ {s \in r0.held : s.of = i}
  BY DEF TryBindClaim, RollBack
<1>8. /\ outcome # "bound" => r = Refused(r0, i, outcome)
      /\ outcome = "bound" /\ last => r = Whole(r0, i, probe)
      /\ outcome = "bound" /\ ~last => r = Half(r0, probe)
  OBVIOUS
<1> HIDE DEF r, probe, outcome, last, leg, i, r0
<1>9. /\ r \in PassStates /\ r.pc = r0.pc /\ r.victims = r0.victims /\ r.claim = r0.claim
      /\ r.calm = r0.calm /\ r.keep = r0.keep
      /\ outcome # "bound" => r.held = {s \in r0.held : s.of # i}
      /\ outcome = "bound" => r.held = r0.held \cup {probe}
      /\ IF outcome = "bound" /\ ~last
         THEN r.leg = 2 /\ r.sub = "bind" /\ r.todo = r0.todo /\ r.found = r0.found
         ELSE /\ r.leg = 1 /\ r.sub = Rest(r0, i) /\ r.todo = r0.todo \ {i}
              /\ DOMAIN r.found = DOMAIN r0.found \cup {i} /\ r.found[i] = outcome
              /\ \A j \in DOMAIN r0.found \ {i} : r.found[j] = r0.found[j]
  <2> DEFINE c == Concluded(r0, i, outcome)
  <2>1. IsConcluded(c, r0, i, outcome)
    BY <1>2, <1>3, <1>5, ConcludedTyped, Zenon
  <2>2. r0.held \subseteq SocketsOf(Threads) /\ SocketsOf({t}) \subseteq SocketsOf(Threads)
    BY <1>1, <1>2, MoreSockets DEF PassStates, Threads
  <2> HIDE DEF c
  <2>3. CASE outcome # "bound"
    <3>1. r = [c EXCEPT !.held = {s \in r0.held : s.of # i}]
      BY <1>8, <2>3 DEF Refused, c
    <3>2. {s \in r0.held : s.of # i} \subseteq SocketsOf(Threads)
      BY <2>2
    <3>3. QED
      BY <2>1, <2>3, <3>1, <3>2 DEF IsConcluded, PassStates
  <2>4. CASE outcome = "bound" /\ last
    <3>1. r = [c EXCEPT !.held = r0.held \cup {probe}]
      BY <1>8, <2>4 DEF Whole, c
    <3>2. r0.held \cup {probe} \subseteq SocketsOf(Threads)
      BY <1>6, <2>2
    <3>3. QED
      BY <2>1, <2>4, <3>1, <3>2 DEF IsConcluded, PassStates
  <2>5. CASE outcome = "bound" /\ ~last
    <3>1. r = [r0 EXCEPT !.leg = 2, !.held = r0.held \cup {probe}]
      BY <1>8, <2>5 DEF Half
    <3>2. r0.held \cup {probe} \subseteq SocketsOf(Threads)
      BY <1>6, <2>2
    <3>3. QED
      BY <1>1, <1>2, <2>5, <3>1, <3>2 DEF PassStates
  <2>6. QED
    BY <2>3, <2>4, <2>5
<1>10. claims' = claims /\ moves' = moves /\ met' = met /\ killed' = killed
  BY DEF TryBindClaim
<1>11. Turn(t, r)
  BY <1>7, <1>9, <1>10, TurnOf DEF Sound
<1>12. opMx' \in Starters \cup {Nobody} /\ up' \in BOOLEAN
  BY DEF TryBindClaim, Sound, TypeOK
<1>13. /\ Own(t)' = r.held /\ (sockets \ Own(t))' = sockets \ Own(t)
       /\ \A u \in Threads \ {t} : Own(u)' = Own(u)
  <2>1. \A s \in r0.held : s.by = t
    BY <1>2 DEF Own
  <2>2. CASE outcome = "bound"
    BY <1>2, <1>6, <1>7, <1>9, <2>1, <2>2 DEF Own
  <2>3. CASE outcome # "bound"
    BY <1>2, <1>7, <1>9, <2>1, <2>3 DEF Own
  <2>4. QED
    BY <2>2, <2>3
<1>14. InHand(t)'
  <2>1. \A j : Len(Legs(j)) >= 1 /\ Legs(j)' = Legs(j)
    BY <1>10, LegsOfAClaim, StatesStay
  <2>2. CASE outcome = "bound" /\ ~last
    <3>1. Min(r.todo) = i /\ Len(Legs(i)) = 2
      BY <1>4, <1>9, <2>2 DEF i
    <3>2. ~r.keep => \A s \in r.held : s.transport = "tcp"
      BY <1>2, <1>4, <1>6, <1>9, <2>2
    <3>3. PICK n : n = i
      OBVIOUS
    <3>4. Min(th'[t].todo) = n /\ Len(Legs(n)') = 2
      BY <1>11, <2>1, <3>1, <3>3 DEF Turn
    <3>5. /\ th'[t].leg = 2 /\ th'[t].sub = "bind" /\ th'[t].todo # {}
          /\ ~th'[t].keep => \A s \in th'[t].held : s.transport = "tcp"
          /\ Own(t)' = th'[t].held
      BY <1>2, <1>9, <1>11, <1>13, <2>2, <3>2 DEF Turn
    <3>6. QED
      BY <3>4, <3>5 DEF InHand
  <2>3. CASE ~(outcome = "bound" /\ ~last)
    <3>1. /\ r.leg = 1 /\ r.sub \in {"bind", "close"}
          /\ r.sub = "bind" => r.keep /\ r.todo # {}
      BY <1>3, <1>9, <2>3 DEF Rest
    <3>2. QED
      BY <1>11, <1>13, <2>1, <3>1 DEF InHand, Turn
  <2>4. QED
    BY <2>2, <2>3
<1>15. FoundIsSo(t)'
  <2>1. SUFFICES ASSUME r0.pc \in Audits, r0.calm PROVE FoundIsSo(t)'
    BY <1>9, <1>11 DEF FoundIsSo, Turn
  <2>2. /\ \A j \in Claims : j \in r0.todo \/ j \in DOMAIN r0.found \/ (~r0.keep /\ Free(t, j))
        /\ \A j \in DOMAIN r0.found :
             /\ r0.found[j] = "bound" => Free(t, j)
             /\ r0.found[j] = "inuse" /\ ~r0.keep => Taken(t, j)
        /\ r0.leg = 2 => FreeLeg(t, i, "tcp")
    BY <1>1, <1>2, <2>1 DEF FoundIsSo, r0, i
  <2>3. outcome = "bound" => FreeLeg(t, i, leg)
    BY <1>5 DEF FreeLeg
  <2>4. outcome = "bound" /\ last => Free(t, i)
    <3>1. SUFFICES ASSUME outcome = "bound", last, NEW k \in DOMAIN Legs(i)
                   PROVE  FreeLeg(t, i, Legs(i)[k])
      BY DEF Free
    <3>2. CASE k = r0.leg
      BY <2>3, <3>1, <3>2 DEF leg
    <3>3. CASE k # r0.leg
      <4>1. r0.leg = 2 /\ k = 1 /\ Legs(i)[1] = "tcp"
        BY <1>4, <3>1, <3>3, LegsOfAClaim DEF last
      <4>2. QED
        BY <2>2, <4>1
    <3>4. QED
      BY <3>2, <3>3
  <2>5. outcome = "inuse" /\ ~r0.keep => Taken(t, i)
    <3>1. SUFFICES ASSUME outcome = "inuse", ~r0.keep PROVE Taken(t, i)
      OBVIOUS
    <3>2. PICK s \in sockets : Refuses(s, i, leg)
      BY <1>5, <3>1
    <3>3. s.transport = leg
      BY <3>2 DEF Refuses
    <3>4. s \notin Own(t)
      BY <1>2, <1>4, <3>1, <3>3
    <3>5. QED
      BY <1>4, <3>2, <3>4 DEF Taken
  <2>6. /\ Claims' = Claims
        /\ \A j, l : FreeLeg(t, j, l)' = FreeLeg(t, j, l)
        /\ \A j : Free(t, j)' = Free(t, j) /\ Taken(t, j)' = Taken(t, j)
    BY <1>10, <1>13, FreeStays
  <2>7. th'[t] = r
    BY <1>11 DEF Turn
  <2>8. CASE outcome = "bound" /\ ~last
    <3>1. FreeLeg(t, Min(r.todo), "tcp")
      BY <1>4, <1>9, <2>3, <2>8 DEF i
    <3>2. QED
      BY <1>9, <2>2, <2>6, <2>7, <2>8, <3>1 DEF FoundIsSo
  <2>9. CASE ~(outcome = "bound" /\ ~last)
    <3>1. \A j \in Claims : j \in r.todo \/ j \in DOMAIN r.found \/ (~r.keep /\ Free(t, j))
      BY <1>9, <2>2, <2>9
    <3>2. \A j \in DOMAIN r.found :
            /\ r.found[j] = "bound" => Free(t, j)
            /\ r.found[j] = "inuse" /\ ~r.keep => Taken(t, j)
      BY <1>9, <2>2, <2>4, <2>5, <2>9
    <3>3. r.leg = 1
      BY <1>9, <2>9
    <3>4. QED
      BY <2>6, <2>7, <3>1, <3>2, <3>3 DEF FoundIsSo
  <2>10. QED
    BY <2>8, <2>9
<1>16. Pursues(t, r)
  <2>1. r.pc = "free" => r0.pc = "free" /\ r0.sub # "none"
    BY <1>1, <1>9
  <2>2. QED
    BY <1>1, <1>2, <1>9, <2>1 DEF Pursues
<1>17. \A s \in sockets' : \/ s \in sockets
                           \/ s \in SocketsOf(Threads \cup {Self}) /\ s.port \notin ExcludedPorts
  <2>1. SocketsOf({t}) \subseteq SocketsOf(Threads \cup {Self})
    BY MoreSockets
  <2>2. QED
    BY <1>5, <1>6, <1>7, <2>1
<1>18. QED
  BY <1>9, <1>10, <1>11, <1>12, <1>13, <1>14, <1>15, <1>16, <1>17, QuietTurnKeeps

-----------------------------------------------------------------------------
(***************************************************************************)
(* Other processes come and go: every audit is disturbed, and whoever      *)
(* holds an endpoint now has been in the way.                              *)
(***************************************************************************)
LEMMA MovedKeeps ==
  ASSUME EndpointsAssumption, Sound, NEW next, Moved(next),
         \A s \in next : \/ s \in sockets
                         \/ s \in SocketsOf(Others) /\ s.port \notin ExcludedPorts,
         \A u \in Threads : {s \in next : s.by = u} = Own(u)
  PROVE  Sound'
<1>1. /\ claims' = claims /\ killed' = killed /\ opMx' = opMx /\ up' = up
      /\ sockets' = next /\ met' = met \cup Holding(next)
      /\ moves < MaxMoves /\ moves' = moves + 1 /\ th' = Disturbed(th, Nobody)
  BY DEF Moved
<1>2. next \subseteq SocketsOf(Processes \cup Threads)
  <2>1. SocketsOf(Others) \subseteq SocketsOf(Processes \cup Threads)
    BY MoreSockets DEF Processes
  <2>2. QED
    BY <2>1 DEF Sound, TypeOK
<1>3. th' \in [Threads -> PassStates]
  BY <1>1, DisturbedTyped DEF Sound, TypeOK
<1>4. \A u \in Threads : Undisturbed(u)
  <2>1. Nobody \notin Threads
    BY DEF EndpointsAssumption, Threads
  <2>2. QED
    BY <1>1, <2>1 DEF Undisturbed, Disturbed
<1>5. TypeOK'
  <2>1. met' \subseteq Processes \cup Threads
    <3>1. \A s \in next : s.by \in Processes \cup Threads
      BY <1>2 DEF SocketsOf
    <3>2. QED
      BY <1>1, <3>1 DEF Holding, Sound, TypeOK
  <2>2. moves' \in 0..MaxMoves
    BY <1>1 DEF EndpointsAssumption, Sound, TypeOK
  <2>3. QED
    BY <1>1, <1>2, <1>3, <2>1, <2>2, StatesStay DEF Sound, TypeOK
<1>6. VictimsInTheWay'
  <2>1. ASSUME NEW u \in Threads PROVE Pursues(u, th[u])'
    <3>1. th[u] \in PassStates /\ Pursues(u, th[u])
      BY StateOf
    <3>2. /\ th'[u].pc = th[u].pc /\ th'[u].sub = th[u].sub
          /\ th'[u].victims = th[u].victims /\ th'[u].claim = th[u].claim
      BY <1>4, <3>1 DEF Undisturbed, PassStates
    <3>3. met \subseteq met'
      BY <1>1
    <3>4. QED
      BY <3>1, <3>2, <3>3 DEF Pursues
  <2>2. QED
    BY <2>1 DEF VictimsInTheWay
<1>7. HoldersMet'
  <2>1. ASSUME NEW s \in next
        PROVE  /\ s.port \notin ExcludedPorts
               /\ (\E i \in Claims : Holds(s, i)) => s.by \in met'
    <3>1. (\E i \in Claims : Holds(s, i)) => s.by \in Holding(next)
      BY DEF Holding
    <3>2. QED
      BY <1>1, <3>1 DEF Sound, HoldersMet
  <2>2. Claims' = Claims /\ \A s, i : Holds(s, i)' = Holds(s, i)
    BY <1>1 DEF Claims, Holds, Meets, Claim
  <2>3. QED
    BY <1>1, <2>1, <2>2 DEF HoldersMet
<1>8. OnlyThoseInTheWay'
  <2>1. Trees(met) \subseteq Trees(met')
    BY <1>1, TreesGrow
  <2>2. QED
    BY <1>1, <2>1 DEF Sound, OnlyThoseInTheWay
<1>9. PassesInOrder'
  <2>1. SUFFICES ASSUME Alive(Self)', NEW u \in Threads PROVE InHand(u)' /\ FoundIsSo(u)'
    BY DEF PassesInOrder
  <2>2. InHand(u) /\ FoundIsSo(u)
    BY <1>1, <2>1 DEF Sound, PassesInOrder, Alive
  <2>3. Own(u)' = Own(u)
    BY <1>1 DEF Own
  <2>4. QED
    BY <1>1, <1>4, <2>2, <2>3, OthersKept DEF Sound
<1>10. QED
  BY <1>5, <1>6, <1>7, <1>8, <1>9 DEF Sound

LEMMA GrabKeeps ==
  ASSUME EndpointsAssumption, Sound, NEW p \in Others, NEW i \in Claims, Grab(p, i)
  PROVE  Sound'
<1> DEFINE probe == Probe(p, i, Legs(i)[1])
<1>1. /\ probe \in SocketsOf({p}) /\ probe.by = p /\ probe.port = Claim(i).port
  <2>1. Legs(i)[1] \in {"tcp", "udp"}
    BY LegsOfAClaim
  <2>2. QED
    BY <2>1, ProbesTyped DEF Sound
<1>2. Moved(sockets \cup {probe}) /\ Claim(i).port \notin ExcludedPorts
  BY DEF Grab
<1> HIDE DEF probe
<1>3. p \notin Threads
  BY OwnIsOwn
<1>4. probe \in SocketsOf(Others)
  BY <1>1, MoreSockets
<1>5. \A u \in Threads : {s \in sockets \cup {probe} : s.by = u} = Own(u)
  BY <1>1, <1>3 DEF Own
<1> DEFINE next == sockets \cup {probe}
<1>6. \A s \in next : \/ s \in sockets
                      \/ s \in SocketsOf(Others) /\ s.port \notin ExcludedPorts
  BY ONLY <1>1, <1>2, <1>4
<1>7. Moved(next) /\ \A u \in Threads : {s \in next : s.by = u} = Own(u)
  BY <1>2, <1>5
<1> HIDE DEF next
<1>8. QED
  BY <1>6, <1>7, MovedKeeps

LEMMA ReleaseKeeps ==
  ASSUME EndpointsAssumption, Sound, NEW p \in Others, Release(p)
  PROVE  Sound'
<1>1. Moved(sockets \ Own(p))
  BY DEF Release
<1>2. p \notin Threads
  BY OwnIsOwn
<1>3. \A u \in Threads : {s \in sockets \ Own(p) : s.by = u} = Own(u)
  BY <1>2 DEF Own
<1> DEFINE next == sockets \ Own(p)
<1>4. \A s \in next : \/ s \in sockets
                      \/ s \in SocketsOf(Others) /\ s.port \notin ExcludedPorts
  OBVIOUS
<1>5. Moved(next) /\ \A u \in Threads : {s \in next : s.by = u} = Own(u)
  BY <1>1, <1>3
<1> HIDE DEF next
<1>6. QED
  BY <1>4, <1>5, MovedKeeps

-----------------------------------------------------------------------------
(***************************************************************************)
(* The invariant, and what follows from it.                                *)
(***************************************************************************)
LEMMA SoundInit ==
  ASSUME EndpointsAssumption, Init
  PROVE  Sound
<1>1. TypeOK
  BY TypeInit
<1>2. th = [t \in Threads |-> Idle] /\ killed = {} /\ met = Holding(sockets)
  BY DEF Init
<1>3. PICK x \in Scenarios : sockets = x.open
  BY DEF Init
<1>4. \A s \in sockets : s.by \in Others \cup {System} /\ s.port \notin ExcludedPorts
  BY <1>3 DEF EndpointsAssumption, SocketsOf
<1>5. VictimsInTheWay
  BY <1>2 DEF VictimsInTheWay, Pursues, Idle
<1>6. HoldersMet
  BY <1>2, <1>4 DEF HoldersMet, Holding
<1>7. OnlyThoseInTheWay
  BY <1>2 DEF OnlyThoseInTheWay
<1>8. \A t \in Threads : InHand(t) /\ FoundIsSo(t)
  <2>1. \A t \in Threads : Own(t) = {}
    BY <1>4, OwnIsOwn DEF Own
  <2>2. QED
    BY <1>2, <2>1 DEF InHand, FoundIsSo, Idle, Audits
<1>9. QED
  BY <1>1, <1>5, <1>6, <1>7, <1>8 DEF Sound, PassesInOrder

LEMMA SoundStep ==
  ASSUME EndpointsAssumption, Sound, [Next]_vars
  PROVE  Sound'
<1>1. ASSUME NEW t \in Threads, ThreadStep(t) PROVE Sound'
  <2>1. ASSUME NEW p \in Others \cup {Self, System}, Victim(t, p) PROVE Sound'
    BY <2>1, VictimKeeps DEF Processes
  <2>2. CASE Looked(t) \/ Checked(t) \/ Named(t) \/ HoldersDone(t)
    BY <2>2, LookedKeeps
  <2>3. CASE Freed(t) \/ \E late \in BOOLEAN : AwaitPortsReleased(t, late)
    BY <2>3, FreedKeeps
  <2>4. QED
    BY <1>1, <2>1, <2>2, <2>3, TryBindKeeps, CloseKeeps, AskAloneKeeps, LockKeeps, StopHttpKeeps,
       FreeNextKeeps, ReadHoldersKeeps, LaunchKeeps, UnlockKeeps DEF ThreadStep
<1>2. CASE MainStep
  BY <1>2, SweepKeeps
<1>3. ASSUME NEW t \in Starters,
             \/ \E c \in Calls[t] : Call(t, c)
             \/ \E answer \in {"yes", "no"} : Answer(t, answer)
      PROVE  Sound'
  BY <1>3, CallKeeps, AnswerKeeps
<1>4. ASSUME NEW p \in Others, Release(p) \/ \E i \in Claims : Grab(p, i) PROVE Sound'
  BY <1>4, ReleaseKeeps, GrabKeeps
<1>5. CASE UNCHANGED vars
  <2>1. /\ claims' = claims /\ sockets' = sockets /\ killed' = killed /\ th' = th
        /\ opMx' = opMx /\ up' = up /\ moves' = moves /\ met' = met
    BY <1>5 DEF vars
  <2>2. TypeOK' /\ VictimsInTheWay' /\ OnlyThoseInTheWay'
    BY <2>1, StatesStay DEF Sound, TypeOK, VictimsInTheWay, Pursues, OnlyThoseInTheWay
  <2>3. HoldersMet'
    BY <2>1 DEF Sound, HoldersMet, Holds, Meets, Claim, Claims
  <2>4. PassesInOrder'
    <3>1. ASSUME Alive(Self)', NEW u \in Threads PROVE InHand(u)' /\ FoundIsSo(u)'
      <4>1. InHand(u) /\ FoundIsSo(u) /\ Own(u)' = Own(u) /\ Undisturbed(u)
        BY <2>1, <3>1 DEF Sound, PassesInOrder, Alive, Own, Undisturbed
      <4>2. QED
        BY <2>1, <4>1, OthersKept DEF Sound
    <3>2. QED
      BY <3>1 DEF PassesInOrder
  <2>5. QED
    BY <2>2, <2>3, <2>4 DEF Sound
<1>6. QED
  BY <1>1, <1>2, <1>3, <1>4, <1>5 DEF Next

LEMMA AuditsRight ==
  ASSUME Sound
  PROVE  AuditsAreRight
<1> SUFFICES ASSUME NEW t \in Threads, NEW pc \in Audits, Audited(t, pc), th[t].calm
             PROVE  /\ \A i \in Unavailable(th[t]) : Taken(t, i)
                    /\ \A i \in Contradicted(th[t]) : ~Taken(t, i)
                    /\ Failed(th[t]) = {} => CanHold
  BY DEF AuditsAreRight
<1> DEFINE r == th[t]
<1>1. r.sub = "ended" /\ r.pc = pc /\ Alive(Self)
  BY DEF Audited, Ended, Running
<1>2. r \in PassStates /\ InHand(t) /\ FoundIsSo(t)
  BY <1>1 DEF Sound, TypeOK, PassesInOrder
<1>3. r.todo = {} /\ Own(t) = {}
  BY <1>1, <1>2 DEF InHand
<1>4. /\ \A i \in Claims : i \in DOMAIN r.found \/ Free(t, i)
      /\ \A i \in DOMAIN r.found :
           /\ r.found[i] = "bound" => Free(t, i)
           /\ r.found[i] = "inuse" /\ ~r.keep => Taken(t, i)
  BY <1>1, <1>2, <1>3 DEF FoundIsSo
<1>5. ASSUME NEW i, Free(t, i) PROVE ~Taken(t, i)
  <2>1. SUFFICES ASSUME NEW s \in sockets \ Own(t), NEW l \in {"tcp", "udp"}, Refuses(s, i, l)
                 PROVE  FALSE
    BY DEF Taken
  <2>2. Claim(i).transport \in {l, "both"}
    BY <2>1 DEF Refuses, Holds, Meets
  <2>3. \E k \in DOMAIN Legs(i) : Legs(i)[k] = l
    <3>1. \/ Legs(i) = <<"tcp", "udp">> \/ Legs(i) = <<l>>
      BY <2>2 DEF Legs
    <3>2. QED
      BY <3>1
  <2>4. QED
    BY <1>5, <2>1, <2>3 DEF Free, FreeLeg
<1>6. \A i \in Unavailable(r) : Taken(t, i)
  BY <1>4 DEF Unavailable, Found
<1>7. \A i \in Contradicted(r) : ~Taken(t, i)
  BY <1>4, <1>5 DEF Contradicted, Found
<1>8. ASSUME Failed(r) = {} PROVE CanHold
  <2>1. \A i \in Claims : Free(t, i)
    BY <1>4, <1>8 DEF Failed
  <2>2. ASSUME NEW i \in Claims, NEW k \in DOMAIN Legs(i)
        PROVE  TryBindOne(i, Legs(i)[k]) = "bound"
    <3>1. FreeLeg(t, i, Legs(i)[k])
      BY <2>1 DEF Free
    <3>2. QED
      BY <1>3, <3>1, BoundMeetsNobody DEF FreeLeg
  <2>3. QED
    BY <2>2 DEF CanHold
<1>9. QED
  BY <1>6, <1>7, <1>8

LEMMA AlwaysSound ==
  ASSUME EndpointsAssumption
  PROVE  Spec => []Sound
<1>1. Init => Sound
  BY SoundInit
<1>2. Sound /\ [Next]_vars => Sound'
  BY SoundStep
<1>3. QED
  BY <1>1, <1>2, PTL DEF Spec

\* Every variable has its type, whatever is declared and whoever holds it
\* (ports.cpp, services.cpp).
THEOREM TypeCorrect ==
  ASSUME EndpointsAssumption
  PROVE  Spec => []TypeOK
<1>1. Sound => TypeOK
  BY DEF Sound
<1>2. QED
  BY <1>1, AlwaysSound, PTL

\* Nobody is terminated who was not in the way: before a start only leftovers of
\* this program, later only who has held a required endpoint, with what these
\* have started (services.cpp:1031-1095, ports.cpp:497-520).
THEOREM OnlyHoldersAreTerminated ==
  ASSUME EndpointsAssumption
  PROVE  Spec => []OnlyThoseInTheWay
<1>1. Sound => OnlyThoseInTheWay
  BY DEF Sound
<1>2. QED
  BY <1>1, AlwaysSound, PTL

\* What an audit says is so, when no socket came or went while it looked
\* (ports.cpp, AuditClaims).
THEOREM AuditsSayWhatIsSo ==
  ASSUME EndpointsAssumption
  PROVE  Spec => []AuditsAreRight
<1>1. Sound => AuditsAreRight
  BY AuditsRight
<1>2. QED
  BY <1>1, AlwaysSound, PTL
=============================================================================
