------------------------------ MODULE OwnerProofs ------------------------------
(***************************************************************************)
(* Proofs about OwnerAuth.  The inductive invariant says that every stored *)
(* session carries the generation and origin of the namespace it is stored *)
(* in, and that a generation whose code was traded for a token has no code *)
(* any more.                                                               *)
(***************************************************************************)
EXTENDS OwnerAuth, FiniteSetTheorems, TLAPS

\* Sessions in the snapshot belong to the snapshot's generation and origin.
SessionsCurrent ==
    \A c \in DOMAIN owner.entries :
        c \in DOMAIN born /\ born[c] = [generation |-> owner.generation, origin |-> owner.origin]

\* Tokens: no generation hands out two, the present one none while its code is waiting.
TokensCurrent ==
    /\ \A n \in DOMAIN handed : handed[n] <= owner.generation
    /\ \A n \in DOMAIN handed : handed[n] = owner.generation => owner.claim = None
    /\ \A m, n \in DOMAIN handed : handed[m] = handed[n] => m = n
    /\ \A n \in Nat : n \in {owner.pending, owner.verifier}
          => n \in DOMAIN handed /\ handed[n] = owner.generation

OwnerInv == TypeOK /\ Valid(owner) /\ SessionsCurrent /\ TokensCurrent

\* What every authority change leaves behind.
Renewed(state) ==
    /\ state.generation = owner.generation + 1
    /\ state.entries = NoEntries
    /\ state.pending = None
    /\ state.verifier \in Overrides \cup {None}

\* What the other steps leave alone: the generation, its sessions or fewer, its tokens.
Retained(state) ==
    /\ state.generation = owner.generation
    /\ state.claim \in {owner.claim, None}
    /\ state.pending \in {owner.pending, None}
    /\ state.verifier \in {owner.verifier, owner.pending}
    /\ \/ state.entries = NoEntries
       \/ DOMAIN state.entries \subseteq DOMAIN owner.entries /\ state.origin = owner.origin

\* The sessions and tokens of the old generation do not survive its replacement.
LEMMA RenewedInv ==
    ASSUME OwnerInv, OwnerTyped(owner'), Valid(owner'), Renewed(owner'),
           UNCHANGED <<now, handed, born>>, worker' \in [Workers -> Origins \cup {None}]
    PROVE  OwnerInv'
<1> USE DEF OwnerInv
<1>1. TypeOK'
  BY DEF TypeOK, OwnerTyped
<1>2. SessionsCurrent'
  BY DEF SessionsCurrent, Renewed, NoEntries
<1>3. TokensCurrent'
  <2>1. owner.generation \in Nat /\ \A n \in DOMAIN handed : handed[n] \in Nat
    BY SMTT(30) DEF TypeOK, OwnerTyped
  <2>2. \A n \in Nat : n \notin {owner'.pending, owner'.verifier}
    BY OwnerConstants DEF Renewed
  <2>3. \A n \in DOMAIN handed : handed[n] <= owner.generation
    BY DEF TokensCurrent
  <2>4. \A m, n \in DOMAIN handed : handed[m] = handed[n] => m = n
    BY DEF TokensCurrent
  <2>. QED
    BY <2>1, <2>2, <2>3, <2>4 DEF TokensCurrent, Renewed
<1>4. Valid(owner)'
  BY DEF Valid, Active
<1>. QED
  BY <1>1, <1>2, <1>3, <1>4

\* A step within a generation keeps its sessions and tokens, or drops them.
LEMMA RetainedInv ==
    ASSUME OwnerInv, OwnerTyped(owner'), Valid(owner'), Retained(owner'), now' \in Nat,
           UNCHANGED <<handed, born>>, worker' \in [Workers -> Origins \cup {None}]
    PROVE  OwnerInv'
<1> USE DEF OwnerInv
<1>1. TypeOK'
  BY DEF TypeOK, OwnerTyped
<1>2. SessionsCurrent'
  BY DEF SessionsCurrent, Retained, NoEntries
<1>3. TokensCurrent'
  BY OwnerConstants DEF TokensCurrent, Retained
<1>4. Valid(owner)'
  BY DEF Valid, Active
<1>. QED
  BY <1>1, <1>2, <1>3, <1>4

LEMMA EmptyEntries == NoEntries \in [DOMAIN NoEntries -> Nat] /\ DOMAIN NoEntries \subseteq Cookies
  BY DEF NoEntries

\* Namespaces without sessions.
Sessionless ==
    [mode : Modes, generation : Nat, verifier : Nat \cup Overrides \cup {None},
     claim : Nat \cup {None}, claim_expires : Nat, claim_attempts : Nat,
     pending : Nat \cup {None}, pending_expires : Nat,
     origin : Origins \cup {None}, entries : {NoEntries}]

LEMMA SessionlessTyped == \A state \in Sessionless : OwnerTyped(state)
  BY EmptyEntries DEF Sessionless, OwnerTyped

LEMMA SaveAuthorityKeepsRest ==
    ASSUME OwnerInv, NEW state \in Sessionless
    PROVE  /\ SaveAuthority(state) \in Sessionless
           /\ SaveAuthority(state).entries = NoEntries
           /\ SaveAuthority(state).origin = owner.origin
           /\ \A f \in {"mode", "generation", "verifier", "pending", "claim"} : SaveAuthority(state)[f] = state[f]
<1>1. owner.origin \in Origins \cup {None}
  BY DEF OwnerInv, TypeOK, OwnerTyped
<1>. QED
  BY <1>1 DEF SaveAuthority, Sessionless

\* Authority changes at the console build a well formed namespace of the next generation.
LEMMA RenewedByConsole ==
    ASSUME OwnerInv, NEW mode \in {"unclaimed", "recovery"}
    PROVE  OwnerTyped(Claimable(mode)) /\ Renewed(Claimable(mode)) /\ Claimable(mode).mode = mode
<1> DEFINE f == Fresh(mode, owner.generation + 1, None)
           g == [f EXCEPT !.claim = owner.generation + 1, !.claim_expires = now + CLAIM_SECONDS]
<1>1. now + CLAIM_SECONDS \in Nat /\ owner.generation + 1 \in Nat
  BY OwnerConstants, SMTT(30) DEF OwnerInv, TypeOK, OwnerTyped
<1>2. /\ f \in Sessionless /\ f.mode = mode /\ f.generation = owner.generation + 1
      /\ f.verifier = None /\ f.pending = None
  BY <1>1 DEF Fresh, Sessionless, Modes
<1> HIDE DEF f
<1>3. /\ g \in Sessionless /\ g.mode = mode /\ g.generation = owner.generation + 1
      /\ g.verifier = None /\ g.pending = None
  BY <1>1, <1>2 DEF Sessionless
<1>4. Claimable(mode) = SaveAuthority(g)
  BY DEF Claimable, f
<1> HIDE DEF g
<1>. QED
  BY <1>3, <1>4, SaveAuthorityKeepsRest, SessionlessTyped DEF Renewed

\* At a server start the authority is left as it is or replaced.
LEMMA ReconciledCases ==
    ASSUME OwnerInv, NEW override \in Overrides \cup {None}
    PROVE  /\ OwnerTyped(Reconciled(override))
           /\ Reconciled(override) = owner \/ Renewed(Reconciled(override))
<1> DEFINE New(mode, v) == SaveAuthority(Fresh(mode, owner.generation + 1, v))
<1>1. ASSUME NEW mode \in Modes, NEW v \in Overrides \cup {None}
      PROVE  OwnerTyped(New(mode, v)) /\ Renewed(New(mode, v))
  <2>1. owner.generation + 1 \in Nat
    BY DEF OwnerInv, TypeOK, OwnerTyped
  <2> DEFINE f == Fresh(mode, owner.generation + 1, v)
  <2>2. v \in Nat \cup Overrides \cup {None}
    OBVIOUS
  <2>3. /\ f \in Sessionless /\ f.generation = owner.generation + 1
        /\ f.verifier = v /\ f.pending = None
    BY <2>1, <2>2 DEF Fresh, Sessionless
  <2> HIDE DEF f
  <2>4. OwnerTyped(SaveAuthority(f)) /\ Renewed(SaveAuthority(f))
    BY <2>3, SaveAuthorityKeepsRest, SessionlessTyped DEF Renewed
  <2>. QED
    BY <2>4 DEF f
<1>2. OwnerTyped(owner)
  BY DEF OwnerInv, TypeOK
<1>3. Reconciled(override) \in {owner, New("environment", override), New("recovery", None), New("unclaimed", None)}
  BY DEF Reconciled
<1> HIDE DEF New
<1>. QED
  BY <1>1, <1>2, <1>3 DEF Modes

\* Binding the origin keeps the generation and its tokens.
LEMMA BoundKeeps ==
    ASSUME NEW state, OwnerTyped(state), NEW origin \in Origins
    PROVE  /\ OwnerTyped(Bound(state, origin))
           /\ Renewed(state) => Renewed(Bound(state, origin))
           /\ state = owner => Retained(Bound(state, origin))
           /\ Bound(state, origin).mode = state.mode
           /\ Bound(state, origin).generation = state.generation
  BY EmptyEntries DEF Bound, OwnerTyped, Renewed, Retained

-----------------------------------------------------------------------------
LEMMA InitInv == Init => OwnerInv
<1> SUFFICES ASSUME Init PROVE OwnerInv
  OBVIOUS
<1>1. owner \in Sessionless /\ owner.verifier = None /\ owner.claim = None /\ owner.pending = None
      /\ owner.claim_attempts = 0 /\ owner.mode = "new" /\ owner.generation = 0 /\ owner.entries = NoEntries
  BY DEF Init, Fresh, Sessionless, Modes
<1>2. TypeOK
  BY <1>1, SessionlessTyped DEF Init, TypeOK, NoEntries
<1>3. Cardinality(DOMAIN owner.entries) <= SESSION_LIMIT
  <2>1. DOMAIN owner.entries = {}
    BY <1>1 DEF NoEntries
  <2>. QED
    BY <2>1, FS_EmptySet, OwnerConstants
<1>4. Valid(owner)
  BY <1>1, <1>3, OwnerConstants DEF Valid, Active
<1>5. SessionsCurrent /\ TokensCurrent
  BY <1>1, OwnerConstants DEF SessionsCurrent, TokensCurrent, NoEntries, Init
<1>. QED
  BY <1>2, <1>4, <1>5 DEF OwnerInv

LEMMA ClaimInv == ASSUME OwnerInv, NEW code \in Generations, Claim(code) PROVE OwnerInv'
<1> USE DEF OwnerInv
<1>1. /\ handed \in Seq(Nat) /\ owner.generation \in Nat /\ now + CLAIM_SECONDS \in Nat
      /\ owner.claim = code /\ code # None /\ owner.verifier = None
  BY OwnerConstants, SMTT(30) DEF TypeOK, OwnerTyped, Claim, Redeemable, Generations, Valid, Active
<1>2. /\ handed' \in Seq(Nat) /\ Len(handed') = Len(handed) + 1
      /\ \A i \in 1 .. Len(handed) : handed'[i] = handed[i]
      /\ handed'[Len(handed) + 1] = owner.generation
      /\ Len(handed) \in Nat
  BY <1>1 DEF Claim
<1>3. /\ OwnerTyped(owner')
      /\ owner'.generation = owner.generation /\ owner'.claim = None
      /\ owner'.pending = Len(handed) + 1 /\ owner'.verifier = None
      /\ owner'.entries = owner.entries /\ owner'.origin = owner.origin
  <2>1. owner' = [owner EXCEPT !.claim = None, !.pending = Len(handed) + 1,
                                !.pending_expires = now + CLAIM_SECONDS]
    BY DEF Claim
  <2>2. Len(handed) + 1 \in Nat
    BY <1>2
  <2>. QED
    BY <1>1, <2>1, <2>2 DEF TypeOK, OwnerTyped
<1>4. TypeOK'
  BY <1>2, <1>3 DEF TypeOK, OwnerTyped, Claim
<1>5. SessionsCurrent'
  BY <1>3 DEF SessionsCurrent, Claim
<1>6. TokensCurrent'
  <2>1. DOMAIN handed = 1 .. Len(handed) /\ DOMAIN handed' = 1 .. Len(handed) + 1
    BY <1>1, <1>2
  <2>2. \A n \in 1 .. Len(handed) : handed[n] \in Nat /\ handed[n] <= owner.generation /\ handed[n] # owner.generation
    BY <1>1, <2>1 DEF TokensCurrent
  <2>3. \A m, n \in 1 .. Len(handed) : handed[m] = handed[n] => m = n
    BY <2>1 DEF TokensCurrent
  <2>4. \A n \in 1 .. Len(handed) + 1 : n \in 1 .. Len(handed) \/ n = Len(handed) + 1
    BY <1>2
  <2>5. \A n \in DOMAIN handed' : handed'[n] <= owner'.generation
    BY <1>1, <1>2, <1>3, <2>1, <2>2, <2>4, SMTT(30)
  <2>6. \A m, n \in DOMAIN handed' : handed'[m] = handed'[n] => m = n
    BY <1>2, <2>1, <2>2, <2>3, <2>4
  <2>7. \A n \in Nat : n \in {owner'.pending, owner'.verifier}
          => n \in DOMAIN handed' /\ handed'[n] = owner'.generation
    BY <1>2, <1>3, <2>1, OwnerConstants
  <2>. QED
    BY <1>3, <2>5, <2>6, <2>7 DEF TokensCurrent
<1>7. Valid(owner)'
  BY DEF Claim, Valid, Active
<1>. QED
  BY <1>4, <1>5, <1>6, <1>7

LEMMA LoginInv ==
    ASSUME OwnerInv, NEW w \in Workers, NEW token, NEW cookie \in Cookies, Login(w, token, cookie)
    PROVE  OwnerInv'
<1> USE DEF OwnerInv
<1> DEFINE kept == {c \in DOMAIN owner.entries : owner.entries[c] > now}
           entries == [c \in kept \cup {cookie} |-> IF c = cookie THEN now + SESSION_SECONDS
                                                   ELSE owner.entries[c]]
<1>1. /\ owner' = [owner EXCEPT !.entries = entries]
      /\ worker[w] # None /\ cookie \notin DOMAIN born /\ owner.origin = worker[w]
      /\ born' = [c \in DOMAIN born \cup {cookie} |->
                    IF c = cookie THEN [generation |-> owner.generation, origin |-> worker[w]]
                    ELSE born[c]]
      /\ UNCHANGED <<worker, now, handed>>
      /\ Valid(owner')
  BY DEF Login
<1>2. DOMAIN entries = kept \cup {cookie} /\ entries \in [kept \cup {cookie} -> Nat]
  BY OwnerConstants, SMTT(30) DEF TypeOK, OwnerTyped
<1>3. /\ OwnerTyped(owner') /\ owner'.entries = entries /\ owner'.generation = owner.generation
      /\ owner'.origin = owner.origin /\ owner'.claim = owner.claim
      /\ owner'.pending = owner.pending /\ owner'.verifier = owner.verifier
  <2> HIDE DEF entries
  <2>1. DOMAIN entries \subseteq Cookies /\ entries \in [DOMAIN entries -> Nat]
    BY <1>2 DEF TypeOK, OwnerTyped
  <2>. QED
    BY <1>1, <2>1 DEF TypeOK, OwnerTyped
<1>4. worker[w] \in Origins /\ owner.generation \in Nat
  BY <1>1 DEF TypeOK, OwnerTyped
<1> HIDE DEF entries
<1>5. TypeOK'
  <2>1. /\ born' \in [DOMAIN born' -> [generation : Nat, origin : Origins]]
        /\ DOMAIN born' \subseteq Cookies
    BY <1>1, <1>4 DEF TypeOK
  <2>2. /\ worker' \in [Workers -> Origins \cup {None}]
        /\ now' \in Nat
        /\ handed' \in Seq(Nat)
    BY <1>1 DEF TypeOK
  <2>. QED
    BY <1>3, <2>1, <2>2 DEF TypeOK, OwnerTyped
<1>6. SessionsCurrent'
  <2> SUFFICES ASSUME NEW c \in DOMAIN owner'.entries
               PROVE  c \in DOMAIN born' /\ born'[c] = [generation |-> owner'.generation, origin |-> owner'.origin]
    BY DEF SessionsCurrent
  <2>1. c \in kept \cup {cookie}
    BY <1>2, <1>3
  <2>2. CASE c = cookie
    BY <1>1, <1>3, <2>2
  <2>3. CASE c # cookie
    <3>1. c \in DOMAIN born /\ born[c] = [generation |-> owner.generation, origin |-> owner.origin]
      BY <2>1, <2>3 DEF SessionsCurrent
    <3>. QED
      BY <1>1, <1>3, <2>3, <3>1
  <2>. QED
    BY <2>2, <2>3
<1>7. TokensCurrent'
  BY <1>1, <1>3 DEF TokensCurrent
<1>8. Valid(owner)'
  BY <1>1 DEF Valid, Active
<1>. QED
  BY <1>5, <1>6, <1>7, <1>8

LEMMA AcknowledgeFacts ==
    ASSUME OwnerInv, NEW token \in DOMAIN handed, Acknowledge(token)
    PROVE  /\ OwnerTyped(owner') /\ Retained(owner') /\ Valid(owner')
           /\ ~Active(owner) /\ Active(owner') /\ owner'.generation = owner.generation
<1> DEFINE f == Fresh("generated", owner.generation, token)
<1>1. /\ token \in Nat /\ owner.pending = token /\ owner.generation \in Nat
      /\ owner' = SaveAuthority(f) /\ Valid(owner')
  BY DEF Acknowledge, OwnerInv, TypeOK, OwnerTyped
<1>2. /\ f \in Sessionless /\ f.generation = owner.generation /\ f.mode = "generated"
      /\ f.verifier = token /\ f.pending = None /\ f.claim = None
  BY <1>1 DEF Fresh, Sessionless, Modes
<1> HIDE DEF f
<1>3. /\ OwnerTyped(owner') /\ owner'.entries = NoEntries /\ owner'.origin = owner.origin
      /\ owner'.generation = owner.generation /\ owner'.mode = "generated"
      /\ owner'.verifier = token /\ owner'.pending = None /\ owner'.claim = None
  BY <1>1, <1>2, SaveAuthorityKeepsRest, SessionlessTyped
<1>4. token # None
  BY <1>1, OwnerConstants
<1>5. ~Active(owner)
  BY <1>1, <1>4 DEF OwnerInv, Valid
<1>. QED
  BY <1>1, <1>3, <1>5 DEF Retained, Active

\* Each step replaces the grant, works within it, or adds a token or a session to it.
LEMMA NextInv == OwnerInv /\ [Next]_vars => OwnerInv'
<1> SUFFICES ASSUME OwnerInv, [Next]_vars PROVE OwnerInv'
  OBVIOUS
<1>0. /\ OwnerTyped(owner) /\ Valid(owner) /\ now \in Nat
      /\ worker \in [Workers -> Origins \cup {None}]
  BY DEF OwnerInv, TypeOK
<1>1. ASSUME NEW w \in Workers, NEW origin \in Origins, NEW override \in Overrides \cup {None},
             Start(w, origin, override)
      PROVE  OwnerInv'
  <2>1. /\ owner' = Bound(Reconciled(override), origin) /\ Valid(owner')
        /\ UNCHANGED <<now, handed, born>>
        /\ worker' \in [Workers -> Origins \cup {None}]
    BY <1>0, <1>1 DEF Start
  <2>2. OwnerTyped(owner') /\ (Renewed(owner') \/ Retained(owner'))
    BY <2>1, ReconciledCases, BoundKeeps
  <2>. QED
    BY <1>0, <2>1, <2>2, RenewedInv, RetainedInv
<1>2. ASSUME NEW override \in Overrides \cup {None}, StartCut(override) PROVE OwnerInv'
  <2>1. owner' = Reconciled(override) /\ Valid(owner') /\ UNCHANGED <<worker, now, handed, born>>
    BY <1>2 DEF StartCut
  <2>2. Retained(owner)
    BY DEF Retained
  <2>3. OwnerTyped(owner') /\ (Renewed(owner') \/ Retained(owner'))
    BY <2>1, <2>2, ReconciledCases
  <2>. QED
    BY <1>0, <2>1, <2>3, RenewedInv, RetainedInv
<1>3. ASSUME NEW mode \in {"unclaimed", "recovery"}, owner' = Claimable(mode), Valid(owner'),
             UNCHANGED <<worker, now, handed, born>>
      PROVE  OwnerInv'
  BY <1>0, <1>3, RenewedByConsole, RenewedInv
<1>4. ASSUME NEW code \in Generations, ClaimRefused(code) PROVE OwnerInv'
  <2>1. OwnerTyped(owner') /\ Retained(owner')
    BY <1>0, <1>4, OwnerConstants DEF ClaimRefused, OwnerTyped, Retained
  <2>. QED
    BY <1>0, <1>4, <2>1, RetainedInv DEF ClaimRefused
<1>5. ASSUME NEW token \in DOMAIN handed, Acknowledge(token) PROVE OwnerInv'
  BY <1>0, <1>5, AcknowledgeFacts, RetainedInv DEF Acknowledge
<1>6. ASSUME NEW w \in Workers, NEW cookie \in Cookies, Logout(w, cookie) PROVE OwnerInv'
  <2> DEFINE entries == [c \in DOMAIN owner.entries \ {cookie} |-> owner.entries[c]]
  <2>1. owner' = [owner EXCEPT !.entries = entries] /\ Valid(owner') /\ UNCHANGED <<worker, now, handed, born>>
    BY <1>6 DEF Logout
  <2>2. /\ DOMAIN entries \subseteq DOMAIN owner.entries /\ DOMAIN entries \subseteq Cookies
        /\ entries \in [DOMAIN entries -> Nat]
    BY <1>0 DEF OwnerTyped
  <2> HIDE DEF entries
  <2>3. OwnerTyped(owner') /\ Retained(owner')
    BY <1>0, <2>1, <2>2 DEF OwnerTyped, Retained
  <2>. QED
    BY <1>0, <2>1, <2>3, RetainedInv
<1>7. ASSUME owner' = owner, UNCHANGED <<handed, born>>, now' \in Nat,
             worker' \in [Workers -> Origins \cup {None}]
      PROVE  OwnerInv'
  BY <1>0, <1>7, RetainedInv DEF Retained
<1>8. ASSUME NEW w \in Workers, Stop(w) PROVE OwnerInv'
  BY <1>0, <1>7, <1>8 DEF Stop
<1>9. CASE Tick
  BY <1>0, <1>7, <1>9 DEF Tick
<1>10. CASE UNCHANGED vars
  BY <1>0, <1>7, <1>10 DEF vars
<1>11. CASE ConsoleClaim
  BY <1>3, <1>11 DEF ConsoleClaim
<1>12. CASE ConsoleRecover
  BY <1>3, <1>12 DEF ConsoleRecover
<1>. QED
  BY <1>1, <1>2, <1>4, <1>5, <1>6, <1>8, <1>9, <1>10, <1>11, <1>12, ClaimInv, LoginInv DEF Next

\* The invariant holds in every behaviour of the owner's protocol.
THEOREM OwnerInvariant == Spec => []OwnerInv
<1>1. Init => OwnerInv
  BY InitInv
<1>2. OwnerInv /\ [Next]_vars => OwnerInv'
  BY NextInv
<1>. QED
  BY <1>1, <1>2, PTL DEF Spec

\* For any number of server processes, origins, environment tokens, sessions and recoveries, a
\* cookie opens only the generation and origin it was issued for (owner.py, bind_origin).
THEOREM SessionsStayBound == Spec => []SessionsBoundToBirth
<1>1. OwnerInv => SessionsBoundToBirth
  BY DEF OwnerInv, SessionsCurrent, SessionsBoundToBirth, Honoured
<1>. QED
  BY <1>1, OwnerInvariant, PTL

\* A generation hands out one token at most, and only that one is ever accepted under it.
THEOREM TokensStayCurrent == Spec => []OneTokenPerGeneration
<1>1. OwnerInv => OneTokenPerGeneration
  <2> SUFFICES ASSUME OwnerInv PROVE OneTokenPerGeneration
    OBVIOUS
  <2>1. DOMAIN handed \subseteq Nat
    BY DEF OwnerInv, TypeOK
  <2>. QED
    BY <2>1 DEF OwnerInv, TokensCurrent, OneTokenPerGeneration
<1>. QED
  BY <1>1, OwnerInvariant, PTL

LEMMA StepImplementsAuthority ==
    OwnerInv /\ [Next]_vars => [Authority!Next]_<<Active(owner), owner.generation>>
<1> SUFFICES ASSUME OwnerInv, [Next]_vars
             PROVE  \/ Authority!Next
                    \/ Active(owner') = Active(owner) /\ owner'.generation = owner.generation
  BY DEF Active
<1> DEFINE Same == owner'.mode = owner.mode /\ owner'.generation = owner.generation
           New == owner'.generation = owner.generation + 1
<1>0. OwnerTyped(owner)
  BY DEF OwnerInv, TypeOK
<1>1. ASSUME NEW w \in Workers, NEW override \in Overrides \cup {None}, NEW origin \in Origins,
             Start(w, origin, override)
      PROVE  Same \/ New
  BY <1>1, ReconciledCases, BoundKeeps DEF Renewed, Start
<1>6. ASSUME NEW override \in Overrides \cup {None}, StartCut(override) PROVE Same \/ New
  BY <1>6, ReconciledCases DEF Renewed, StartCut
<1>2. ASSUME ConsoleClaim \/ ConsoleRecover PROVE New
  BY <1>2, RenewedByConsole DEF Renewed, ConsoleClaim, ConsoleRecover
<1>3. ASSUME NEW code \in Generations, Claim(code) \/ ClaimRefused(code) PROVE Same
  BY <1>0, <1>3 DEF Claim, ClaimRefused, OwnerTyped
<1>4. ASSUME NEW w \in Workers, NEW cookie \in Cookies, NEW token,
             Login(w, token, cookie) \/ Logout(w, cookie)
      PROVE  Same
  BY <1>0, <1>4 DEF Login, Logout, OwnerTyped
<1>5. ASSUME NEW token \in DOMAIN handed, Acknowledge(token) PROVE Authority!Acknowledge
  BY <1>5, AcknowledgeFacts DEF Authority!Acknowledge, Active
<1>7. ASSUME UNCHANGED owner PROVE Same
  BY <1>7
<1>8. ASSUME NEW w \in Workers, Stop(w) PROVE UNCHANGED owner
  BY <1>8 DEF Stop
<1>9. Tick \/ UNCHANGED vars => UNCHANGED owner
  BY DEF Tick, vars
<1> HIDE DEF Same, New
<1>10. Same \/ New \/ Authority!Acknowledge
  BY <1>1, <1>2, <1>3, <1>4, <1>5, <1>6, <1>7, <1>8, <1>9 DEF Next
<1>11. Same => Active(owner') = Active(owner) /\ owner'.generation = owner.generation
  BY DEF Same, Active
<1>12. New => Authority!Replace
  BY DEF New, Authority!Replace, Active
<1>. QED
  BY <1>10, <1>11, <1>12 DEF Authority!Next

\* The owner's protocol implements OwnerAuthority: whatever logins, refused claims, restarts and
\* interrupted starts happen, a grant of authority begins and ends with its generation.
THEOREM OwnerRefinement == Spec => ImplementsOwnerAuthority
<1>1. Init => Authority!Init
  BY DEF Init, Authority!Init, Active, Fresh
<1>2. OwnerInv /\ [Next]_vars => [Authority!Next]_<<Active(owner), owner.generation>>
  BY StepImplementsAuthority
<1>. QED
  BY <1>1, <1>2, OwnerInvariant, PTL DEF Spec, ImplementsOwnerAuthority, Authority!Spec

\* A console that cannot recover leaves an owner locked out.  What console_claim builds from a
\* reachable namespace passes validate_owner_state.
THEOREM RecoveryNeverRefused == Spec => []RecoverNeverRefused
<1>1. ASSUME OwnerInv PROVE Valid(Claimable("recovery"))
  <2> DEFINE f == Fresh("recovery", owner.generation + 1, None)
             g == [f EXCEPT !.claim = owner.generation + 1, !.claim_expires = now + CLAIM_SECONDS]
             h == Claimable("recovery")
  <2>1. now + CLAIM_SECONDS \in Nat /\ owner.generation + 1 \in Nat
    BY <1>1, OwnerConstants, SMTT(30) DEF OwnerInv, TypeOK, OwnerTyped
  <2>2. /\ f \in Sessionless /\ f.mode = "recovery" /\ f.verifier = None /\ f.pending = None
        /\ f.claim_attempts = 0
    BY <2>1 DEF Fresh, Sessionless, Modes
  <2>3. h = SaveAuthority(g)
    BY DEF Claimable
  <2> HIDE DEF f
  <2>4. /\ g \in Sessionless /\ g.mode = "recovery" /\ g.verifier = None /\ g.pending = None
        /\ g.claim_attempts = 0
    BY <2>1, <2>2 DEF Sessionless
  <2> HIDE DEF g, h
  <2>5. h.mode = "recovery" /\ h.verifier = None /\ h.pending = None /\ h.entries = NoEntries
    BY <1>1, <2>3, <2>4, SaveAuthorityKeepsRest
  <2>6. h.claim_attempts = 0
    BY <2>3, <2>4 DEF SaveAuthority, Sessionless
  <2>7. DOMAIN h.entries = {}
    BY <2>5 DEF NoEntries
  <2>8. Cardinality(DOMAIN h.entries) = 0
    BY <2>7, FS_EmptySet
  <2>9. Cardinality(DOMAIN h.entries) <= SESSION_LIMIT /\ h.claim_attempts <= MaxAttempts
    BY <2>6, <2>8, OwnerConstants
  <2>10. Valid(h)
    BY <2>5, <2>9 DEF Valid, Active
  <2> QED
    BY <2>10 DEF h
<1>2. OwnerInv => RecoverNeverRefused
  BY <1>1 DEF RecoverNeverRefused
<1> QED
  BY <1>2, OwnerInvariant, PTL
=============================================================================
