------------------------------- MODULE OwnerAuth -------------------------------
(***************************************************************************)
(* The owner of the installation (auth/owner.py, auth/cli.py): the console *)
(* prints a claim code, a browser trades it for an operator token, the     *)
(* saved token is acknowledged and from then on opens sessions.  The       *)
(* server can instead be given its token by the environment.  Old and new  *)
(* server processes and the console share the owner namespace of           *)
(* authz.json; each operation is one transaction of the credential store.  *)
(***************************************************************************)
EXTENDS Naturals, Sequences, FiniteSets

CONSTANTS Workers,          \* server processes; an old one may still run beside a new one
          Origins,          \* public origins they are configured with
          Overrides,        \* values of OPERATOR_TOKEN
          Cookies,          \* session cookies, drawn at random and never twice
          None,             \* an absent key
          CLAIM_SECONDS, SESSION_SECONDS, SESSION_LIMIT, MaxAttempts,
          MaxGeneration,    \* bound: authority changes
          Horizon           \* bound: the clock stops here

ASSUME OwnerConstants ==
    /\ None \notin Origins \cup Overrides \cup Nat
    /\ Overrides \cap Nat = {}
    /\ CLAIM_SECONDS \in Nat \ {0} /\ SESSION_SECONDS \in Nat \ {0}
    /\ SESSION_LIMIT \in Nat \ {0} /\ MaxAttempts \in Nat \ {0}
    /\ MaxGeneration \in Nat /\ Horizon \in Nat

VARIABLES
    owner,    \* the owner namespace
    worker,   \* per server process: its origin, None while it is down
    now,      \* time.time()
    handed,   \* history: token n was handed out under generation handed[n]
    born      \* history: the generation and origin under which a cookie was issued

vars == <<owner, worker, now, handed, born>>

\* A generation is numbered by its place in time; its console code carries the same number.
Generations == 1 .. MaxGeneration
Modes == {"new", "unclaimed", "recovery", "generated", "environment"}
Active(state) == state.mode \in {"generated", "environment"}

OwnerTyped(state) ==
    /\ state \in [mode : Modes, generation : Nat, verifier : Nat \cup Overrides \cup {None},
                  claim : Nat \cup {None}, claim_expires : Nat, claim_attempts : Nat,
                  pending : Nat \cup {None}, pending_expires : Nat,
                  origin : Origins \cup {None}, entries : [DOMAIN state.entries -> Nat]]
    /\ DOMAIN state.entries \subseteq Cookies

\* Every part of the namespace has the shape validate_owner_state demands; bookkeeping is typed.
TypeOK ==
    /\ OwnerTyped(owner)
    /\ worker \in [Workers -> Origins \cup {None}]
    /\ now \in Nat
    /\ handed \in Seq(Nat)
    /\ born \in [DOMAIN born -> [generation : Nat, origin : Origins]] /\ DOMAIN born \subseteq Cookies

NoEntries == [c \in {} |-> 0]

\* A namespace of the given mode with nothing but its generation and verifier.
Fresh(mode, generation, verifier) ==
    [mode |-> mode, generation |-> generation, verifier |-> verifier, claim |-> None,
     claim_expires |-> 0, claim_attempts |-> 0, pending |-> None, pending_expires |-> 0,
     origin |-> None, entries |-> NoEntries]

Init ==
    /\ owner = Fresh("new", 0, None)
    /\ worker = [w \in Workers |-> None]
    /\ now = 0 /\ handed = <<>> /\ born = NoEntries

\* validate_owner_state, without which nothing is saved.
Valid(state) ==
    /\ Active(state) => state.verifier # None /\ state.claim = None /\ state.pending = None
    /\ ~Active(state) => state.verifier = None /\ state.entries = NoEntries
    /\ state.claim # None => state.pending = None
    /\ state.claim_attempts <= MaxAttempts
    /\ Cardinality(DOMAIN state.entries) <= SESSION_LIMIT

\* Mutant of SaveAuthority: the sessions opened under the old authority are carried over.
SaveAuthorityKeeps(state) == [state EXCEPT !.origin = owner.origin, !.entries = owner.entries]

\* _save_authority: sessions end, the origin binding stays.
SaveAuthority(state) == [state EXCEPT !.origin = owner.origin, !.entries = NoEntries]

\* Mutant of Bound: the namespace is re-labelled and the sessions of the old origin survive.
BoundRelabelled(state, origin) == [state EXCEPT !.origin = origin]

\* bind_origin
Bound(state, origin) ==
    IF state.origin = origin THEN state
    ELSE [state EXCEPT !.origin = origin, !.entries = NoEntries]

-----------------------------------------------------------------------------
\* Mutant of Reconciled: removing the environment token leaves the generation alone.
ReconciledInPlace(override) ==
    IF override # None
    THEN IF owner.mode = "environment" /\ owner.verifier = override THEN owner
         ELSE SaveAuthority(Fresh("environment", owner.generation + 1, override))
    ELSE IF owner.mode = "environment" THEN SaveAuthority(Fresh("recovery", owner.generation, None))
    ELSE IF owner.mode = "new" THEN SaveAuthority(Fresh("unclaimed", owner.generation + 1, None))
    ELSE owner

\* The first half of initialize: the environment's token against the stored authority.
Reconciled(override) ==
    IF override # None
    THEN IF owner.mode = "environment" /\ owner.verifier = override THEN owner
         ELSE SaveAuthority(Fresh("environment", owner.generation + 1, override))
    ELSE IF owner.mode = "environment" THEN SaveAuthority(Fresh("recovery", owner.generation + 1, None))
    ELSE IF owner.mode = "new" THEN SaveAuthority(Fresh("unclaimed", owner.generation + 1, None))
    ELSE owner

\* A server process starts: initialize, then bind_origin in the same transaction.
Start(w, origin, override) ==
    /\ worker[w] = None
    /\ Reconciled(override).generation <= MaxGeneration
    /\ owner' = Bound(Reconciled(override), origin)
    /\ Valid(owner')
    /\ worker' = [worker EXCEPT ![w] = origin]
    /\ UNCHANGED <<now, handed, born>>

\* It dies, or its second save fails, between the two saves of initialize.
StartCut(override) ==
    /\ Reconciled(override).generation <= MaxGeneration
    /\ owner' = Reconciled(override)
    /\ Valid(owner')
    /\ UNCHANGED <<worker, now, handed, born>>

Stop(w) ==
    /\ worker[w] # None
    /\ worker' = [worker EXCEPT ![w] = None]
    /\ UNCHANGED <<owner, now, handed, born>>

\* Mutant of Claimable: the new code is printed under the old generation.
ClaimableSameGeneration(mode) ==
    SaveAuthority([Fresh(mode, IF owner.generation = 0 THEN 1 ELSE owner.generation, None) EXCEPT
        !.claim = owner.generation + 1, !.claim_expires = now + CLAIM_SECONDS])

\* The namespace console_claim leaves: a new generation and its code.
Claimable(mode) ==
    SaveAuthority([Fresh(mode, owner.generation + 1, None) EXCEPT
        !.claim = owner.generation + 1, !.claim_expires = now + CLAIM_SECONDS])

\* vauxr-owner claim, in a console without OPERATOR_TOKEN.
ConsoleClaim ==
    /\ owner.mode \in {"new", "unclaimed"}
    /\ owner.pending # None => owner.pending_expires <= now
    /\ owner.generation < MaxGeneration
    /\ owner' = Claimable("unclaimed")
    /\ Valid(owner')
    /\ UNCHANGED <<worker, now, handed, born>>

\* vauxr-owner recover: allowed in every mode but "environment".
ConsoleRecover ==
    /\ owner.mode # "environment"
    /\ owner.generation < MaxGeneration
    /\ owner' = Claimable("recovery")
    /\ Valid(owner')
    /\ UNCHANGED <<worker, now, handed, born>>

-----------------------------------------------------------------------------
\* A claim code that is right, in time and not guessed at too often.
Redeemable(code) ==
    /\ owner.mode \in {"unclaimed", "recovery"}
    /\ owner.claim_expires > now
    /\ owner.claim_attempts < MaxAttempts
    /\ owner.claim = code

\* claim: a fresh operator token is handed out and waits for its acknowledgement.
Claim(code) ==
    /\ Redeemable(code)
    /\ handed' = Append(handed, owner.generation)
    /\ owner' = [owner EXCEPT !.claim = None, !.pending = Len(handed) + 1,
                              !.pending_expires = now + CLAIM_SECONDS]
    /\ Valid(owner')
    /\ UNCHANGED <<worker, now, born>>

\* Any other code counts against the one that is waiting.
ClaimRefused(code) ==
    /\ ~Redeemable(code)
    /\ owner.claim # None
    /\ owner' = [owner EXCEPT !.claim_attempts = IF @ < MaxAttempts THEN @ + 1 ELSE @]
    /\ Valid(owner')
    /\ UNCHANGED <<worker, now, handed, born>>

\* acknowledge: the token was saved; it becomes the owner's, in the same generation.
Acknowledge(token) ==
    /\ owner.pending = token
    /\ owner.pending_expires > now
    /\ owner' = SaveAuthority(Fresh("generated", owner.generation, token))
    /\ Valid(owner')
    /\ UNCHANGED <<worker, now, handed, born>>

\* login at worker w.  Expired sessions are dropped first, then the limit counts.
Login(w, token, cookie) ==
    LET kept == {c \in DOMAIN owner.entries : owner.entries[c] > now}
    IN  /\ worker[w] # None
        /\ cookie \notin DOMAIN born
        /\ Active(owner) /\ owner.verifier = token
        /\ owner.origin = worker[w]
        /\ Cardinality(kept) < SESSION_LIMIT
        /\ owner' = [owner EXCEPT !.entries =
                        [c \in kept \cup {cookie} |-> IF c = cookie THEN now + SESSION_SECONDS
                                                      ELSE owner.entries[c]]]
        /\ Valid(owner')
        /\ born' = [c \in DOMAIN born \cup {cookie} |->
                       IF c = cookie THEN [generation |-> owner.generation, origin |-> worker[w]]
                       ELSE born[c]]
        /\ UNCHANGED <<worker, now, handed>>

Logout(w, cookie) ==
    /\ worker[w] # None /\ owner.origin = worker[w]
    /\ cookie \in DOMAIN owner.entries
    /\ owner' = [owner EXCEPT !.entries = [c \in DOMAIN owner.entries \ {cookie} |-> owner.entries[c]]]
    /\ Valid(owner')
    /\ UNCHANGED <<worker, now, handed, born>>

Tick ==
    /\ now < Horizon
    /\ now' = now + 1
    /\ UNCHANGED <<owner, worker, handed, born>>

Next ==
    \/ \E w \in Workers, origin \in Origins, override \in Overrides \cup {None} : Start(w, origin, override)
    \/ \E override \in Overrides \cup {None} : StartCut(override)
    \/ \E w \in Workers : Stop(w)
    \/ ConsoleClaim \/ ConsoleRecover
    \/ \E code \in Generations : Claim(code) \/ ClaimRefused(code)
    \/ \E token \in DOMAIN handed : Acknowledge(token)
    \/ \E w \in Workers, token \in DOMAIN handed \cup Overrides, cookie \in Cookies : Login(w, token, cookie)
    \/ \E w \in Workers, cookie \in Cookies : Logout(w, cookie)
    \/ Tick

Spec == Init /\ [][Next]_vars

-----------------------------------------------------------------------------
\* The presented cookie opens the owner's door at worker w (session).
Honoured(w, cookie) ==
    /\ worker[w] # None
    /\ Active(owner) /\ owner.origin = worker[w]
    /\ cookie \in DOMAIN owner.entries /\ owner.entries[cookie] > now

\* A cookie works only under the generation and at the origin it was issued for, whatever has
\* happened since: recovery, a new or removed OPERATOR_TOKEN, an origin changed and changed back,
\* an old server process still running ("including an A -> B -> A transition", bind_origin).
SessionsBoundToBirth ==
    \A w \in Workers, c \in Cookies : Honoured(w, c) =>
        /\ c \in DOMAIN born
        /\ born[c] = [generation |-> owner.generation, origin |-> worker[w]]

\* A generation hands out at most one operator token, and the token that is waiting or accepted
\* is the one of the present generation: a token printed before a recovery can never be
\* acknowledged or used after it (console_claim, claim, acknowledge).
OneTokenPerGeneration ==
    /\ \A m, n \in DOMAIN handed : handed[m] = handed[n] => m = n
    /\ \A n \in DOMAIN handed : n \in {owner.pending, owner.verifier} => handed[n] = owner.generation

\* Recovery at the console is never refused by the store's own validation, whatever sessions,
\* claims and pending tokens it finds (console_claim, validate_owner_state).
RecoverNeverRefused == owner.mode # "environment" => Valid(Claimable("recovery"))

\* Login, logout, claims and restarts leave the grant alone; it starts and ends with its
\* generation, which is what enrollments and lifecycle operations record (_save_authority).
Authority == INSTANCE OwnerAuthority WITH active <- Active(owner), generation <- owner.generation
\* The owner's protocol implements the abstract authority the other components rely on.
ImplementsOwnerAuthority == Authority!Spec
=============================================================================
