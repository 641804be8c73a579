------------------------ MODULE PermissionAuthority ------------------------
(***************************************************************************)
(* What the permission service of a sandbox task promises, without tickets *)
(* and proposals.  A call starts because the scope covers what it does, or *)
(* because the trusted side consented to exactly that; a consent serves    *)
(* one start and widens the scope by it.  Every decision of the trusted    *)
(* side (consent, denial, revocation, cancellation) ends the authority of  *)
(* all calls under way: the commit of none of them is let through any      *)
(* more.                                                                   *)
(***************************************************************************)
CONSTANTS
    Calls,      \* identities of calls
    Caps,       \* capabilities
    Paths,      \* paths, each to be read, to be written or to install from
    Versions,   \* versions of the inputs of a call
    NoConsent

VARIABLES
    scope,      \* what may be done without asking
    consent,    \* the subject the trusted side consented to, or NoConsent
    started,    \* pairs of a call and the subject it was started for
    valid,      \* calls under way whose authority still holds
    committed   \* calls whose commit was let through

vars == <<scope, consent, started, valid, committed>>

Actions == [cap : Caps, paths : SUBSET Paths]
Scopes == [caps : SUBSET Caps, paths : SUBSET Paths]

\* A subject is a request together with the version of its inputs.
Subjects == [req : Actions, ver : Versions]

Covers(s, req) == req.cap \in s.caps /\ req.paths \subseteq s.paths

Widen(s, req) == [caps |-> s.caps \cup {req.cap}, paths |-> s.paths \cup req.paths]

Init ==
    /\ scope \in Scopes
    /\ consent = NoConsent
    /\ started = {}
    /\ valid = {}
    /\ committed = {}

\* The trusted side consents to one subject, denies or cancels.
Decide ==
    /\ consent' \in Subjects \cup {NoConsent}
    /\ valid' = {}
    /\ UNCHANGED <<scope, started, committed>>

\* The trusted side replaces the scope.
Regulate ==
    /\ scope' \in Scopes
    /\ consent' = NoConsent
    /\ valid' = {}
    /\ UNCHANGED <<started, committed>>

\* The scope a task begins with, set before anything was decided or started.
Preset ==
    /\ consent = NoConsent
    /\ started = {}
    /\ scope' \in Scopes
    /\ UNCHANGED <<consent, started, valid, committed>>

Start(c, a) ==
    /\ \A p \in started : p[1] # c
    /\ \/ Covers(scope, a.req) /\ UNCHANGED <<scope, consent>>
       \/ /\ consent = a
          /\ scope' = Widen(scope, a.req)
          /\ consent' = NoConsent
    /\ started' = started \cup {<<c, a>>}
    /\ valid' \subseteq valid \cup {c}
    /\ UNCHANGED committed

\* The commit of a call is let through, on an authority nobody has withdrawn.
Commit(c) ==
    /\ c \in valid
    /\ valid' = valid \ {c}
    /\ committed' = committed \cup {c}
    /\ UNCHANGED <<scope, consent, started>>

\* Calls end, or their process dies.
End ==
    /\ valid' \subseteq valid
    /\ UNCHANGED <<scope, consent, started, committed>>

Next ==
    \/ Decide
    \/ Regulate
    \/ Preset
    \/ \E c \in Calls, a \in Subjects : Start(c, a)
    \/ \E c \in Calls : Commit(c)
    \/ End

Spec == Init /\ [][Next]_vars

=============================================================================
