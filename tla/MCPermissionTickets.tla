------------------------ MODULE MCPermissionTickets ------------------------
(* Small instances of PermissionTickets for TLC. *)
EXTENDS PermissionTickets, TLC

\* A read, an edit, and the host tool that widens the scope for edits.
MCRequests == {[cap |-> "read", paths |-> {"read a"}], [cap |-> "edit", paths |-> {"write b"}],
               [cap |-> "expand", paths |-> {"write b"}]}

\* An edit alone.
EditOnly == {[cap |-> "edit", paths |-> {"write b"}]}

\* Every capability, but one path to read, and nothing.
MCScopes == {[caps |-> {"read", "edit", "expand"}, paths |-> {"read a"}],
             [caps |-> {}, paths |-> {}]}

Nothing == {[caps |-> {}, paths |-> {}]}

Symmetry == Permutations(Calls)

\* Bound: two owners share one revision and two edits, one owner sees more of both.
Small ==
    epoch[ThisRun] <= 1 \/ (revision <= 2 /\ \A c \in Calls : call[c].pc # "idle" => call[c].req.cap = "edit")

=============================================================================
