------------------------------ MODULE MCTools ------------------------------
(* Tools with one name, good manifests of which one describes itself as a   *)
(* built-in tool does, one of each other kind, and commands that differ in  *)
(* their query, or in more.                                                 *)
EXTENDS Tools

Token(base, query) == [base |-> base, query |-> query, star |-> FALSE]
Symmetry == Permutations(Doors) \cup Permutations(Uis)
MCRaws == {<<Token("u", "")>>, <<Token("u", "a")>>, <<Token("u", "b")>>, <<Token("curl", ""), Token("v", "a")>>}
(* Two programs that suggest, of which each may run what the other counts;  *)
(* one, beside a turn that a cancel left behind; and one beside the shelf.  *)
MCBounds ==
    {[uis |-> u, runs |-> r, weeks |-> w, offers |-> 2, operations |-> o, tampers |-> t] :
        <<u, r, w, o, t>> \in {<<Uis, 2, 2, 0, 0>>, <<{}, 0, 0, 4, 0>>, <<{}, 0, 0, 3, 1>>}
                            \cup {<<{a}, 3, 2, 0, 0>> : a \in Uis} \cup {<<{a}, 2, 0, 1, 0>> : a \in Uis}}
MCUrl == [body \in Bodies |-> IF body = "good1" THEN <<Token("u", "a")>> ELSE <<Token("v", "a")>>]
MCWords == [x \in Bodies \cup Names |-> IF x = "good2" THEN {"fetch", "a", "page"} ELSE {x, "tool"}]
MCNatives == {[name |-> {"fetch"}, description |-> {"fetch", "a", "page"}],
              [name |-> {"bash"}, description |-> {"run", "a", "command"}]}
=============================================================================
