-------------------------- MODULE MCPlaybookEngine -------------------------
EXTENDS PlaybookEngine

MCIds == {"a", "b", "c", "d"}

S(id, type, condition, policy, retries, yes, no) ==
    [id |-> id, type |-> type, condition |-> condition, on_failure |-> policy,
     retry_max |-> retries, next_true |-> yes, next_false |-> no]

\* Every playbook of two steps that jumps somewhere: the two may share an
\* id, lead back to each other or to a step that does not exist ("d").
Jumping ==
    {S(id, type, "data", policy, 1, yes, no) :
        id \in {"a", "b"}, type \in {"work", "condition"},
        policy \in {"abort", "continue"}, yes \in {Nowhere, "a", "b"},
        no \in {Nowhere, "a", "d"}}
Pairs == {<<s, t>> : s, t \in {j \in Jumping : j.type = "work" => j.next_false # "d"}}

\* Longer ones: a containment gated on the outcome of an approval, as the
\* playbooks of the repository have it; one that goes on after an approval
\* unconditionally; a loop of three; retries and their three policies.
Contain == <<S("a", "work", "none", "continue", 1, Nowhere, Nowhere),
             S("b", "approval", "none", "continue", 0, Nowhere, Nowhere),
             S("c", "work", "outcome", "abort", 0, Nowhere, Nowhere),
             S("d", "work", "none", "continue", 0, Nowhere, Nowhere)>>
Loop    == <<S("a", "condition", "data", "abort", 0, "c", "b"),
             S("b", "other", "none", "abort", 0, Nowhere, Nowhere),
             S("c", "work", "none", "retry", 2, "a", Nowhere)>>
Policies == <<S("a", "work", "data", "retry", 2, Nowhere, "c"),
              S("b", "work", "none", "continue", 0, Nowhere, Nowhere),
              S("c", "work", "none", "abort", 2, Nowhere, Nowhere),
              S("d", "work", "none", "abort", 0, Nowhere, Nowhere)>>

MCPlaybooks == Pairs \cup {Contain, Loop, Policies, << >>}
=============================================================================
