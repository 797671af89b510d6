------------------------- MODULE MCTranslationQueue -------------------------
(* Small queues for TranslationQueue. *)
EXTENDS TranslationQueue

\* Two clusters of one output directory and one without members between them; the
\* last has a member that shares its output path with one of the first.
ThreeClusters ==
  <<[name |-> "sha", out |-> "crypto", members |-> <<"sha256_init", "sha224_init">>],
    [name |-> "todo", out |-> "crypto", members |-> <<>>],
    [name |-> "init", out |-> "crypto", members |-> <<"sha224_init">>]>>
OneSilent == {<<1, 1>>}

OneMember == <<[name |-> "sha", out |-> "crypto", members |-> <<"sha224_init">>]>>
AllSilent == {<<1, 1>>}
=============================================================================
