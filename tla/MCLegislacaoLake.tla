-------------------------- MODULE MCLegislacaoLake --------------------------
(***************************************************************************)
(* Versions 1 and 2 of a law of three articles, 2 amending one provision;   *)
(* version 3 fails the contract.  Parser 1 cannot read version 2; parser 2  *)
(* finds one provision more; with it the old chunker exceeds the limit on   *)
(* version 2, which chunker 2 (deployed with another model) fixes.          *)
(***************************************************************************)
EXTENDS LegislacaoLake, TLC

MCReleases ==
    << [parser |-> 1, chunker |-> 1, modelo |-> "e5"],
       [parser |-> 2, chunker |-> 1, modelo |-> "e5"],
       [parser |-> 2, chunker |-> 2, modelo |-> "bge"] >>
MCParseFalha == {<<2, 1>>}
MCChunkFalha == {<<2, 2, 1, "tokenizer">>}
MCProvisoes ==
    [x \in (1..3) \X {1, 2} |->
        (IF x[1] = 2 THEN {"a1", "b1", "c2"} ELSE {"a1", "b1", "c1"})
          \cup (IF x[2] = 2 THEN {"b2"} ELSE {})]
MCArtDe == "a1" :> "a" @@ "b1" :> "b" @@ "b2" :> "b" @@ "c1" :> "c" @@ "c2" :> "c"
\* The estimate cuts article b in another place.
MCTextos ==
    [x \in (1..3) \X {1, 2} \X {"tokenizer", "estimate"} |->
        {"a", IF x[1] = 2 THEN "c2" ELSE "c1",
         IF x[3] = "estimate" THEN "b_est" ELSE IF x[2] = 2 THEN "b_2" ELSE "b_1"}]
=============================================================================
