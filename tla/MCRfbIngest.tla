---- MODULE MCRfbIngest ----
(* A month of three files: two of the establishments, one domain table.  The *)
(* sample of dev_mode leaves one establishment of the first file out.        *)
EXTENDS RfbIngest, TLC

MCEntidade == 1 :> "estabelecimentos" @@ 2 :> "estabelecimentos" @@ 3 :> "cnaes"
MCChaves == {"a", "b", "c", "n"}
MCConteudo == [p \in Meses \X Arquivos |-> CASE p[2] = 1 -> {"a", "b"} [] p[2] = 2 -> {"c"} [] OTHER -> {"n"}]
MCAmostra == [p \in Meses \X Arquivos |-> IF p[2] = 1 THEN {"a"} ELSE MCConteudo[p]]
====
