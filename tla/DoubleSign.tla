----------------------------- MODULE DoubleSign -----------------------------
(***************************************************************************)
(* The precompiled contract that decides whether two headers are evidence  *)
(* that one validator signed two blocks on one parent                      *)
(* (evm/precompiles/double_sign.rs).                                       *)
(*                                                                         *)
(* A header is [fields, parent_hash, number, rest, seal]: how many fields  *)
(* its encoding has, the ones that are compared, all the others, and the   *)
(* seal at the end of its extra data, [by, of] or NoSeal.                  *)
(***************************************************************************)
EXTENDS Integers

CONSTANT NoSeal

\* The contract reads the fields headers had before London, and no header with more.
Decodes(header) == header.fields = 15

\* What a seal signs. It leaves the seal out.
seal_hash(header, chain_id) == <<chain_id, header.parent_hash, header.number, header.rest>>

\* From a seal of something else somebody else is recovered, if anybody.
ecrecover(header, chain_id) ==
  IF header.seal.of = seal_hash(header, chain_id) THEN header.seal.by ELSE <<"other", header>>

\* "evidence" stands for the signer and the height.
double_sign_evidence_validation_run(chain_id, header1, header2) ==
  CASE ~Decodes(header1) \/ ~Decodes(header2) -> "revert"
    [] header1.number # header2.number \/ header1.parent_hash # header2.parent_hash
       \/ NoSeal \in {header1.seal, header2.seal} \/ header1.seal = header2.seal
       \/ seal_hash(header1, chain_id) = seal_hash(header2, chain_id) -> "invalid"
    [] OTHER -> IF ecrecover(header1, chain_id) # ecrecover(header2, chain_id) THEN "invalid"
                ELSE "evidence"
=============================================================================
