------------------------------- MODULE MCPlan -------------------------------
(***************************************************************************)
(* The crypto chain in the worst order for the sweeps, dependents first,   *)
(* with a second authority, whose key is not in the queue, and a           *)
(* certificate of each.                                                    *)
(***************************************************************************)
EXTENDS Plan

C == INSTANCE Catalogue

ChainTypeOf ==
  <<"Vault", "Key", "CertificateAuthority", "CertificateAuthority", "Certificate", "Certificate">>
Types == C!TypeName
Dependencies == C!DependencyGraph
Blocking == C!Implementing("Blocks")
Deferring == C!Implementing("Defer")
ChainBlocks == <<{}, {1}, {2}, {}, {3}, {4}>>
=============================================================================
