------------------------------- MODULE MCNuke -------------------------------
(***************************************************************************)
(* Small queues for the run engine.  Each is a corner of the catalogue:    *)
(* Net is what a cluster stands on, Crypto the certificate chain whose     *)
(* deletions are only scheduled, Mixed a run that has some of both.  What  *)
(* depends on what, and who has a hook, is what the catalogue registers.   *)
(***************************************************************************)
EXTENDS Nuke

C == INSTANCE Catalogue
Types == C!TypeName
Dependencies == C!DependencyGraph
Hooked == C!Implementing("HandleWait")
Blocking == C!Implementing("Blocks")
Deferring == C!Implementing("Defer")
OnlyScheduled == {t \in Types : C!Registered[t].removal = "schedule"}

NoBlocks == [i \in Item |-> {}]
OneOwner == [i \in Item |-> "region"]

\* A cluster with a hook of its own, the subnet its nodes are in, and the VCN.
NetTypeOf == <<"Subnet", "OkeCluster", "Vcn">>
NetName == <<"subnet", "cluster", "vcn">>
NetHolders == <<{2}, {}, {1}>>

\* A certificate, the authority that issued it, and the key that signs for the authority.
CryptoTypeOf == <<"Key", "CertificateAuthority", "Certificate">>
CryptoBlocks == <<{}, {1}, {2}>>
CryptoName == <<"key", "authority", "certificate">>
CryptoHolders == <<{}, {3}, {}>>

\* Both, without the VCN: a chain that ends in a deferral beside one that is waited for.
MixedTypeOf == <<"Subnet", "OkeCluster", "Key", "CertificateAuthority", "Certificate">>
MixedBlocks == <<{}, {}, {}, {3}, {4}>>
MixedName == <<"subnet", "cluster", "key", "authority", "certificate">>
MixedHolders == <<{2}, {}, {}, {5}, {}>>
=============================================================================
