----------------------------- MODULE TrustRollover -----------------------------
(***************************************************************************)
(* What a change of trust has to promise, whoever drives it: one published *)
(* material, a leaf and the roots that go with it, that instances of some  *)
(* peers copy when they start and keep until they stop.  Instances start   *)
(* and stop at any moment, any number at a time.  Whoever publishes may    *)
(* only publish material that gets along with everything that is live.     *)
(*                                                                         *)
(* TlsRotation implements it (TlsRotation!ImplementsRollover).             *)
(***************************************************************************)
EXTENDS Naturals, TLAPS

CONSTANT Peers

VARIABLES published, live
vars == <<published, live>>

Material == [signer : Nat, roots : SUBSET Nat]

Live == UNION {live[p] : p \in Peers}

\* Every two of the materials, and each with itself, accept each other.
Agree(S) == \A m, n \in S : n.signer \in m.roots

Init ==
    /\ published \in Material
    /\ live \in [Peers -> SUBSET {published}]
    /\ Live # {} => Agree({published})

Publish ==
    /\ published' \in Material
    /\ Agree(Live \cup {published'})
    /\ UNCHANGED live

\* Some instances stop, others start and copy what is published.
Exchange ==
    /\ Agree({published})
    /\ DOMAIN live' = Peers
    /\ \A p \in Peers : live'[p] \subseteq live[p] \cup {published}
    /\ UNCHANGED published

Next == Publish \/ Exchange

Spec == Init /\ [][Next]_vars

\* Everything live, and what the next instance will copy, get along.
Agreement == Live # {} => Agree(Live \cup {published})

(***************************************************************************)
(* What it is good for: no two live instances ever refuse each other, for  *)
(* any peers and any number of instances and materials.                    *)
(***************************************************************************)
\* Fewer materials get along if more do.
LEMMA AgreeSubset ==
  ASSUME NEW S, NEW T, T \subseteq S, Agree(S)
  PROVE  Agree(T)
  BY DEF Agree

\* What is live after an exchange was live, or is what is published.
LEMMA ExchangedLive ==
  ASSUME Exchange
  PROVE  Live' \subseteq Live \cup {published}
  BY DEF Exchange, Live

LEMMA AgreementNext == Agreement /\ [Next]_vars => Agreement'
<1> SUFFICES ASSUME Agreement, [Next]_vars
             PROVE  Agreement'
  OBVIOUS
<1>1. CASE Publish
  <2>1. Live' = Live
    BY <1>1 DEF Publish, Live
  <2> QED  BY <1>1, <2>1 DEF Publish, Agreement
<1>2. CASE Exchange
  <2>1. Agree(Live \cup {published})
    <3>1. CASE Live = {}
      BY <1>2, <3>1 DEF Exchange, Agree
    <3>2. CASE Live # {}
      BY <3>2 DEF Agreement
    <3> QED  BY <3>1, <3>2
  <2>2. (Live \cup {published})' \subseteq Live \cup {published}
    BY <1>2, ExchangedLive DEF Exchange
  <2> QED  BY <2>1, <2>2, AgreeSubset DEF Agreement
<1>3. CASE UNCHANGED vars
  BY <1>3 DEF vars, Agreement, Live, Agree
<1> QED  BY <1>1, <1>2, <1>3 DEF Next

\* Publishing only what gets along with everything live keeps everything live
\* in agreement, however instances start and stop in between.
THEOREM RolloverAgrees == Spec => []Agreement
<1>1. Init => Agreement
  <2> SUFFICES ASSUME Init, Live # {}
               PROVE  Agree(Live \cup {published})
    BY DEF Agreement
  <2>1. Live \cup {published} \subseteq {published}
    BY DEF Init, Live
  <2> QED  BY <2>1, AgreeSubset DEF Init
<1> QED  BY AgreementNext, <1>1, PTL DEF Spec
================================================================================
