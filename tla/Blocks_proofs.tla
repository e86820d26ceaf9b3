--------------------------- MODULE Blocks_proofs ----------------------------
(***************************************************************************)
(* Facts about block numbers and the search loops, for every number space, *)
(* file and window.                                                        *)
(***************************************************************************)
EXTENDS Blocks, TLAPS

(* A wire number is one of the BlockMod numbers: quint16() of a counter.    *)
LEMMA WireType ==
    ASSUME NEW b \in Nat
    PROVE  Wire(b) \in 0..(BlockMod - 1)
<1>1. BlockMod > 0
  BY BlocksAssumption
<1>2. QED
  BY <1>1, BlocksAssumption, SMT DEF Wire

(* Two blocks less than a turn apart have different wire numbers: what the  *)
(* 16-bit search loops rely on.                                             *)
LEMMA WireInjective ==
    ASSUME NEW a \in Nat, NEW b \in Nat,
           Wire(a) = Wire(b), a < b
    PROVE  a + BlockMod <= b
<1> DEFINE qa == a \div BlockMod
           qb == b \div BlockMod
<1>1. /\ qa \in Int /\ a = BlockMod * qa + Wire(a)
      /\ qb \in Int /\ b = BlockMod * qb + Wire(b)
  BY BlocksAssumption, SMT DEF Wire
<1> HIDE DEF qa, qb
<1>2. BlockMod * qb - BlockMod * qa > 0
  BY <1>1, WireType, BlocksAssumption, SMT
<1>3. qb > qa
  <2>1. SUFFICES ASSUME qb <= qa PROVE FALSE
    BY <1>1, SMT
  <2>2. PICK d \in Nat : qa = qb + d
    BY <1>1, <2>1, SMT
  <2>3. BlockMod * qa = BlockMod * qb + BlockMod * d /\ BlockMod * d >= 0
    BY <1>1, <2>2, BlocksAssumption, SMT
  <2>4. BlockMod * qb \in Int /\ BlockMod * qa \in Int /\ BlockMod * d \in Int
    BY <1>1, BlocksAssumption, SMT
  <2>5. QED
    BY <1>2, <2>3, <2>4, SMT
<1>4. PICK d \in Nat : qb = qa + 1 + d
  <2>1. qb - qa - 1 \in Nat /\ qb = qa + 1 + (qb - qa - 1)
    BY <1>1, <1>3, SMT
  <2>2. QED
    BY <2>1
<1>5. /\ BlockMod * qb = BlockMod * qa + BlockMod + BlockMod * d
      /\ BlockMod * d >= 0
      /\ BlockMod * qa \in Int
  BY <1>1, <1>4, BlocksAssumption, SMT
<1>6. QED
  BY <1>1, <1>5, WireType, BlocksAssumption, SMT

(* A block's piece of the file is one of the pieces, or nothing.            *)
LEMMA PayloadType == 0 \in Payloads /\ \A x \in Nat : Payload(x) \in Payloads
BY BlocksAssumption, SMT DEF Payload, Payloads

(* The search for the wire number of block m, among candidates that are all *)
(* less than a turn after it, stops at block m or not at all.               *)
LEMMA MatchIsSame ==
    ASSUME NEW S, S \subseteq Nat, NEW m \in Nat, NEW b,
           IsFirstMatch(S, b, Wire(m)),
           \A c \in S : c < m + BlockMod /\ m < c + BlockMod
    PROVE  b = m
<1>1. b \in Nat /\ b \in S /\ Wire(b) = Wire(m)
  BY DEF IsFirstMatch
<1>2. CASE b < m
  BY <1>1, <1>2, WireInjective, BlocksAssumption, SMT
<1>3. CASE m < b
  BY <1>1, <1>3, WireInjective, BlocksAssumption, SMT
<1>4. QED
  BY <1>1, <1>2, <1>3, SMT
=============================================================================
