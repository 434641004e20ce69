----------------------------- MODULE FlashProofs -----------------------------
(***************************************************************************)
(* Theorems about the NAND driver of module Flash, for a partition of any   *)
(* size, with any blocks bad, and any images: what it changes, what it      *)
(* reads, and what a write that says that it is done has done.              *)
(***************************************************************************)
EXTENDS Flash, FiniteSetTheorems, NaturalsInduction, WellFoundedInduction, TLAPS

-----------------------------------------------------------------------------
(* Pages and blocks                                                        *)

\* Page r of block b.
Place(b, r) == b * PerBlock + r

LEMMA Sizes ==
    /\ PerBlock \in Nat /\ PerBlock >= 1 /\ Length \in Nat /\ Length >= 1
    /\ First \in Nat /\ ChipBlocks \in Nat /\ First + Length <= ChipBlocks
BY FlashAssumption

\* Every page has one block and one place in it.
LEMMA Parts ==
    ASSUME NEW p \in Nat
    PROVE  /\ Block(p) \in Nat /\ InBlock(p) \in Nat /\ InBlock(p) < PerBlock
           /\ p = Place(Block(p), InBlock(p)) /\ BlockStart(p) = Place(Block(p), 0)
<1> PICK n, q, m : n = PerBlock /\ q = p \div n /\ m = p % n
  OBVIOUS
<1>1. n \in Nat /\ n >= 1
  BY Sizes
<1>2. q \in Int /\ m \in Int /\ 0 <= m /\ m < n /\ p = n * q + m
  BY <1>1
<1>3. q >= 0
  <2>1. q <= -1 => n * q <= - n
    BY <1>1, <1>2
  <2> QED BY <1>1, <1>2, <2>1
<1>4. Block(p) = q /\ InBlock(p) = m /\ BlockStart(p) = p - m
  BY DEF Block, InBlock, BlockStart
<1>5. q * n = n * q /\ n * q \in Nat
  BY <1>1, <1>2, <1>3
<1> QED BY <1>1, <1>2, <1>3, <1>4, <1>5 DEF Place

LEMMA PlaceIs ==
    ASSUME NEW b \in Nat, NEW r \in Nat, r < PerBlock
    PROVE  /\ Place(b, r) \in Nat /\ Place(b, r) = Place(b, 0) + r
           /\ Block(Place(b, r)) = b /\ InBlock(Place(b, r)) = r
<1> PICK n, p : n = PerBlock /\ p = Place(b, r)
  OBVIOUS
<1>1. n \in Nat /\ n >= 1 /\ r < n
  BY Sizes
<1>2. p = b * n + r /\ b * n \in Nat /\ p \in Nat
  BY <1>1 DEF Place
<1> PICK q, m : q = Block(p) /\ m = InBlock(p)
  OBVIOUS
<1>3. q \in Nat /\ m \in Nat /\ m < n /\ p = q * n + m
  BY <1>2, Parts DEF Place
<1>4. ~ (q > b)
  <2>1. q >= b + 1 => q * n >= b * n + n
    BY <1>1, <1>3
  <2> QED BY <1>1, <1>2, <1>3, <2>1
<1>5. ~ (b > q)
  <2>1. b >= q + 1 => b * n >= q * n + n
    BY <1>1, <1>3
  <2> QED BY <1>1, <1>2, <1>3, <2>1
<1>6. q = b
  BY <1>3, <1>4, <1>5
<1> QED BY <1>2, <1>3, <1>6 DEF Place

\* The places of blocks lie one behind the other.
LEMMA PlaceGrows ==
    ASSUME NEW b \in Nat, NEW c \in Nat
    PROVE  /\ Place(b, 0) \in Nat /\ Place(b + 1, 0) = Place(b, 0) + PerBlock
           /\ b < c => Place(b, 0) + PerBlock <= Place(c, 0)
           /\ b <= c => Place(b, 0) <= Place(c, 0)
<1> PICK n : n = PerBlock
  OBVIOUS
<1>1. n \in Nat /\ n >= 1 /\ b * n \in Nat /\ c * n \in Nat /\ (b + 1) * n = b * n + n
  BY Sizes
<1>2. b < c => b * n + n <= c * n
  BY <1>1
<1>3. b <= c => b * n <= c * n
  BY <1>1, <1>2
<1> QED BY <1>1, <1>2, <1>3 DEF Place

\* What the driver's steps from page to page do.
LEMMA NextPage ==
    ASSUME NEW p \in Nat
    PROVE  /\ InBlock(p) + 1 < PerBlock =>
                 Block(p + 1) = Block(p) /\ InBlock(p + 1) = InBlock(p) + 1
           /\ InBlock(p) + 1 >= PerBlock =>
                 /\ Block(p + 1) = Block(p) + 1 /\ InBlock(p + 1) = 0
                 /\ InBlock(p) + 1 = PerBlock
<1> PICK b, r : b = Block(p) /\ r = InBlock(p)
  OBVIOUS
<1>1. b \in Nat /\ r \in Nat /\ r < PerBlock /\ p = Place(b, r) /\ PerBlock \in Nat /\ PerBlock >= 1
  BY Parts, Sizes
<1>2. p = Place(b, 0) + r /\ Place(b + 1, 0) = Place(b, 0) + PerBlock /\ Place(b, 0) \in Nat
  BY <1>1, PlaceIs, PlaceGrows
<1>3. CASE r + 1 < PerBlock
  <2>1. /\ Place(b, r + 1) = Place(b, 0) + (r + 1)
        /\ Block(Place(b, r + 1)) = b /\ InBlock(Place(b, r + 1)) = r + 1
    BY <1>1, <1>3, PlaceIs
  <2>2. p + 1 = Place(b, r + 1)
    BY <1>1, <1>2, <2>1
  <2> QED BY <1>1, <1>3, <2>1, <2>2
<1>4. CASE r + 1 >= PerBlock
  <2>1. Block(Place(b + 1, 0)) = b + 1 /\ InBlock(Place(b + 1, 0)) = 0
    BY <1>1, PlaceIs
  <2>2. p + 1 = Place(b + 1, 0) /\ r + 1 = PerBlock
    BY <1>1, <1>2, <1>4
  <2> QED BY <1>1, <1>4, <2>1, <2>2
<1> QED BY <1>1, <1>3, <1>4

LEMMA NextBlock ==
    ASSUME NEW p \in Nat
    PROVE  Block(p + PerBlock) = Block(p) + 1 /\ InBlock(p + PerBlock) = InBlock(p)
<1> PICK b, r : b = Block(p) /\ r = InBlock(p)
  OBVIOUS
<1>1. b \in Nat /\ r \in Nat /\ r < PerBlock /\ p = Place(b, r) /\ PerBlock \in Nat /\ PerBlock >= 1
  BY Parts, Sizes
<1>2. /\ p = Place(b, 0) + r /\ Place(b + 1, 0) = Place(b, 0) + PerBlock /\ Place(b, 0) \in Nat
      /\ Place(b + 1, r) = Place(b + 1, 0) + r
      /\ Block(Place(b + 1, r)) = b + 1 /\ InBlock(Place(b + 1, r)) = r
  BY <1>1, PlaceIs, PlaceGrows, SMTT(30)
<1>3. p + PerBlock = Place(b + 1, r)
  BY <1>1, <1>2
<1> QED BY <1>2, <1>3

LEMMA StartOfBlock ==
    ASSUME NEW p \in Nat
    PROVE  /\ BlockStart(p) \in Nat /\ BlockStart(p) + InBlock(p) = p
           /\ Block(BlockStart(p)) = Block(p) /\ InBlock(BlockStart(p)) = 0
<1>1. Block(p) \in Nat /\ InBlock(p) \in Nat /\ BlockStart(p) = Place(Block(p), 0) /\ PerBlock >= 1
      /\ PerBlock \in Nat
  BY Parts, Sizes
<1>2. BlockStart(p) + InBlock(p) = p
  BY <1>1 DEF BlockStart
<1> QED BY <1>1, <1>2, PlaceIs

\* The rest of a write begins with the first block that holds nothing of it.
LEMMA RoundedToBlock ==
    ASSUME NEW p \in Nat, NEW q, q = BlockStart(p + PerBlock - 1)
    PROVE  /\ q \in Nat /\ InBlock(q) = 0
           /\ InBlock(p) = 0 => Block(q) = Block(p)
           /\ InBlock(p) # 0 => Block(q) = Block(p) + 1
<1> PICK b, r, n : b = Block(p) /\ r = InBlock(p) /\ n = PerBlock
  OBVIOUS
<1>1. b \in Nat /\ r \in Nat /\ r < n /\ p = Place(b, r) /\ n \in Nat /\ n >= 1
  BY Parts, Sizes
<1>2. /\ p = Place(b, 0) + r /\ Place(b + 1, 0) = Place(b, 0) + n /\ Place(b, 0) \in Nat
      /\ p + n - 1 \in Nat
  <2>1. p = Place(b, 0) + r
    BY <1>1, PlaceIs
  <2>2. Place(b + 1, 0) = Place(b, 0) + n /\ Place(b, 0) \in Nat
    BY <1>1, PlaceGrows
  <2> QED BY <1>1, <2>1, <2>2
<1>3. q \in Nat /\ InBlock(q) = 0 /\ Block(q) = Block(p + n - 1)
  BY <1>2, StartOfBlock
<1>4. CASE r = 0
  <2>1. Place(b, n - 1) = Place(b, 0) + (n - 1) /\ Block(Place(b, n - 1)) = b
    BY <1>1, PlaceIs
  <2>2. p + n - 1 = Place(b, n - 1)
    BY <1>1, <1>2, <1>4, <2>1
  <2> QED BY <1>3, <1>4, <2>1, <2>2
<1>5. CASE r # 0
  <2>1. Place(b + 1, r - 1) = Place(b + 1, 0) + (r - 1) /\ Block(Place(b + 1, r - 1)) = b + 1
    BY <1>1, <1>5, PlaceIs
  <2>2. p + n - 1 = Place(b + 1, r - 1)
    BY <1>1, <1>2, <1>5, <2>1
  <2> QED BY <1>3, <1>5, <2>1, <2>2
<1> QED BY <1>4, <1>5, <1>3
\* Where the partition and the chip end.
LEMMA Bounds ==
    ASSUME NEW p \in Nat
    PROVE  /\ p < lastpage <=> Block(p) < First + Length
           /\ p \in Pages <=> Block(p) < ChipBlocks
           /\ \A b \in Nat : p \in PagesOf(b) <=> Block(p) = b
<1> PICK b, r, n : b = Block(p) /\ r = InBlock(p) /\ n = PerBlock
  OBVIOUS
<1>1. b \in Nat /\ r \in Nat /\ r < n /\ p = Place(b, r) /\ n \in Nat /\ n >= 1
  BY Parts, Sizes
<1>2. p = Place(b, 0) + r /\ Place(b, 0) \in Nat
  BY <1>1, PlaceIs
<1>3. ASSUME NEW c \in Nat
      PROVE  Place(c, 0) = c * n /\ c * n \in Nat /\ (p < c * n <=> b < c)
  <2>1. Place(c, 0) = c * n /\ Place(c, 0) \in Nat
    BY <1>1 DEF Place
  <2>2. CASE b < c
    <3>1. Place(b, 0) + n <= Place(c, 0)
      BY <1>1, <2>2, PlaceGrows
    <3> QED BY <1>1, <1>2, <2>1, <2>2, <3>1
  <2>3. CASE ~ (b < c)
    <3>1. Place(c, 0) <= Place(b, 0)
      BY <1>1, <2>3, PlaceGrows
    <3> QED BY <1>1, <1>2, <2>1, <2>3, <3>1
  <2> QED BY <2>2, <2>3
<1>4. p < lastpage <=> Block(p) < First + Length
  <2>1. First + Length \in Nat
    BY Sizes
  <2> QED BY <1>3, <2>1 DEF lastpage
<1>5. p \in Pages <=> Block(p) < ChipBlocks
  <2>1. ChipBlocks \in Nat
    BY Sizes
  <2>2. ChipBlocks * n \in Nat /\ (p < ChipBlocks * n <=> b < ChipBlocks)
    BY <1>3, <2>1
  <2> QED BY <2>2 DEF Pages
<1>6. ASSUME NEW c \in Nat PROVE p \in PagesOf(c) <=> Block(p) = c
  <2>1. c * n \in Nat /\ (p < c * n <=> b < c)
    BY <1>3
  <2>2. (c + 1) * n = c * n + n /\ (p < (c + 1) * n <=> b < c + 1)
    BY <1>1, <1>3
  <2> QED BY <1>1, <2>1, <2>2 DEF PagesOf
<1> QED BY <1>4, <1>5, <1>6

LEMMA FirstPageIs ==
    FirstPage \in Nat /\ Block(FirstPage) = First /\ InBlock(FirstPage) = 0
<1>1. FirstPage = Place(First, 0)
  BY Sizes DEF FirstPage, Place
<1> QED BY <1>1, Sizes, PlaceIs

-----------------------------------------------------------------------------
(* The good blocks in order                                                *)

\* The good blocks before a block.
GoodBefore(b) == {c \in Good : c < b}
Rank(b) == Cardinality(GoodBefore(b))

LEMMA GoodIs ==
    /\ IsFiniteSet(Good) /\ Cardinality(Good) \in Nat
    /\ \A b : b \in Good <=> b \in PartBlocks /\ b \notin bad
    /\ \A b \in PartBlocks : b \in Nat /\ First <= b /\ b < First + Length
    /\ \A b : /\ IsFiniteSet(GoodBefore(b)) /\ Rank(b) \in Nat
              /\ Rank(b) <= Cardinality(Good)
<1>1. IsFiniteSet(PartBlocks)
  BY Sizes, FS_Interval DEF PartBlocks
<1>2. Good \in SUBSET PartBlocks
  BY DEF Good
<1>3. IsFiniteSet(Good)
  BY <1>1, <1>2, FS_Subset
<1>4. ASSUME NEW b
      PROVE  IsFiniteSet(GoodBefore(b)) /\ Rank(b) \in Nat /\ Rank(b) <= Cardinality(Good)
  <2>1. GoodBefore(b) \in SUBSET Good
    BY DEF GoodBefore
  <2>2. IsFiniteSet(GoodBefore(b)) /\ Cardinality(GoodBefore(b)) <= Cardinality(Good)
    BY <1>3, <2>1, FS_Subset
  <2> QED BY <2>2, FS_CardinalityType DEF Rank
<1>5. Cardinality(Good) \in Nat
  BY <1>3, FS_CardinalityType
<1>6. \A b : b \in Good <=> b \in PartBlocks /\ b \notin bad
  BY DEF Good
<1>7. \A b \in PartBlocks : b \in Nat /\ First <= b /\ b < First + Length
  BY Sizes DEF PartBlocks
<1> QED BY <1>3, <1>4, <1>5, <1>6, <1>7

\* A block counts for those behind it if it is good.
LEMMA RankNext ==
    ASSUME NEW b \in Nat
    PROVE  /\ b \in Good => Rank(b + 1) = Rank(b) + 1
           /\ b \notin Good => Rank(b + 1) = Rank(b)
<1>1. \A c \in Good : c \in Nat
  BY GoodIs
<1>2. CASE b \in Good
  <2>1. GoodBefore(b + 1) = GoodBefore(b) \cup {b} /\ b \notin GoodBefore(b)
    <3>1. /\ \A c \in Good : c < b + 1 <=> c < b \/ c = b
          /\ ~ (b < b)
      BY <1>1
    <3> QED BY <1>2, <3>1 DEF GoodBefore
  <2>2. IsFiniteSet(GoodBefore(b))
    BY GoodIs
  <2> QED BY <1>2, <2>1, <2>2, FS_AddElement DEF Rank
<1>3. CASE b \notin Good
  <2>1. GoodBefore(b + 1) = GoodBefore(b)
    BY <1>1, <1>3 DEF GoodBefore
  <2> QED BY <1>3, <2>1 DEF Rank
<1> QED BY <1>2, <1>3

LEMMA RankFirst == Rank(First) = 0
<1>1. GoodBefore(First) = {}
  BY GoodIs, Sizes DEF GoodBefore
<1> QED BY <1>1, FS_EmptySet DEF Rank

LEMMA RankGrows ==
    ASSUME NEW b \in Nat, NEW c \in Nat
    PROVE  /\ b <= c => Rank(b) <= Rank(c)
           /\ b < c /\ b \in Good => Rank(b) < Rank(c)
<1>1. ASSUME NEW x \in Nat, NEW y \in Nat, x <= y PROVE Rank(x) <= Rank(y)
  <2>1. GoodBefore(x) \in SUBSET GoodBefore(y)
    BY <1>1, GoodIs DEF GoodBefore
  <2> QED BY <2>1, GoodIs, FS_Subset DEF Rank
<1>2. ASSUME b < c, b \in Good PROVE Rank(b) < Rank(c)
  <2>1. Rank(b + 1) = Rank(b) + 1 /\ Rank(b) \in Nat /\ Rank(c) \in Nat
    BY <1>2, RankNext, GoodIs
  <2>2. Rank(b + 1) <= Rank(c)
    BY <1>1, <1>2
  <2> QED BY <2>1, <2>2
<1> QED BY <1>1, <1>2

\* A good block behind which no good block of the partition counts is in the image
\* of its rank.
LEMMA RankGood ==
    ASSUME NEW b \in Good
    PROVE  /\ Rank(b) + 1 <= Cardinality(Good) /\ NthGood(Rank(b)) = b
           /\ \A c \in Good : Rank(c) = Rank(b) => c = b
<1>1. b \in Nat
  BY GoodIs
<1>2. Rank(b + 1) = Rank(b) + 1 /\ Rank(b + 1) <= Cardinality(Good)
  BY <1>1, RankNext, GoodIs
<1>3. ASSUME NEW c \in Good, Rank(c) = Rank(b) PROVE c = b
  <2>1. c \in Nat /\ Rank(b) \in Nat
    BY GoodIs
  <2>2. ~ (c < b) /\ ~ (b < c)
    BY <1>1, <1>3, <2>1, RankGrows
  <2> QED BY <1>1, <2>1, <2>2
<1>4. NthGood(Rank(b)) = b
  BY <1>3 DEF NthGood, Rank, GoodBefore
<1> QED BY <1>2, <1>3, <1>4

\* The page at place i of the partition.
LEMMA LogicalIs ==
    ASSUME NEW b \in Good, NEW r \in Nat, r < PerBlock
    PROVE  Logical(Place(Rank(b), r)) = page[Place(b, r)]
<1>1. Rank(b) \in Nat /\ NthGood(Rank(b)) = b
  BY GoodIs, RankGood
<1>2. Block(Place(Rank(b), r)) = Rank(b) /\ InBlock(Place(Rank(b), r)) = r
  BY <1>1, PlaceIs
<1> QED BY <1>1, <1>2 DEF Logical, Block, InBlock, Place

\* For each rank below that of a block there is a good block before it.
LEMMA RankReached ==
    ASSUME NEW b \in Nat, NEW n \in Nat, n < Rank(b)
    PROVE  \E c \in Good : c < b /\ Rank(c) = n
<1> DEFINE D == {x \in Nat : n < Rank(x)}
<1>1. PICK x \in D : \A y \in D : x <= y
  <2>1. IsWellFoundedOn(OpToRel(<, Nat), Nat)
    BY NatLessThanWellFounded
  <2>2. b \in D
    OBVIOUS
  <2>3. PICK x \in D : \A y \in D : ~ (<<y, x>> \in OpToRel(<, Nat))
    <3>1. D \in SUBSET Nat
      OBVIOUS
    <3> HIDE DEF D
    <3> QED BY <2>1, <2>2, <3>1, WFMin
  <2>4. ASSUME NEW y \in D PROVE x <= y
    <3>1. x \in Nat /\ y \in Nat
      OBVIOUS
    <3>2. ~ (y < x)
      BY <2>3, <3>1 DEF OpToRel
    <3> QED BY <3>1, <3>2
  <2> QED BY <2>4
<1>2. x \in Nat /\ n < Rank(x) /\ x <= b
  BY <1>1
<1>3. x # 0
  <2>1. GoodBefore(0) = {}
    BY GoodIs DEF GoodBefore
  <2>2. Rank(0) = 0
    BY <2>1, FS_EmptySet DEF Rank
  <2> QED BY <1>2, <2>2
<1>4. x - 1 \in Nat /\ ~ (n < Rank(x - 1)) /\ (x - 1) + 1 = x
  <2>1. x - 1 \in Nat /\ ~ (x <= x - 1)
    BY <1>2, <1>3
  <2> QED BY <1>1, <2>1
<1>5. Rank(x - 1) \in Nat /\ Rank(x) \in Nat
  BY GoodIs
<1>6. x - 1 \in Good /\ Rank(x) = Rank(x - 1) + 1
  BY <1>2, <1>4, <1>5, RankNext
<1> QED BY <1>2, <1>4, <1>5, <1>6
-----------------------------------------------------------------------------
(* What a command list may leave behind                                    *)

PageMaps == [Pages -> Contents]

\* Only the pages of good block b may differ.
OnlyIn(b, pg) ==
    \A q \in Pages : pg[q] # page[q] => Block(q) = b /\ b \notin bad

\* The chip, what the list cost, and whether its failure goes unseen.
Outcome(o, b) ==
    /\ o.page \in PageMaps /\ OnlyIn(b, o.page)
    /\ o.fault \in {0, 1} /\ o.silent \in BOOLEAN

\* What an outcome is made of.
MadeOf(o, r, pg, bd, f, s) ==
    o.res = r /\ o.page = pg /\ o.bad = bd /\ o.fault = f /\ o.silent = s

LEMMA FineMade ==
    ASSUME NEW r, NEW pg, NEW x
    PROVE  /\ MadeOf(Fine(r, pg), r, pg, bad, 0, FALSE)
           /\ MadeOf([Fine(r, pg) EXCEPT !.res = x], x, pg, bad, 0, FALSE)
           /\ MadeOf([Fine(r, pg) EXCEPT !.bad = x], r, pg, x, 0, FALSE)
BY DEF Fine, MadeOf

LEMMA FaultMade ==
    ASSUME NEW r, NEW pg, NEW bd, NEW s, NEW x
    PROVE  /\ MadeOf(Fault(r, pg, bd, s), r, pg, bd, 1, s)
           /\ MadeOf([Fault(r, pg, bd, s) EXCEPT !.res = x], x, pg, bd, 1, s)
BY DEF Fault, MadeOf

LEMMA Unchanged ==
    ASSUME page \in PageMaps, NEW o, NEW r, NEW bd, NEW f \in {0, 1}, NEW s \in BOOLEAN, NEW b,
           MadeOf(o, r, page, bd, f, s)
    PROVE  Outcome(o, b)
BY DEF MadeOf, Outcome, OnlyIn

LEMMA IsbadOutcome ==
    ASSUME page \in PageMaps, NEW p \in Nat, NEW o \in flash_nand_block_isbad(p), NEW x
    PROVE  /\ Outcome(o, Block(p)) /\ o.page = page /\ o.bad = bad
           /\ o.res = 0 => Block(p) \notin bad
           /\ o.res # 0 /\ ~ o.silent => Block(p) \in bad
           /\ MadeOf([o EXCEPT !.res = x], x, page, bad, o.fault, o.silent)
<1>1. CASE Block(p) \in bad
  <2>1. o = Fine(1, page)
    BY <1>1 DEF flash_nand_block_isbad
  <2>2. MadeOf(o, 1, page, bad, 0, FALSE) /\ MadeOf([o EXCEPT !.res = x], x, page, bad, 0, FALSE)
    BY <2>1, FineMade
  <2>3. Outcome(o, Block(p))
    BY <2>2, Unchanged
  <2> QED BY <1>1, <2>2, <2>3 DEF MadeOf
<1>2. CASE Block(p) \notin bad
  <2>1. o = Fine(0, page) \/ o = Fault(-1, page, bad, TRUE)
    BY <1>2 DEF flash_nand_block_isbad
  <2>2. CASE o = Fine(0, page)
    <3>1. MadeOf(o, 0, page, bad, 0, FALSE) /\ MadeOf([o EXCEPT !.res = x], x, page, bad, 0, FALSE)
      BY <2>2, FineMade
    <3>2. Outcome(o, Block(p))
      BY <3>1, Unchanged
    <3> QED BY <1>2, <3>1, <3>2 DEF MadeOf
  <2>3. CASE o = Fault(-1, page, bad, TRUE)
    <3>1. MadeOf(o, -1, page, bad, 1, TRUE) /\ MadeOf([o EXCEPT !.res = x], x, page, bad, 1, TRUE)
      BY <2>3, FaultMade
    <3>2. Outcome(o, Block(p))
      BY <3>1, Unchanged
    <3> QED BY <1>2, <3>1, <3>2 DEF MadeOf
  <2> QED BY <2>1, <2>2, <2>3
<1> QED BY <1>1, <1>2

LEMMA SetBlockIs ==
    ASSUME page \in PageMaps, NEW b, b \notin bad, NEW c \in Contents
    PROVE  /\ SetBlock(b, c) \in PageMaps /\ OnlyIn(b, SetBlock(b, c))
           /\ \A q \in Pages : SetBlock(b, c)[q] = IF Block(q) = b THEN c ELSE page[q]
BY DEF SetBlock, PageMaps, OnlyIn

LEMMA EraseOutcome ==
    ASSUME page \in PageMaps, NEW p \in Nat, InBlock(p) = 0,
           NEW o \in flash_nand_erase_block(p)
    PROVE  /\ Outcome(o, Block(p)) /\ o.bad = bad
           /\ o.res = 0 => Block(p) \notin bad
           /\ o.res = 0 /\ ~ o.silent =>
                 \A q \in Pages : o.page[q] = IF Block(q) = Block(p) THEN Erased ELSE page[q]
           /\ o.res # 0 /\ ~ o.silent => o.page = page /\ Block(p) \in bad
<1>1. PICK i \in flash_nand_block_isbad(p) :
         o \in IF i.res # 0 THEN {[i EXCEPT !.res = -1]}
               ELSE {Fine(0, SetBlock(Block(p), Erased)),
                     Fault(-1, SetBlock(Block(p), Torn), bad, TRUE),
                     Fault(0, page, bad, TRUE)}
  BY DEF flash_nand_erase_block
<1>2. /\ i.fault \in {0, 1} /\ i.silent \in BOOLEAN
      /\ i.res = 0 => Block(p) \notin bad
      /\ i.res # 0 /\ ~ i.silent => Block(p) \in bad
      /\ MadeOf([i EXCEPT !.res = -1], -1, page, bad, i.fault, i.silent)
  BY IsbadOutcome DEF Outcome
<1>3. CASE i.res # 0
  <2>1. MadeOf(o, -1, page, bad, i.fault, i.silent)
    BY <1>1, <1>2, <1>3
  <2>2. Outcome(o, Block(p))
    BY <1>2, <2>1, Unchanged
  <2> QED BY <1>2, <1>3, <2>1, <2>2 DEF MadeOf
<1>4. CASE i.res = 0
  <2>1. Erased \in Contents /\ Torn \in Contents /\ Block(p) \notin bad
    BY <1>2, <1>4 DEF Contents
  <2>2. CASE o = Fine(0, SetBlock(Block(p), Erased))
    <3>1. MadeOf(o, 0, SetBlock(Block(p), Erased), bad, 0, FALSE)
      BY <2>2, FineMade
    <3>2. /\ SetBlock(Block(p), Erased) \in PageMaps
          /\ OnlyIn(Block(p), SetBlock(Block(p), Erased))
          /\ \A q \in Pages :
                SetBlock(Block(p), Erased)[q] = IF Block(q) = Block(p) THEN Erased ELSE page[q]
      BY <2>1, SetBlockIs
    <3> QED BY <2>1, <3>1, <3>2 DEF Outcome, MadeOf
  <2>3. CASE o = Fault(-1, SetBlock(Block(p), Torn), bad, TRUE)
    <3>1. MadeOf(o, -1, SetBlock(Block(p), Torn), bad, 1, TRUE)
      BY <2>3, FaultMade
    <3>2. SetBlock(Block(p), Torn) \in PageMaps /\ OnlyIn(Block(p), SetBlock(Block(p), Torn))
      BY <2>1, SetBlockIs
    <3> QED BY <2>1, <3>1, <3>2 DEF Outcome, MadeOf
  <2>4. CASE o = Fault(0, page, bad, TRUE)
    <3>1. MadeOf(o, 0, page, bad, 1, TRUE)
      BY <2>4, FaultMade
    <3>2. Outcome(o, Block(p))
      BY <3>1, Unchanged
    <3> QED BY <2>1, <3>1, <3>2 DEF MadeOf
  <2> QED BY <1>1, <1>4, <2>2, <2>3, <2>4
<1> QED BY <1>3, <1>4

LEMMA WriteOutcome ==
    ASSUME page \in PageMaps, NEW p \in Pages, Block(p) \notin bad, NEW c \in Contents,
           NEW o \in _flash_nand_write_page(p, c)
    PROVE  /\ Outcome(o, Block(p)) /\ o.bad = bad
           /\ \A q \in Pages : q # p => o.page[q] = page[q]
           /\ o.res = 0 /\ ~ o.silent => o.page[p] = IF page[p] = Erased THEN c ELSE Torn
<1>1. Torn \in Contents
  BY DEF Contents
<1>2. ASSUME NEW d \in Contents, NEW pg, pg = [page EXCEPT ![p] = d], o.page = pg,
             o.fault \in {0, 1}, o.silent \in BOOLEAN
      PROVE  /\ Outcome(o, Block(p)) /\ o.page[p] = d
             /\ \A q \in Pages : q # p => o.page[q] = page[q]
  <2>1. /\ pg \in PageMaps /\ OnlyIn(Block(p), pg) /\ pg[p] = d
        /\ \A q \in Pages : q # p => pg[q] = page[q]
    BY <1>2 DEF PageMaps, OnlyIn
  <2> QED BY <1>2, <2>1 DEF Outcome
<1>3. CASE o = Fine(0, Programmed(p, c))
  <2>1. MadeOf(o, 0, Programmed(p, c), bad, 0, FALSE)
    BY <1>3, FineMade
  <2>2. PICK d : d = IF page[p] = Erased THEN c ELSE Torn
    OBVIOUS
  <2>3. d \in Contents /\ Programmed(p, c) = [page EXCEPT ![p] = d]
    BY <1>1, <2>2 DEF Programmed
  <2>4. o.page = [page EXCEPT ![p] = d] /\ o.bad = bad /\ o.fault = 0 /\ o.silent = FALSE
    BY <2>1, <2>3 DEF MadeOf
  <2>5. /\ Outcome(o, Block(p)) /\ o.page[p] = d
        /\ \A q \in Pages : q # p => o.page[q] = page[q]
    BY <1>2, <2>3, <2>4
  <2> QED BY <2>2, <2>4, <2>5
<1>4. CASE o = Fault(-1, [page EXCEPT ![p] = Torn], bad, FALSE)
  <2>1. /\ o.res = -1 /\ o.page = [page EXCEPT ![p] = Torn] /\ o.bad = bad
        /\ o.fault = 1 /\ o.silent = FALSE
    <3>1. MadeOf(o, -1, [page EXCEPT ![p] = Torn], bad, 1, FALSE)
      BY <1>4, FaultMade
    <3> QED BY <3>1 DEF MadeOf
  <2>2. Outcome(o, Block(p)) /\ \A q \in Pages : q # p => o.page[q] = page[q]
    BY <1>1, <1>2, <2>1
  <2> QED BY <2>1, <2>2
<1>5. CASE o = Fault(-1, page, bad, FALSE)
  <2>1. MadeOf(o, -1, page, bad, 1, FALSE)
    BY <1>5, FaultMade
  <2>2. Outcome(o, Block(p))
    BY <2>1, Unchanged
  <2> QED BY <2>1, <2>2 DEF MadeOf
<1>6. CASE o = Fault(0, page, bad, TRUE)
  <2>1. MadeOf(o, 0, page, bad, 1, TRUE)
    BY <1>6, FaultMade
  <2>2. Outcome(o, Block(p))
    BY <2>1, Unchanged
  <2> QED BY <2>1, <2>2 DEF MadeOf
<1> QED BY <1>3, <1>4, <1>5, <1>6 DEF _flash_nand_write_page

LEMMA MarkOutcome ==
    ASSUME page \in PageMaps, NEW p \in Pages, p \in Nat, InBlock(p) = 0, Block(p) \notin bad,
           NEW o \in flash_nand_mark_badblock(p)
    PROVE  /\ Outcome(o, Block(p)) /\ o.bad \in {bad, bad \cup {Block(p)}}
           /\ ~ o.silent => o.bad = bad \cup {Block(p)}
<1>1. BlockStart(p) = p
  BY StartOfBlock
<1>2. ASSUME NEW d \in Contents, NEW pg, pg = [page EXCEPT ![p] = d]
      PROVE  pg \in PageMaps /\ OnlyIn(Block(p), pg)
  BY <1>2 DEF PageMaps, OnlyIn
<1>3. Zero \in Contents /\ Torn \in Contents
  BY DEF Contents
<1>4. CASE o = [Fine(0, [page EXCEPT ![p] = Zero]) EXCEPT !.bad = bad \cup {Block(p)}]
  <2>1. MadeOf(o, 0, [page EXCEPT ![p] = Zero], bad \cup {Block(p)}, 0, FALSE)
    BY <1>4, FineMade
  <2>2. [page EXCEPT ![p] = Zero] \in PageMaps /\ OnlyIn(Block(p), [page EXCEPT ![p] = Zero])
    BY <1>2, <1>3
  <2> QED BY <2>1, <2>2 DEF Outcome, MadeOf
<1>5. CASE o = Fault(-1, [page EXCEPT ![p] = Torn], bad, TRUE)
  <2>1. MadeOf(o, -1, [page EXCEPT ![p] = Torn], bad, 1, TRUE)
    BY <1>5, FaultMade
  <2>2. [page EXCEPT ![p] = Torn] \in PageMaps /\ OnlyIn(Block(p), [page EXCEPT ![p] = Torn])
    BY <1>2, <1>3
  <2> QED BY <2>1, <2>2 DEF Outcome, MadeOf
<1>6. CASE o = Fault(0, page, bad, TRUE)
  <2>1. MadeOf(o, 0, page, bad, 1, TRUE)
    BY <1>6, FaultMade
  <2>2. Outcome(o, Block(p))
    BY <2>1, Unchanged
  <2> QED BY <2>1, <2>2 DEF MadeOf
<1>7. [Fine(0, [page EXCEPT ![p] = Zero]) EXCEPT !.bad = @ \cup {Block(p)}]
        = [Fine(0, [page EXCEPT ![p] = Zero]) EXCEPT !.bad = bad \cup {Block(p)}]
  BY FineMade DEF MadeOf
<1> QED BY <1>1, <1>4, <1>5, <1>6, <1>7 DEF flash_nand_mark_badblock

LEMMA ReadOutcome ==
    ASSUME page \in PageMaps, NEW p \in Nat, NEW o \in _flash_nand_read_page(p)
    PROVE  /\ Outcome(o, Block(p)) /\ o.page = page /\ o.bad = bad /\ o.res \in {0, -1, -2}
           /\ o.res # -2 => Block(p) \notin bad
           /\ o.res = -2 /\ ~ o.silent => Block(p) \in bad
<1>1. PICK i \in flash_nand_block_isbad(p) :
         o \in IF i.res # 0 THEN {[i EXCEPT !.res = -2]}
               ELSE {Fine(0, page), Fault(-1, page, bad, FALSE)} \cup
                    (IF page[p] \in {Torn, Erased} THEN {Fine(-1, page)} ELSE {})
  BY DEF _flash_nand_read_page
<1>2. /\ i.fault \in {0, 1} /\ i.silent \in BOOLEAN
      /\ i.res = 0 => Block(p) \notin bad
      /\ i.res # 0 /\ ~ i.silent => Block(p) \in bad
      /\ MadeOf([i EXCEPT !.res = -2], -2, page, bad, i.fault, i.silent)
  BY IsbadOutcome DEF Outcome
<1>3. CASE i.res # 0
  <2>1. MadeOf(o, -2, page, bad, i.fault, i.silent)
    BY <1>1, <1>2, <1>3
  <2>2. Outcome(o, Block(p))
    BY <1>2, <2>1, Unchanged
  <2> QED BY <1>2, <1>3, <2>1, <2>2 DEF MadeOf
<1>4. CASE i.res = 0
  <2>1. o = Fine(0, page) \/ o = Fault(-1, page, bad, FALSE) \/ o = Fine(-1, page)
    BY <1>1, <1>4
  <2>2. \/ MadeOf(o, 0, page, bad, 0, FALSE) \/ MadeOf(o, -1, page, bad, 1, FALSE)
        \/ MadeOf(o, -1, page, bad, 0, FALSE)
    <3>1. /\ MadeOf(Fine(0, page), 0, page, bad, 0, FALSE)
          /\ MadeOf(Fault(-1, page, bad, FALSE), -1, page, bad, 1, FALSE)
          /\ MadeOf(Fine(-1, page), -1, page, bad, 0, FALSE)
      BY FineMade, FaultMade
    <3> QED BY <2>1, <3>1
  <2>3. Outcome(o, Block(p))
    BY <2>2, Unchanged
  <2> QED BY <1>2, <1>4, <2>2, <2>3 DEF MadeOf
<1> QED BY <1>3, <1>4

-----------------------------------------------------------------------------
(* The invariant                                                           *)

Running(f) == ~Idle /\ call.fn = f

Writes == [fn : {"write"}, pc : {"top", "write", "redo", "mark", "rest", "returned"},
           page : Nat, image : Nat, ver : Versions, tail : BOOLEAN, ret : {0, -1}]
Erases == [fn : {"erase"}, pc : {"loop", "returned"}, page : Nat, ret : {0, -1}]
Reads == [fn : {"read"}, pc : {"adjust", "loop", "returned"}, page : Nat, count : Nat,
          offset : Nat, want : Nat \ {0}, start_block : Nat, start_block_count : Nat,
          out : Seq(Contents), skipped : Nat, ret : {0, -1}]
Refused == [fn : {"none", "read"}, pc : {"returned"}, ret : {0, -1}]

\* What the variables hold.
TypesInv ==
    /\ page \in PageMaps /\ bad \in SUBSET Blocks
    /\ faults \in 0 .. MaxFaults /\ calls \in 0 .. MaxCalls /\ silent \in BOOLEAN
    /\ call \in Writes \cup Erases \cup Reads \cup Refused

\* Where a write or an erase may be: it stays behind the partition's first page,
\* has not written more pages than it passed, and a block it has begun is good.
WhereInv ==
    /\ Running("write") =>
          /\ First <= Block(call.page)
          /\ InBlock(call.page) <= call.image /\ call.image <= call.page - FirstPage
          /\ call.image <= ImagePages[call.ver]
          /\ (call.pc \in {"write", "redo", "mark"} \/ (call.pc = "top" /\ InBlock(call.page) # 0))
                => Block(call.page) \in Good
          /\ call.pc \in {"write", "redo", "mark", "rest"} => InBlock(call.page) = 0
          /\ call.pc = "write" => call.image < ImagePages[call.ver]
    /\ Running("erase") => First <= Block(call.page) /\ InBlock(call.page) = 0

\* Page i of good block c is what the write in progress puts there.
WrittenAt(c, i) == page[Place(c, i)] = Data(call.ver, Place(Rank(c), i))

ErasedAt(c, i) == page[Place(c, i)] = Erased

InOneBlock == 0 .. PerBlock - 1

\* How far a write has come, unless the chip failed unseen: the image is in the
\* good blocks before the page it stands at.
WrittenInv ==
    (Running("write") /\ ~silent) =>
        /\ call.pc # "rest" => call.image = Place(Rank(Block(call.page)), InBlock(call.page))
        /\ \A c \in Good, i \in InOneBlock :
              c < Block(call.page) /\ Place(Rank(c), i) < call.image => WrittenAt(c, i)
        /\ call.pc = "top" =>
              \A i \in InOneBlock : i < InBlock(call.page) => WrittenAt(Block(call.page), i)
        /\ (call.pc = "write" \/ (call.pc = "top" /\ InBlock(call.page) # 0)) =>
              \A i \in InOneBlock : InBlock(call.page) <= i => ErasedAt(Block(call.page), i)
        /\ call.pc = "rest" =>
              /\ call.image = ImagePages[call.ver]
              /\ call.image <= Place(Rank(Block(call.page)), 0)
              /\ \A c \in Good, i \in InOneBlock :
                    c < Block(call.page) /\ call.image <= Place(Rank(c), 0) => ErasedAt(c, i)

\* Where a read is, unless the chip failed unseen.
ReadInv ==
    Running("read") =>
        /\ Len(call.out) + call.count = call.want
        /\ First <= Block(call.page)
        /\ First <= call.start_block /\ call.start_block <= First + Length
        /\ call.pc = "adjust" => call.out = <<>>
        /\ (call.pc = "adjust" /\ ~silent) =>
              /\ Block(call.page) = call.start_block + call.start_block_count
              /\ InBlock(call.page) = InBlock(call.offset)
              /\ Block(call.offset) = call.start_block_count + Rank(call.start_block)
        /\ (call.pc = "loop" /\ ~silent /\ call.start_block_count = 0 /\ call.skipped = 0) =>
              /\ Place(Rank(Block(call.page)), InBlock(call.page)) = call.offset + Len(call.out)
              /\ call.out # <<>> => call.offset + Len(call.out) <= GoodPages
              /\ \A i \in 1 .. Len(call.out) : call.out[i] = Logical(call.offset + i - 1)

FInv == TypesInv /\ WhereInv /\ WrittenInv /\ ReadInv /\ ReadsInOrder /\ RestErased

LEMMA PlaceInBlock ==
    ASSUME NEW c \in PartBlocks, NEW i \in InOneBlock
    PROVE  /\ Place(c, i) \in Nat /\ Place(c, i) \in Pages
           /\ Block(Place(c, i)) = c /\ InBlock(Place(c, i)) = i
<1>1. c \in Nat /\ c < ChipBlocks /\ i \in Nat /\ i < PerBlock
  BY Sizes DEF PartBlocks, InOneBlock
<1>2. Place(c, i) \in Nat /\ Block(Place(c, i)) = c /\ InBlock(Place(c, i)) = i
  BY <1>1, PlaceIs
<1> QED BY <1>1, <1>2, Bounds

\* As long as no block is marked, the good blocks count as before.
LEMMA SameBad ==
    ASSUME bad' = bad
    PROVE  /\ Good' = Good /\ GoodPages' = GoodPages
           /\ \A b : Rank(b)' = Rank(b) /\ NthGood(b)' = NthGood(b)
BY DEF Good, GoodPages, Rank, GoodBefore, NthGood

\* A block that is marked bad counts no longer for those behind it; for the
\* others nothing changes.
LEMMA OneMarked ==
    ASSUME NEW b \in Good, bad' = bad \cup {b}
    PROVE  /\ Good' = Good \ {b}
           /\ \A c \in Nat : c <= b => Rank(c)' = Rank(c)
           /\ Rank(b + 1)' = Rank(b)
<1>1. Good' = Good \ {b} /\ b \in Nat /\ \A c \in Good : c \in Nat
  BY GoodIs DEF Good
<1>2. ASSUME NEW c \in Nat, c <= b PROVE Rank(c)' = Rank(c)
  <2>1. GoodBefore(c)' = GoodBefore(c)
    BY <1>1, <1>2 DEF GoodBefore
  <2> QED BY <2>1 DEF Rank
<1>3. GoodBefore(b + 1)' = GoodBefore(b)
  <2>1. \A c \in Good : (c # b /\ c < b + 1) <=> c < b
    BY <1>1
  <2> QED BY <1>1, <2>1 DEF GoodBefore
<1> QED BY <1>1, <1>2, <1>3 DEF Rank

\* What a list does to one block leaves the pages of the others.
LEMMA OthersKept ==
    ASSUME page \in PageMaps, NEW b, OnlyIn(b, page'), call'.ver = call.ver,
           NEW c \in PartBlocks, c # b, Rank(c)' = Rank(c), NEW i \in InOneBlock
    PROVE  /\ WrittenAt(c, i) => WrittenAt(c, i)'
           /\ ErasedAt(c, i) => ErasedAt(c, i)'
<1>1. Place(c, i) \in Pages /\ Block(Place(c, i)) = c
  BY PlaceInBlock
<1>2. page'[Place(c, i)] = page[Place(c, i)]
  BY <1>1 DEF OnlyIn
<1>3. Place(Rank(c), i)' = Place(Rank(c), i) /\ Place(c, i)' = Place(c, i)
  BY DEF Place
<1> QED BY <1>2, <1>3 DEF WrittenAt, ErasedAt, Data

\* The step of a write or of an erase as it leaves the chip.
LEMMA TookIs ==
    ASSUME TypesInv, NEW o, NEW b, Outcome(o, b), o.bad \in SUBSET Blocks,
           NEW unseen \in BOOLEAN, TookAs(o, unseen)
    PROVE  /\ page' = o.page /\ page' \in PageMaps /\ OnlyIn(b, page')
           /\ bad' = o.bad /\ bad' \in SUBSET Blocks
           /\ faults' \in 0 .. MaxFaults /\ silent' \in BOOLEAN
           /\ ~silent' => ~silent /\ ~unseen
<1>1. faults' \in 0 .. MaxFaults
  <2>1. faults \in Nat /\ faults + o.fault <= MaxFaults /\ faults' = faults + o.fault
        /\ MaxFaults \in Nat /\ o.fault \in {0, 1}
    BY FlashAssumption DEF TypesInv, TookAs, Outcome
  <2> QED BY <2>1
<1>2. page' = o.page /\ bad' = o.bad /\ silent' = (silent \/ unseen) /\ silent \in BOOLEAN
  BY DEF TypesInv, TookAs
<1> QED BY <1>1, <1>2 DEF Outcome

LEMMA NotReading ==
    ASSUME call'.fn \in {"write", "erase", "none"}, call'.fn = "write" => call'.pc # "returned"
    PROVE  ReadInv' /\ ReadsInOrder' /\ RestErased'
BY DEF ReadInv, Running, ReadsInOrder, RestErased, Idle

LEMMA WriteFields ==
    ASSUME TypesInv, call.fn = "write", call.pc # "returned"
    PROVE  /\ call \in Writes /\ Running("write")
           /\ call.page \in Nat /\ call.image \in Nat /\ call.ver \in Versions
           /\ ImagePages[call.ver] \in Nat /\ ImagePages[call.ver] >= 1
           /\ Block(call.page) \in Nat /\ InBlock(call.page) \in InOneBlock
           /\ call.page = Place(Block(call.page), InBlock(call.page))
<1>1. call \in Writes
  BY DEF TypesInv, Writes, Erases, Reads, Refused
<1>2. call.page \in Nat /\ call.image \in Nat /\ call.ver \in Versions
  BY <1>1 DEF Writes
<1>3. ImagePages[call.ver] \in Nat /\ ImagePages[call.ver] >= 1
  <2>1. ImagePages[call.ver] \in Nat \ {0}
    BY <1>2, FlashAssumption
  <2> QED BY <2>1
<1>4. /\ Block(call.page) \in Nat /\ InBlock(call.page) \in Nat /\ InBlock(call.page) < PerBlock
      /\ call.page = Place(Block(call.page), InBlock(call.page))
  BY <1>2, Parts
<1>5. InBlock(call.page) \in InOneBlock
  BY <1>4, Sizes DEF InOneBlock
<1> QED BY <1>1, <1>2, <1>3, <1>4, <1>5 DEF Running, Idle

\* A block before the end of the partition, marked or not.
LEMMA InPartition ==
    ASSUME NEW p \in Nat, First <= Block(p), p < lastpage
    PROVE  /\ Block(p) \in PartBlocks /\ p \in Pages /\ Block(p) \in Blocks
           /\ Block(p) \notin bad => Block(p) \in Good
<1>1. Block(p) \in Nat /\ Block(p) < First + Length
  BY Parts, Bounds
<1>2. Block(p) \in PartBlocks /\ Block(p) < ChipBlocks /\ Block(p) \in Blocks
  BY <1>1, Sizes DEF PartBlocks, Blocks
<1> QED BY <1>2, Bounds DEF Good

-----------------------------------------------------------------------------
(* The steps of a write                                                    *)

\* A write that fails leaves the chip as it is.
LEMMA WriteFails ==
    ASSUME TypesInv, call \in Writes, call' = [call EXCEPT !.pc = "returned", !.ret = -1],
           UNCHANGED <<page, bad, faults, calls, silent>>
    PROVE  FInv'
<1>1. call' \in Writes /\ call'.fn = "write" /\ call'.pc = "returned" /\ call'.ret = -1
  BY DEF Writes
<1>2. TypesInv'
  BY <1>1 DEF TypesInv, PageMaps, Pages, Contents, Blocks
<1>3. WhereInv' /\ WrittenInv' /\ ReadInv' /\ ReadsInOrder' /\ RestErased'
  BY <1>1 DEF WhereInv, WrittenInv, ReadInv, ReadsInOrder, RestErased, Running, Idle
<1> QED BY <1>2, <1>3 DEF FInv

LEMMA WriteEndsFInv == FInv /\ WriteEnds => FInv'
<1> SUFFICES ASSUME FInv, WriteEnds PROVE FInv'
  OBVIOUS
<1>1. TypesInv /\ WhereInv /\ WrittenInv
  BY DEF FInv
<1>2. call.fn = "write" /\ call.pc = "top" /\ ImagePages[call.ver] - call.image = 0
      /\ UNCHANGED <<page, bad, faults, calls, silent>>
  BY DEF WriteEnds, At, bytes
<1>3. /\ call \in Writes /\ Running("write")
      /\ call.page \in Nat /\ call.image \in Nat /\ call.ver \in Versions
      /\ ImagePages[call.ver] \in Nat
      /\ Block(call.page) \in Nat /\ InBlock(call.page) \in InOneBlock
  BY <1>1, <1>2, WriteFields
<1>4. /\ Good' = Good /\ \A b : Rank(b)' = Rank(b)
  BY <1>2, SameBad
<1>5. CASE call.tail
  <2>1. call' = [call EXCEPT !.pc = "returned", !.ret = -1]
    BY <1>5 DEF WriteEnds, Return
  <2> QED BY <1>1, <1>2, <1>3, <2>1, WriteFails
<1>6. CASE ~ call.tail
  <2>1. PICK q : q = BlockStart(call.page + PerBlock - 1)
    OBVIOUS
  <2>2. call' = [call EXCEPT !.pc = "rest", !.page = q]
    <3>1. call' = [call EXCEPT !.pc = "rest", !.page = BlockStart(@ + PerBlock - 1)]
      BY <1>6 DEF WriteEnds
    <3> QED BY <2>1, <3>1
  <2>3. /\ q \in Nat /\ InBlock(q) = 0
        /\ InBlock(call.page) = 0 => Block(q) = Block(call.page)
        /\ InBlock(call.page) # 0 => Block(q) = Block(call.page) + 1
    BY <1>3, <2>1, RoundedToBlock
  <2>4. /\ call' \in Writes /\ call'.fn = "write" /\ call'.pc = "rest" /\ call'.page = q
        /\ call'.image = call.image /\ call'.ver = call.ver
    BY <1>2, <1>3, <2>2, <2>3 DEF Writes
  <2>5. TypesInv'
    BY <1>1, <1>2, <2>4 DEF TypesInv, PageMaps, Pages, Contents, Blocks
  <2>6. call.image = ImagePages[call.ver]
    BY <1>2, <1>3
  <2>7. WhereInv'
    <3>1. First <= Block(call.page) /\ call.image <= call.page - FirstPage
      BY <1>1, <1>3 DEF WhereInv
    <3>2. First <= Block(q) /\ First \in Nat
      BY <1>3, <2>3, <3>1, Sizes
    <3>3. call.page <= q
      <4>1. /\ call.page + PerBlock - 1 \in Nat /\ InBlock(call.page + PerBlock - 1) < PerBlock
            /\ InBlock(call.page + PerBlock - 1) \in Nat /\ PerBlock \in Nat
        BY <1>3, Sizes, Parts
      <4> QED BY <1>3, <2>1, <4>1 DEF BlockStart
    <3>4. call.image <= q - FirstPage /\ 0 <= call.image
      BY <1>3, <2>3, <3>1, <3>3, FirstPageIs
    <3> QED BY <1>2, <1>3, <2>3, <2>4, <2>6, <3>2, <3>4 DEF WhereInv, Running, Idle
  <2>8. ASSUME ~silent' PROVE WrittenInv'
    <3>1. ~silent
      BY <1>2, <2>8
    <3> PICK b, r, im, rk : b = Block(call.page) /\ r = InBlock(call.page) /\ im = call.image
                     /\ rk = Rank(b)
      OBVIOUS
    <3>2. /\ b \in Nat /\ r \in InOneBlock /\ r \in Nat /\ r < PerBlock /\ PerBlock \in Nat
          /\ rk \in Nat /\ im \in Nat /\ im = Place(rk, r)
          /\ r # 0 => b \in Good
      BY <1>1, <1>2, <1>3, <3>1, GoodIs, Sizes DEF WrittenInv, WhereInv, InOneBlock
    <3>3. im = Place(rk, 0) + r /\ Place(rk, 0) \in Nat
      BY <3>2, PlaceIs
    <3>4. im <= Place(Rank(Block(q)), 0)
      <4>1. CASE r = 0
        BY <2>3, <3>3, <4>1
      <4>2. CASE r # 0
        <5>1. Rank(b + 1) = rk + 1 /\ Place(rk + 1, 0) = Place(rk, 0) + PerBlock
          BY <3>2, <4>2, RankNext, PlaceGrows
        <5> QED BY <2>3, <3>2, <3>3, <4>2, <5>1
      <4> QED BY <4>1, <4>2
    <3>5. ASSUME NEW c \in Good, NEW i \in InOneBlock, c < Block(q)
          PROVE  /\ Place(Rank(c), i) < im => WrittenAt(c, i)
                 /\ ~ (im <= Place(Rank(c), 0))
      <4>1. c \in Nat /\ Rank(c) \in Nat /\ i \in Nat /\ Place(Rank(c), i) = Place(Rank(c), 0) + i
            /\ Place(Rank(c), 0) \in Nat
        BY GoodIs, PlaceIs, Sizes DEF InOneBlock
      <4>2. CASE c < b
        <5>1. Place(Rank(c), i) < im => WrittenAt(c, i)
          BY <1>1, <1>3, <3>1, <4>2 DEF WrittenInv
        <5>2. Rank(c) < rk
          BY <3>2, <4>1, <4>2, RankGrows
        <5>3. Place(Rank(c), 0) + PerBlock <= Place(rk, 0)
          BY <3>2, <4>1, <5>2, PlaceGrows
        <5> QED BY <3>2, <3>3, <4>1, <5>1, <5>3, Sizes
      <4>3. CASE ~ (c < b)
        <5>1. c = b /\ r # 0
          BY <2>3, <3>2, <3>5, <4>1, <4>3
        <5>2. i < r => WrittenAt(c, i)
          BY <1>1, <1>2, <1>3, <3>1, <5>1 DEF WrittenInv
        <5> QED BY <3>2, <3>3, <4>1, <5>1, <5>2
      <4> QED BY <4>2, <4>3
    <3>6. ASSUME NEW c, NEW i PROVE WrittenAt(c, i)' <=> WrittenAt(c, i)
      BY <1>2, <1>4, <2>4 DEF WrittenAt, Data, Place
    <3> QED BY <1>2, <1>4, <2>4, <2>6, <3>4, <3>5, <3>6 DEF WrittenInv
  <2>9. ReadInv' /\ ReadsInOrder' /\ RestErased'
    BY <2>4, NotReading
  <2> QED BY <2>5, <2>7, <2>8, <2>9 DEF FInv, WrittenInv
<1> QED BY <1>5, <1>6

LEMMA WriteOutOfSpaceFInv == FInv /\ WriteOutOfSpace => FInv'
<1> SUFFICES ASSUME FInv, WriteOutOfSpace PROVE FInv'
  OBVIOUS
<1>1. TypesInv /\ call.fn = "write" /\ call.pc = "top"
  BY DEF FInv, WriteOutOfSpace, At
<1>2. call \in Writes
  BY <1>1, WriteFields
<1> QED BY <1>1, <1>2, WriteFails DEF WriteOutOfSpace, Return

\* A list that leaves the markers has left, in the blocks before the page, what
\* was there.
LEMMA BeforeKept ==
    ASSUME TypesInv, Running("write"), ~silent, WrittenInv, OnlyIn(Block(call.page), page'),
           bad' = bad, call'.ver = call.ver, call.pc # "rest", call.page \in Nat,
           NEW c \in Good, NEW i \in InOneBlock, c < Block(call.page)
    PROVE  WrittenAt(c, i)' /\ Rank(c)' = Rank(c)
<1> PICK b, r, rk : b = Block(call.page) /\ r = InBlock(call.page) /\ rk = Rank(b)
  OBVIOUS
<1>1. /\ b \in Nat /\ r \in Nat /\ r < PerBlock /\ PerBlock \in Nat /\ rk \in Nat
      /\ c \in Nat /\ c \in PartBlocks /\ i \in Nat /\ i < PerBlock /\ Rank(c) \in Nat
  BY Parts, GoodIs, Sizes DEF InOneBlock
<1>2. call.image = Place(rk, r)
  BY DEF WrittenInv
<1>3. Rank(c) < rk /\ c # b
  BY <1>1, RankGrows
<1>4. Place(Rank(c), 0) + PerBlock <= Place(rk, 0) /\ Place(rk, 0) \in Nat /\ Place(Rank(c), 0) \in Nat
  BY <1>1, <1>3, PlaceGrows
<1>5. Place(rk, r) = Place(rk, 0) + r /\ Place(Rank(c), i) = Place(Rank(c), 0) + i
  BY <1>1, PlaceIs
<1>6. Place(Rank(c), i) < call.image
  BY <1>1, <1>2, <1>4, <1>5
<1>7. WrittenAt(c, i)
  BY <1>6 DEF WrittenInv
<1>8. Rank(c)' = Rank(c)
  BY SameBad
<1> QED BY <1>1, <1>3, <1>7, <1>8, OthersKept DEF TypesInv

LEMMA WriteEraseFInv == FInv /\ WriteErase => FInv'
<1> SUFFICES ASSUME FInv, WriteErase PROVE FInv'
  OBVIOUS
<1>1. TypesInv /\ WhereInv /\ WrittenInv
  BY DEF FInv
<1>2. /\ call.fn = "write" /\ call.pc = "top" /\ ImagePages[call.ver] - call.image > 0
      /\ call.page < lastpage /\ InBlock(call.page) = 0 /\ calls' = calls
  BY DEF WriteErase, At, bytes
<1>3. /\ call \in Writes /\ Running("write")
      /\ call.page \in Nat /\ call.image \in Nat /\ call.ver \in Versions
      /\ ImagePages[call.ver] \in Nat /\ Block(call.page) \in Nat
  BY <1>1, <1>2, WriteFields
<1>4. PICK o \in flash_nand_erase_block(call.page) :
         /\ Took(o)
         /\ call' = IF o.res # 0 THEN [call EXCEPT !.page = @ + PerBlock]
                    ELSE [call EXCEPT !.pc = "write"]
  BY DEF WriteErase
<1>5. /\ First <= Block(call.page) /\ call.image <= call.page - FirstPage
      /\ call.image <= ImagePages[call.ver]
  BY <1>1, <1>3 DEF WhereInv
<1>6. /\ Outcome(o, Block(call.page)) /\ o.bad = bad
      /\ o.res = 0 => Block(call.page) \notin bad
      /\ o.res = 0 /\ ~ o.silent => \A q \in Pages :
            o.page[q] = IF Block(q) = Block(call.page) THEN Erased ELSE page[q]
      /\ o.res # 0 /\ ~ o.silent => o.page = page /\ Block(call.page) \in bad
  BY <1>1, <1>2, <1>3, EraseOutcome DEF TypesInv
<1>7. /\ page' = o.page /\ page' \in PageMaps /\ OnlyIn(Block(call.page), page')
      /\ bad' = bad /\ faults' \in 0 .. MaxFaults /\ silent' \in BOOLEAN
      /\ ~silent' => ~silent /\ ~o.silent
  BY <1>1, <1>4, <1>6, TookIs DEF TypesInv, Took, Outcome
<1>8. Good' = Good /\ \A c : Rank(c)' = Rank(c)
  BY <1>7, SameBad
<1>9. Block(call.page) \in PartBlocks /\ (Block(call.page) \notin bad => Block(call.page) \in Good)
  BY <1>2, <1>3, <1>5, InPartition
<1>10. CASE o.res # 0
  <2>1. PICK q : q = call.page + PerBlock
    OBVIOUS
  <2>2. q \in Nat /\ q >= call.page /\ Block(q) = Block(call.page) + 1 /\ InBlock(q) = 0
    BY <1>2, <1>3, <2>1, NextBlock, Sizes
  <2>3. /\ call' \in Writes /\ call'.fn = "write" /\ call'.pc = "top" /\ call'.page = q
        /\ call'.image = call.image /\ call'.ver = call.ver
    BY <1>2, <1>3, <1>4, <1>10, <2>1, <2>2 DEF Writes
  <2>4. TypesInv'
    BY <1>1, <1>2, <1>7, <2>3 DEF TypesInv, PageMaps, Pages, Contents, Blocks
  <2>5. WhereInv'
    <3>1. call.image <= q - FirstPage /\ First <= Block(q)
      BY <1>3, <1>5, <2>2, FirstPageIs, Sizes
    <3> QED BY <1>3, <1>5, <2>2, <2>3, <3>1 DEF WhereInv, Running, Idle
  <2>6. ASSUME ~silent' PROVE WrittenInv'
    <3> PICK b : b = Block(call.page)
      OBVIOUS
    <3>1. ~silent /\ b \in bad /\ b \notin Good /\ b \in Nat
      BY <1>3, <1>6, <1>7, <1>10, <2>6, GoodIs
    <3>2. call.image = Place(Rank(Block(q)), 0)
      BY <1>1, <1>2, <1>3, <2>2, <3>1, RankNext DEF WrittenInv
    <3>3. ASSUME NEW c \in Good, NEW i \in InOneBlock, c < Block(q) PROVE WrittenAt(c, i)'
      <4>1. c < b
        BY <2>2, <3>1, <3>3, GoodIs
      <4> QED BY <1>1, <1>2, <1>3, <1>7, <2>3, <3>1, <4>1, BeforeKept
    <3>4. \A i \in InOneBlock : ~ (i < 0)
      BY Sizes DEF InOneBlock
    <3> QED BY <1>8, <2>2, <2>3, <3>2, <3>3, <3>4 DEF WrittenInv
  <2>7. ReadInv' /\ ReadsInOrder' /\ RestErased'
    BY <2>3, NotReading
  <2> QED BY <2>4, <2>5, <2>6, <2>7 DEF FInv, WrittenInv
<1>11. CASE o.res = 0
  <2>1. /\ call' \in Writes /\ call'.fn = "write" /\ call'.pc = "write" /\ call'.page = call.page
        /\ call'.image = call.image /\ call'.ver = call.ver
    BY <1>2, <1>3, <1>4, <1>11 DEF Writes
  <2>2. TypesInv'
    BY <1>1, <1>2, <1>7, <2>1 DEF TypesInv, PageMaps, Pages, Contents, Blocks
  <2>3. Block(call.page) \in Good
    BY <1>6, <1>9, <1>11
  <2>4. WhereInv'
    BY <1>2, <1>3, <1>5, <1>8, <2>1, <2>3 DEF WhereInv, Running, Idle
  <2>5. ASSUME ~silent' PROVE WrittenInv'
    <3>1. ~silent /\ call.image = Place(Rank(Block(call.page)), InBlock(call.page))
      BY <1>1, <1>2, <1>3, <1>7, <2>5 DEF WrittenInv
    <3>2. ASSUME NEW c \in Good, NEW i \in InOneBlock, c < Block(call.page) PROVE WrittenAt(c, i)'
      BY <1>1, <1>2, <1>3, <1>7, <2>1, <3>1, <3>2, BeforeKept
    <3>3. ASSUME NEW i \in InOneBlock PROVE ErasedAt(Block(call.page), i)'
      <4> PICK b : b = Block(call.page)
        OBVIOUS
      <4>1. Place(b, i) \in Pages /\ Block(Place(b, i)) = b
        BY <1>9, PlaceInBlock
      <4>2. page'[Place(b, i)] = Erased
        BY <1>6, <1>7, <1>11, <2>5, <4>1
      <4> QED BY <2>1, <4>2 DEF ErasedAt, Place
    <3> QED BY <1>8, <2>1, <3>1, <3>2, <3>3 DEF WrittenInv
  <2>6. ReadInv' /\ ReadsInOrder' /\ RestErased'
    BY <2>1, NotReading
  <2> QED BY <2>2, <2>4, <2>5, <2>6 DEF FInv, WrittenInv
<1> QED BY <1>10, <1>11

\* The image has no more pages than the partition.
LEMMA DataFits ==
    ASSUME NEW p \in Nat, p < lastpage, NEW n \in Nat, n <= p - FirstPage, NEW v \in Versions
    PROVE  Data(v, n) \in Contents
<1> PICK a, l, k : a = First /\ l = Length /\ k = PerBlock
  OBVIOUS
<1>1. a \in Nat /\ l \in Nat /\ k \in Nat
  BY Sizes
<1>2. FirstPage = a * k /\ lastpage = (a + l) * k
  BY DEF FirstPage, lastpage
<1>3. (a + l) * k = a * k + k * l /\ a * k \in Int /\ k * l \in Int
  BY <1>1
<1>4. n \in 0 .. k * l
  BY <1>1, <1>2, <1>3
<1> QED BY <1>4 DEF Contents

\* One page of a block, and no other.
LEMMA OnePage ==
    ASSUME page \in PageMaps, NEW b \in PartBlocks, NEW r \in InOneBlock,
           \A q \in Pages : q # Place(b, r) => page'[q] = page[q],
           call'.ver = call.ver, Rank(b)' = Rank(b), NEW i \in InOneBlock, i # r
    PROVE  /\ WrittenAt(b, i) => WrittenAt(b, i)'
           /\ ErasedAt(b, i) => ErasedAt(b, i)'
<1>1. Place(b, i) \in Pages /\ InBlock(Place(b, i)) = i /\ InBlock(Place(b, r)) = r
  BY PlaceInBlock
<1>2. page'[Place(b, i)] = page[Place(b, i)]
  BY <1>1
<1>3. Place(Rank(b), i)' = Place(Rank(b), i) /\ Place(b, i)' = Place(b, i)
  BY DEF Place
<1> QED BY <1>2, <1>3 DEF WrittenAt, ErasedAt, Data

LEMMA WritePageFInv == FInv /\ WritePage => FInv'
<1> SUFFICES ASSUME FInv, WritePage PROVE FInv'
  OBVIOUS
<1>1. TypesInv /\ WhereInv /\ WrittenInv
  BY DEF FInv
<1>2. /\ call.fn = "write" /\ call.pc \in {"write", "top"} /\ calls' = calls
      /\ call.pc = "top" => /\ ImagePages[call.ver] - call.image > 0
                            /\ call.page < lastpage /\ InBlock(call.page) # 0
  BY DEF WritePage, At, bytes
<1>3. /\ call \in Writes /\ Running("write")
      /\ call.page \in Nat /\ call.image \in Nat /\ call.ver \in Versions
      /\ ImagePages[call.ver] \in Nat /\ Block(call.page) \in Nat
      /\ InBlock(call.page) \in InOneBlock
      /\ call.page = Place(Block(call.page), InBlock(call.page))
  BY <1>1, <1>2, WriteFields
<1>4. /\ First <= Block(call.page) /\ call.image <= call.page - FirstPage
      /\ InBlock(call.page) <= call.image
      /\ call.image < ImagePages[call.ver] /\ Block(call.page) \in Good
      /\ call.pc = "write" => InBlock(call.page) = 0
  BY <1>1, <1>2, <1>3 DEF WhereInv
<1>5. call.page < lastpage /\ Block(call.page) \in PartBlocks /\ call.page \in Pages
  BY <1>2, <1>3, <1>4, GoodIs, Bounds, InPartition
<1>6. Data(call.ver, call.image) \in Contents
  BY <1>3, <1>4, <1>5, DataFits
<1>7. PICK o \in _flash_nand_write_page(call.page, Data(call.ver, call.image)) :
         /\ Took(o)
         /\ call' = IF o.res # 0 THEN Rewound(call)
                    ELSE [call EXCEPT !.pc = "top", !.page = @ + 1, !.image = @ + 1]
  BY DEF WritePage
<1>8. /\ Outcome(o, Block(call.page)) /\ o.bad = bad
      /\ \A q \in Pages : q # call.page => o.page[q] = page[q]
      /\ o.res = 0 /\ ~ o.silent =>
            o.page[call.page] = IF page[call.page] = Erased THEN Data(call.ver, call.image) ELSE Torn
  BY <1>1, <1>4, <1>5, <1>6, GoodIs, WriteOutcome DEF TypesInv
<1>9. /\ page' = o.page /\ page' \in PageMaps /\ OnlyIn(Block(call.page), page')
      /\ bad' = bad /\ faults' \in 0 .. MaxFaults /\ silent' \in BOOLEAN
      /\ ~silent' => ~silent /\ ~o.silent
  BY <1>1, <1>7, <1>8, TookIs DEF TypesInv, Took, Outcome
<1>10. Good' = Good /\ \A c : Rank(c)' = Rank(c)
  BY <1>9, SameBad
<1>11. ASSUME ~silent, NEW c \in Good, NEW i \in InOneBlock, c < Block(call.page),
              call'.ver = call.ver
       PROVE  WrittenAt(c, i)'
  BY <1>1, <1>2, <1>3, <1>9, <1>11, BeforeKept
<1>12. CASE o.res # 0
  <2>1. PICK q, r : q = BlockStart(call.page) /\ r = InBlock(call.page)
    OBVIOUS
  <2>2. q \in Nat /\ q + r = call.page /\ Block(q) = Block(call.page) /\ InBlock(q) = 0 /\ r \in Nat
    BY <1>3, <2>1, StartOfBlock, Parts
  <2>3. call.image - r \in Nat
    BY <1>3, <1>4, <2>1, <2>2
  <2>4. call' = [call EXCEPT !.pc = "redo", !.page = q, !.image = call.image - r]
    BY <1>3, <1>7, <1>12, <2>1 DEF Rewound, Writes
  <2>5. /\ call' \in Writes /\ call'.fn = "write" /\ call'.pc = "redo" /\ call'.page = q
        /\ call'.image = call.image - r /\ call'.ver = call.ver
    BY <1>2, <1>3, <2>2, <2>3, <2>4 DEF Writes
  <2>6. TypesInv'
    BY <1>1, <1>2, <1>9, <2>5 DEF TypesInv, PageMaps, Pages, Contents, Blocks
  <2>7. WhereInv'
    <3>1. /\ 0 <= call.image - r /\ call.image - r <= q - FirstPage
          /\ call.image - r <= ImagePages[call.ver]
      BY <1>3, <1>4, <2>2, <2>3, FirstPageIs
    <3> QED BY <1>4, <1>10, <2>2, <2>5, <3>1 DEF WhereInv, Running, Idle
  <2>8. ASSUME ~silent' PROVE WrittenInv'
    <3>1. ~silent /\ call.image = Place(Rank(Block(call.page)), r)
      BY <1>1, <1>2, <1>3, <1>9, <2>1, <2>8 DEF WrittenInv
    <3>2. call.image - r = Place(Rank(Block(q)), 0)
      <4>1. Rank(Block(q)) \in Nat /\ r < PerBlock
        BY <1>3, <2>1, GoodIs, Parts
      <4>2. Place(Rank(Block(q)), r) = Place(Rank(Block(q)), 0) + r /\ Place(Rank(Block(q)), 0) \in Nat
        BY <2>2, <4>1, PlaceIs, PlaceGrows
      <4> QED BY <1>3, <2>2, <3>1, <4>2
    <3>3. \A c \in Good, i \in InOneBlock : c < Block(q) => WrittenAt(c, i)'
      BY <1>11, <2>2, <2>5, <3>1
    <3> QED BY <1>10, <2>2, <2>5, <3>2, <3>3 DEF WrittenInv
  <2>9. ReadInv' /\ ReadsInOrder' /\ RestErased'
    BY <2>5, NotReading
  <2> QED BY <2>6, <2>7, <2>8, <2>9 DEF FInv, WrittenInv
<1>13. CASE o.res = 0
  <2>1. PICK q, b, r : q = call.page + 1 /\ b = Block(call.page) /\ r = InBlock(call.page)
    OBVIOUS
  <2>2. /\ b \in Nat /\ r \in Nat /\ r < PerBlock /\ q \in Nat /\ PerBlock \in Nat
        /\ r + 1 < PerBlock => Block(q) = b /\ InBlock(q) = r + 1
        /\ r + 1 >= PerBlock => Block(q) = b + 1 /\ InBlock(q) = 0 /\ r + 1 = PerBlock
    BY <1>3, <2>1, NextPage, Parts, Sizes
  <2>3. /\ call' \in Writes /\ call'.fn = "write" /\ call'.pc = "top" /\ call'.page = q
        /\ call'.image = call.image + 1 /\ call'.ver = call.ver
    <3>1. call' = [call EXCEPT !.pc = "top", !.page = @ + 1, !.image = @ + 1]
      BY <1>7, <1>13
    <3>2. call.image + 1 \in Nat /\ call.page + 1 = q
      BY <1>3, <2>1
    <3> QED BY <1>2, <1>3, <2>2, <3>1, <3>2 DEF Writes
  <2>4. TypesInv'
    BY <1>1, <1>2, <1>9, <2>3 DEF TypesInv, PageMaps, Pages, Contents, Blocks
  <2>5. WhereInv'
    <3>1. /\ call.image + 1 <= q - FirstPage /\ call.image + 1 <= ImagePages[call.ver]
          /\ InBlock(q) <= call.image + 1 /\ First <= Block(q)
      BY <1>3, <1>4, <2>1, <2>2, FirstPageIs, Sizes
    <3>2. InBlock(q) # 0 => Block(q) \in Good
      BY <1>4, <2>1, <2>2
    <3> QED BY <1>10, <2>3, <3>1, <3>2 DEF WhereInv, Running, Idle
  <2>6. ASSUME ~silent' PROVE WrittenInv'
    <3> PICK rk : rk = Rank(b)
      OBVIOUS
    <3>1. ~silent /\ ~o.silent /\ call.image = Place(rk, r) /\ b \in Good /\ b \in PartBlocks
          /\ rk \in Nat /\ r \in InOneBlock /\ call.page = Place(b, r)
      BY <1>1, <1>2, <1>3, <1>4, <1>5, <1>9, <2>1, <2>6, GoodIs DEF WrittenInv
    <3>2. \A i \in InOneBlock : (r <= i => ErasedAt(b, i)) /\ (i < r => WrittenAt(b, i))
      <4>1. \A i \in InOneBlock : r <= i => ErasedAt(b, i)
        BY <1>1, <1>2, <1>3, <2>1, <3>1 DEF WrittenInv
      <4>2. CASE call.pc = "top"
        BY <1>1, <1>3, <2>1, <3>1, <4>1, <4>2 DEF WrittenInv
      <4>3. CASE call.pc = "write"
        <5>1. \A i \in InOneBlock : ~ (i < r)
          BY <1>4, <2>1, <4>3, Sizes DEF InOneBlock
        <5> QED BY <4>1, <5>1
      <4> QED BY <1>2, <4>2, <4>3
    <3>3. ASSUME NEW i \in InOneBlock
          PROVE  (r + 1 <= i => ErasedAt(b, i)') /\ (i < r + 1 => WrittenAt(b, i)')
      <4>1. i \in Nat
        BY Sizes DEF InOneBlock
      <4>2. \A p \in Pages : p # Place(b, r) => page'[p] = page[p]
        BY <1>8, <1>9, <3>1
      <4>3. CASE i # r
        <5>1. /\ WrittenAt(b, i) => WrittenAt(b, i)'
              /\ ErasedAt(b, i) => ErasedAt(b, i)'
          BY <1>1, <1>10, <2>3, <3>1, <4>2, <4>3, OnePage DEF TypesInv
        <5>2. (r + 1 <= i => r <= i) /\ (i < r + 1 => i < r)
          BY <2>2, <4>1, <4>3
        <5> QED BY <3>2, <5>1, <5>2
      <4>4. CASE i = r
        <5>1. page[call.page] = Erased
          <6>1. ErasedAt(b, r)
            BY <2>2, <3>1, <3>2
          <6> QED BY <3>1, <6>1 DEF ErasedAt
        <5>2. page'[Place(b, r)] = Data(call.ver, Place(rk, r))
          BY <1>8, <1>9, <1>13, <3>1, <5>1
        <5>3. WrittenAt(b, i)'
          BY <1>10, <2>3, <4>4, <5>2 DEF WrittenAt, Data, Place
        <5> QED BY <2>2, <4>1, <4>4, <5>3
      <4> QED BY <4>3, <4>4
    <3>4. \A c \in Good, i \in InOneBlock : c < b => WrittenAt(c, i)'
      BY <1>11, <2>1, <2>3, <3>1
    <3>5. Place(rk, r) = Place(rk, 0) + r /\ Place(rk, 0) \in Nat /\ Place(rk + 1, 0) = Place(rk, 0) + PerBlock
      BY <2>2, <3>1, PlaceIs, PlaceGrows
    <3>6. CASE r + 1 < PerBlock
      <4>1. call.image + 1 = Place(rk, r + 1)
        <5>1. Place(rk, r + 1) = Place(rk, 0) + (r + 1)
          BY <2>2, <3>1, <3>6, PlaceIs
        <5> QED BY <2>2, <3>1, <3>5, <5>1
      <4> QED BY <1>10, <2>2, <2>3, <3>3, <3>4, <3>6, <4>1 DEF WrittenInv
    <3>7. CASE r + 1 >= PerBlock
      <4>1. Rank(b + 1) = rk + 1
        BY <2>2, <3>1, RankNext
      <4>2. call.image + 1 = Place(Rank(b + 1), 0)
        BY <2>2, <3>1, <3>5, <3>7, <4>1
      <4>3. ASSUME NEW c \in Good, NEW i \in InOneBlock, c < b + 1 PROVE WrittenAt(c, i)'
        <5>1. CASE c = b
          <6>1. i < r + 1
            BY <2>2, <3>7, Sizes DEF InOneBlock
          <6> QED BY <3>3, <5>1, <6>1
        <5>2. CASE c # b
          <6>1. c < b
            BY <2>2, <4>3, <5>2, GoodIs
          <6> QED BY <3>4, <6>1
        <5> QED BY <5>1, <5>2
      <4>4. \A i \in InOneBlock : ~ (i < 0)
        BY Sizes DEF InOneBlock
      <4> QED BY <1>10, <2>2, <2>3, <3>7, <4>2, <4>3, <4>4 DEF WrittenInv
    <3> QED BY <2>2, <3>6, <3>7
  <2>7. ReadInv' /\ ReadsInOrder' /\ RestErased'
    BY <2>3, NotReading
  <2> QED BY <2>4, <2>5, <2>6, <2>7 DEF FInv, WrittenInv
<1> QED BY <1>12, <1>13

LEMMA WriteRedoFInv == FInv /\ WriteRedo => FInv'
<1> SUFFICES ASSUME FInv, WriteRedo PROVE FInv'
  OBVIOUS
<1>1. TypesInv /\ WhereInv /\ WrittenInv
  BY DEF FInv
<1>2. call.fn = "write" /\ call.pc = "redo" /\ calls' = calls /\ call' = [call EXCEPT !.pc = "mark"]
  BY DEF WriteRedo, At
<1>3. /\ call \in Writes /\ Running("write") /\ call.page \in Nat /\ call.image \in Nat
      /\ call.ver \in Versions /\ ImagePages[call.ver] \in Nat /\ Block(call.page) \in Nat
  BY <1>1, <1>2, WriteFields
<1>4. /\ First <= Block(call.page) /\ call.image <= call.page - FirstPage
      /\ call.image <= ImagePages[call.ver] /\ InBlock(call.page) = 0
      /\ Block(call.page) \in Good
  BY <1>1, <1>2, <1>3 DEF WhereInv
<1>5. PICK o \in flash_nand_erase_block(call.page) : TookAs(o, FALSE)
  BY DEF WriteRedo
<1>6. Outcome(o, Block(call.page)) /\ o.bad = bad
  BY <1>1, <1>3, <1>4, EraseOutcome DEF TypesInv
<1>7. /\ page' \in PageMaps /\ OnlyIn(Block(call.page), page') /\ bad' = bad
      /\ faults' \in 0 .. MaxFaults /\ silent' \in BOOLEAN /\ (~silent' => ~silent)
  BY <1>1, <1>5, <1>6, TookIs DEF TypesInv
<1>8. Good' = Good /\ \A c : Rank(c)' = Rank(c)
  BY <1>7, SameBad
<1>9. /\ call' \in Writes /\ call'.fn = "write" /\ call'.pc = "mark" /\ call'.page = call.page
      /\ call'.image = call.image /\ call'.ver = call.ver
  BY <1>2, <1>3 DEF Writes
<1>10. TypesInv'
  BY <1>1, <1>2, <1>7, <1>9 DEF TypesInv, PageMaps, Pages, Contents, Blocks
<1>11. WhereInv'
  BY <1>3, <1>4, <1>8, <1>9 DEF WhereInv, Running, Idle
<1>12. ASSUME ~silent' PROVE WrittenInv'
  <2>1. ~silent /\ call.image = Place(Rank(Block(call.page)), InBlock(call.page))
    BY <1>1, <1>2, <1>3, <1>7, <1>12 DEF WrittenInv
  <2>2. ASSUME NEW c \in Good, NEW i \in InOneBlock, c < Block(call.page) PROVE WrittenAt(c, i)'
    BY <1>1, <1>2, <1>3, <1>7, <1>9, <2>1, <2>2, BeforeKept
  <2> QED BY <1>8, <1>9, <2>1, <2>2 DEF WrittenInv
<1>13. ReadInv' /\ ReadsInOrder' /\ RestErased'
  BY <1>9, NotReading
<1> QED BY <1>10, <1>11, <1>12, <1>13 DEF FInv, WrittenInv

LEMMA WriteMarkFInv == FInv /\ WriteMark => FInv'
<1> SUFFICES ASSUME FInv, WriteMark PROVE FInv'
  OBVIOUS
<1>1. TypesInv /\ WhereInv /\ WrittenInv
  BY DEF FInv
<1>2. /\ call.fn = "write" /\ call.pc = "mark" /\ calls' = calls
      /\ call' = [call EXCEPT !.pc = "top", !.page = @ + PerBlock]
  BY DEF WriteMark, At
<1>3. /\ call \in Writes /\ Running("write") /\ call.page \in Nat /\ call.image \in Nat
      /\ call.ver \in Versions /\ ImagePages[call.ver] \in Nat /\ Block(call.page) \in Nat
  BY <1>1, <1>2, WriteFields
<1>4. /\ First <= Block(call.page) /\ call.image <= call.page - FirstPage
      /\ call.image <= ImagePages[call.ver] /\ InBlock(call.page) = 0
      /\ Block(call.page) \in Good
  BY <1>1, <1>2, <1>3 DEF WhereInv
<1>5. PICK o \in flash_nand_mark_badblock(call.page) : Took(o)
  BY DEF WriteMark
<1>6. /\ Block(call.page) \notin bad /\ Block(call.page) \in PartBlocks
      /\ Block(call.page) \in Blocks /\ call.page \in Pages
  BY <1>3, <1>4, GoodIs, Bounds, InPartition
<1>7. /\ Outcome(o, Block(call.page)) /\ o.bad \in {bad, bad \cup {Block(call.page)}}
      /\ ~ o.silent => o.bad = bad \cup {Block(call.page)}
  BY <1>1, <1>3, <1>4, <1>5, <1>6, MarkOutcome DEF TypesInv
<1>8. o.bad \in SUBSET Blocks
  BY <1>1, <1>6, <1>7 DEF TypesInv
<1>9. /\ page' \in PageMaps /\ OnlyIn(Block(call.page), page') /\ bad' = o.bad
      /\ bad' \in SUBSET Blocks
      /\ faults' \in 0 .. MaxFaults /\ silent' \in BOOLEAN /\ (~silent' => ~silent /\ ~o.silent)
  BY <1>1, <1>5, <1>7, <1>8, TookIs DEF Took, Outcome
<1>10. PICK q, b : q = call.page + PerBlock /\ b = Block(call.page)
  OBVIOUS
<1>11. q \in Nat /\ q >= call.page /\ Block(q) = b + 1 /\ InBlock(q) = 0 /\ b \in Nat /\ b \in Good
  BY <1>3, <1>4, <1>10, NextBlock, Sizes
<1>12. /\ call' \in Writes /\ call'.fn = "write" /\ call'.pc = "top" /\ call'.page = q
       /\ call'.image = call.image /\ call'.ver = call.ver
  BY <1>2, <1>3, <1>10, <1>11 DEF Writes
<1>13. TypesInv'
  BY <1>1, <1>2, <1>9, <1>12 DEF TypesInv, PageMaps, Pages, Contents, Blocks
<1>14. WhereInv'
  <2>1. call.image <= q - FirstPage /\ First <= Block(q)
    BY <1>3, <1>4, <1>10, <1>11, FirstPageIs, Sizes
  <2> QED BY <1>3, <1>4, <1>11, <1>12, <2>1 DEF WhereInv, Running, Idle
<1>15. ASSUME ~silent' PROVE WrittenInv'
  <2>1. ~silent /\ call.image = Place(Rank(b), 0) /\ bad' = bad \cup {b}
    BY <1>1, <1>2, <1>3, <1>4, <1>7, <1>9, <1>10, <1>15 DEF WrittenInv
  <2>2. /\ Good' = Good \ {b} /\ Rank(b + 1)' = Rank(b)
        /\ \A c \in Nat : c <= b => Rank(c)' = Rank(c)
    BY <1>11, <2>1, OneMarked
  <2>3. ASSUME NEW c \in Good, c # b, NEW i \in InOneBlock, c < b + 1 PROVE WrittenAt(c, i)'
    <3>1. c \in Nat /\ c < b /\ c \in PartBlocks /\ Rank(c) \in Nat /\ Rank(b) \in Nat
      BY <1>11, <2>3, GoodIs
    <3>2. Place(Rank(c), i) < call.image
      <4>1. Rank(c) < Rank(b) /\ i \in Nat /\ i < PerBlock /\ PerBlock \in Nat
        BY <1>11, <3>1, RankGrows, Sizes DEF InOneBlock
      <4>2. Place(Rank(c), 0) + PerBlock <= Place(Rank(b), 0) /\ Place(Rank(c), 0) \in Nat
        BY <3>1, <4>1, PlaceGrows
      <4>3. Place(Rank(c), i) = Place(Rank(c), 0) + i
        BY <3>1, <4>1, PlaceIs
      <4>4. Place(Rank(b), 0) \in Nat
        BY <3>1, PlaceGrows
      <4> QED BY <2>1, <4>1, <4>2, <4>3, <4>4
    <3>3. WrittenAt(c, i)
      BY <1>1, <1>3, <1>10, <2>1, <3>1, <3>2 DEF WrittenInv
    <3>4. Rank(c)' = Rank(c)
      BY <1>11, <2>2, <3>1
    <3> QED BY <1>1, <1>9, <1>10, <1>12, <2>3, <3>1, <3>3, <3>4, OthersKept DEF TypesInv
  <2>4. \A i \in InOneBlock : ~ (i < 0)
    BY Sizes DEF InOneBlock
  <2> QED BY <1>11, <1>12, <2>1, <2>2, <2>3, <2>4 DEF WrittenInv
<1>16. ReadInv' /\ ReadsInOrder' /\ RestErased'
  BY <1>12, NotReading
<1> QED BY <1>13, <1>14, <1>15, <1>16 DEF FInv, WrittenInv

LEMMA WriteRestFInv == FInv /\ WriteRest => FInv'
<1> SUFFICES ASSUME FInv, WriteRest PROVE FInv'
  OBVIOUS
<1>1. TypesInv /\ WhereInv /\ WrittenInv
  BY DEF FInv
<1>2. call.fn = "write" /\ call.pc = "rest" /\ calls' = calls
  BY DEF WriteRest, At
<1>3. /\ call \in Writes /\ Running("write") /\ call.page \in Nat /\ call.image \in Nat
      /\ call.ver \in Versions /\ ImagePages[call.ver] \in Nat /\ Block(call.page) \in Nat
  BY <1>1, <1>2, WriteFields
<1>4. /\ First <= Block(call.page) /\ call.image <= call.page - FirstPage
      /\ call.image <= ImagePages[call.ver] /\ InBlock(call.page) = 0
  BY <1>1, <1>2, <1>3 DEF WhereInv
<1>5. ~silent =>
        /\ call.image = ImagePages[call.ver]
        /\ call.image <= Place(Rank(Block(call.page)), 0)
        /\ \A c \in Good, i \in InOneBlock : c < Block(call.page) =>
              /\ Place(Rank(c), i) < call.image => WrittenAt(c, i)
              /\ call.image <= Place(Rank(c), 0) => ErasedAt(c, i)
  BY <1>1, <1>2, <1>3 DEF WrittenInv
<1>6. CASE call.page < lastpage
  <2>1. PICK o \in flash_nand_erase_block(call.page) : Took(o)
    BY <1>3, <1>6, Sizes DEF WriteRest, lastpage
  <2>2. call' = [call EXCEPT !.page = @ + PerBlock]
    BY <1>3, <1>6, Sizes DEF WriteRest, lastpage
  <2>3. /\ Outcome(o, Block(call.page)) /\ o.bad = bad
        /\ o.res = 0 => Block(call.page) \notin bad
        /\ o.res = 0 /\ ~ o.silent => \A q \in Pages :
              o.page[q] = IF Block(q) = Block(call.page) THEN Erased ELSE page[q]
        /\ o.res # 0 /\ ~ o.silent => o.page = page /\ Block(call.page) \in bad
    BY <1>1, <1>3, <1>4, <2>1, EraseOutcome DEF TypesInv
  <2>4. /\ page' = o.page /\ page' \in PageMaps /\ OnlyIn(Block(call.page), page')
        /\ bad' = bad /\ faults' \in 0 .. MaxFaults /\ silent' \in BOOLEAN
        /\ ~silent' => ~silent /\ ~o.silent
    BY <1>1, <2>1, <2>3, TookIs DEF TypesInv, Took, Outcome
  <2>5. Good' = Good /\ \A c : Rank(c)' = Rank(c)
    BY <2>4, SameBad
  <2>6. PICK q, b : q = call.page + PerBlock /\ b = Block(call.page)
    OBVIOUS
  <2>7. q \in Nat /\ q >= call.page /\ Block(q) = b + 1 /\ InBlock(q) = 0 /\ b \in Nat
    BY <1>3, <1>4, <2>6, NextBlock, Sizes
  <2>8. /\ call' \in Writes /\ call'.fn = "write" /\ call'.pc = "rest" /\ call'.page = q
        /\ call'.image = call.image /\ call'.ver = call.ver
    BY <1>2, <1>3, <2>2, <2>6, <2>7 DEF Writes
  <2>9. TypesInv'
    BY <1>1, <1>2, <2>4, <2>8 DEF TypesInv, PageMaps, Pages, Contents, Blocks
  <2>10. WhereInv'
    <3>1. call.image <= q - FirstPage /\ First <= Block(q)
      BY <1>3, <1>4, <2>6, <2>7, FirstPageIs, Sizes
    <3> QED BY <1>3, <1>4, <2>7, <2>8, <3>1 DEF WhereInv, Running, Idle
  <2>11. ASSUME ~silent' PROVE WrittenInv'
    <3>1. ~silent /\ ~o.silent /\ Rank(b) \in Nat /\ Rank(b + 1) \in Nat
      BY <2>4, <2>11, GoodIs
    <3>2. call.image <= Place(Rank(b + 1), 0)
      <4>1. Rank(b) <= Rank(b + 1)
        BY <2>7, RankGrows
      <4>2. Place(Rank(b), 0) <= Place(Rank(b + 1), 0) /\ Place(Rank(b), 0) \in Nat
        BY <3>1, <4>1, PlaceGrows
      <4>3. Place(Rank(b + 1), 0) \in Nat
        BY <3>1, PlaceGrows
      <4> QED BY <1>3, <1>5, <2>6, <3>1, <4>2, <4>3
    <3>3. ASSUME NEW c \in Good, NEW i \in InOneBlock, c < b + 1
          PROVE  /\ Place(Rank(c), i) < call.image => WrittenAt(c, i)'
                 /\ call.image <= Place(Rank(c), 0) => ErasedAt(c, i)'
      <4>1. c \in Nat /\ c \in PartBlocks /\ c \notin bad /\ Rank(c) \in Nat /\ i \in Nat /\ i < PerBlock
        BY GoodIs, Sizes DEF InOneBlock
      <4>2. CASE c # b
        <5>1. c < b
          BY <2>7, <3>3, <4>1, <4>2
        <5>2. /\ WrittenAt(c, i) => WrittenAt(c, i)'
              /\ ErasedAt(c, i) => ErasedAt(c, i)'
          BY <1>1, <2>4, <2>5, <2>6, <2>8, <4>1, <4>2, OthersKept DEF TypesInv
        <5> QED BY <1>5, <2>6, <3>1, <5>1, <5>2
      <4>3. CASE c = b
        <5>1. o.res = 0
          BY <2>3, <2>6, <3>1, <4>1, <4>3
        <5>2. Place(b, i) \in Pages /\ Block(Place(b, i)) = b
          BY <4>1, <4>3, PlaceInBlock
        <5>3. page'[Place(b, i)] = Erased
          BY <2>3, <2>4, <2>6, <3>1, <5>1, <5>2
        <5>4. ErasedAt(c, i)'
          BY <4>3, <5>3 DEF ErasedAt, Place
        <5>5. ~ (Place(Rank(c), i) < call.image)
          <6>1. Place(Rank(c), i) = Place(Rank(c), 0) + i /\ Place(Rank(c), 0) \in Nat
            BY <4>1, PlaceIs, PlaceGrows
          <6> QED BY <1>3, <1>5, <2>6, <3>1, <4>1, <4>3, <6>1
        <5> QED BY <5>4, <5>5
      <4> QED BY <4>2, <4>3
    <3> QED BY <1>5, <2>5, <2>7, <2>8, <3>1, <3>2, <3>3 DEF WrittenInv
  <2>12. ReadInv' /\ ReadsInOrder' /\ RestErased'
    BY <2>8, NotReading
  <2> QED BY <2>9, <2>10, <2>11, <2>12 DEF FInv, WrittenInv
<1>7. CASE ~ (call.page < lastpage)
  <2>1. /\ call' = [call EXCEPT !.pc = "returned", !.ret = 0]
        /\ UNCHANGED <<page, bad, faults, silent>>
    BY <1>7 DEF WriteRest, Return
  <2>2. /\ call' \in Writes /\ call'.fn = "write" /\ call'.pc = "returned" /\ call'.ver = call.ver
    BY <1>2, <1>3, <2>1 DEF Writes
  <2>3. TypesInv'
    BY <1>1, <1>2, <2>1, <2>2 DEF TypesInv, PageMaps, Pages, Contents, Blocks
  <2>4. WhereInv' /\ WrittenInv' /\ ReadInv' /\ ReadsInOrder'
    BY <2>2 DEF WhereInv, WrittenInv, ReadInv, ReadsInOrder, Running, Idle
  <2>5. ASSUME ~silent, NEW b \in Good, NEW p \in PagesOf(b), page[p] >= 0
        PROVE  \E i \in 0 .. ImagePages[call.ver] - 1 : NthGood(i \div PerBlock) = b
    <3>1. b \in Nat /\ b \in PartBlocks /\ b < Block(call.page) /\ Rank(b) \in Nat /\ NthGood(Rank(b)) = b
      <4>1. b \in Nat /\ b \in PartBlocks /\ b < First + Length /\ Rank(b) \in Nat /\ First + Length \in Nat
        BY GoodIs, Sizes
      <4>2. ~ (Block(call.page) < First + Length)
        BY <1>3, <1>7, Bounds
      <4> QED BY <1>3, <4>1, <4>2, RankGood
    <3>2. PICK r \in InOneBlock : p = Place(b, r)
      <4>1. p \in Nat /\ p \in b * PerBlock .. b * PerBlock + PerBlock - 1 /\ b * PerBlock \in Nat
        BY <3>1, Sizes DEF PagesOf
      <4>2. Block(p) = b
        BY <3>1, <4>1, Bounds
      <4>3. p = Place(b, InBlock(p)) /\ InBlock(p) \in InOneBlock
        BY <4>1, <4>2, Parts, Sizes DEF InOneBlock
      <4> QED BY <4>3
    <3>3. ~ ErasedAt(b, r)
      BY <2>5, <3>2 DEF ErasedAt, Erased
    <3>4. ~ (call.image <= Place(Rank(b), 0))
      BY <1>5, <2>5, <3>1, <3>3
    <3>5. PICK i : i = Place(Rank(b), 0)
      OBVIOUS
    <3>6. i \in Nat /\ Block(i) = Rank(b)
      BY <3>1, <3>5, PlaceIs, Sizes
    <3>7. i \in 0 .. ImagePages[call.ver] - 1
      BY <1>3, <1>5, <2>5, <3>4, <3>5, <3>6
    <3> QED BY <3>1, <3>6, <3>7 DEF Block
  <2>6. RestErased'
    <3>1. Good' = Good /\ \A n : NthGood(n)' = NthGood(n)
      BY <2>1, SameBad
    <3> QED BY <2>1, <2>2, <2>5, <3>1 DEF RestErased, PagesOf
  <2> QED BY <2>3, <2>4, <2>6 DEF FInv
<1> QED BY <1>6, <1>7

-----------------------------------------------------------------------------
(* The other steps                                                         *)

LEMMA EraseLoopFInv == FInv /\ EraseLoop => FInv'
<1> SUFFICES ASSUME FInv, EraseLoop PROVE FInv'
  OBVIOUS
<1>1. TypesInv /\ WhereInv /\ call.fn = "erase" /\ call.pc = "loop" /\ calls' = calls
  BY DEF FInv, EraseLoop, At
<1>2. call \in Erases /\ call.page \in Nat
  BY <1>1 DEF TypesInv, Writes, Erases, Reads, Refused
<1>3. First <= Block(call.page) /\ InBlock(call.page) = 0
  BY <1>1 DEF WhereInv, Running, Idle
<1>4. CASE call.page < lastpage
  <2>1. PICK o \in flash_nand_erase_block(call.page) : Took(o)
    BY <1>2, <1>4, Sizes DEF EraseLoop, lastpage
  <2>2. call' = [call EXCEPT !.page = @ + PerBlock]
    BY <1>2, <1>4, Sizes DEF EraseLoop, lastpage
  <2>3. Outcome(o, Block(call.page)) /\ o.bad = bad
    BY <1>1, <1>2, <1>3, <2>1, EraseOutcome DEF TypesInv
  <2>4. page' \in PageMaps /\ bad' = bad /\ faults' \in 0 .. MaxFaults /\ silent' \in BOOLEAN
    BY <1>1, <2>1, <2>3, TookIs DEF TypesInv, Took, Outcome
  <2>5. PICK q : q = call.page + PerBlock
    OBVIOUS
  <2>6. q \in Nat /\ Block(q) = Block(call.page) + 1 /\ InBlock(q) = 0 /\ Block(call.page) \in Nat
    BY <1>2, <1>3, <2>5, NextBlock, Parts, Sizes
  <2>7. call' \in Erases /\ call'.fn = "erase" /\ call'.page = q
    BY <1>1, <1>2, <2>2, <2>5, <2>6 DEF Erases
  <2>8. TypesInv'
    BY <1>1, <2>4, <2>7 DEF TypesInv, PageMaps, Pages, Contents, Blocks
  <2>9. WhereInv' /\ WrittenInv'
    <3>1. First <= Block(q)
      BY <1>3, <2>6, Sizes
    <3> QED BY <2>6, <2>7, <3>1 DEF WhereInv, WrittenInv, Running, Idle
  <2> QED BY <2>7, <2>8, <2>9, NotReading DEF FInv
<1>5. CASE ~ (call.page < lastpage)
  <2>1. /\ call' = [call EXCEPT !.pc = "returned", !.ret = 0]
        /\ UNCHANGED <<page, bad, faults, silent>>
    BY <1>5 DEF EraseLoop, Return
  <2>2. call' \in Erases /\ call'.fn = "erase" /\ call'.pc = "returned"
    BY <1>1, <1>2, <2>1 DEF Erases
  <2>3. TypesInv'
    BY <1>1, <2>1, <2>2 DEF TypesInv, PageMaps, Pages, Contents, Blocks
  <2>4. WhereInv' /\ WrittenInv'
    BY <2>2 DEF WhereInv, WrittenInv, Running, Idle
  <2> QED BY <2>2, <2>3, <2>4, NotReading DEF FInv
<1> QED BY <1>4, <1>5

LEMMA CutFInv == FInv /\ Cut => FInv'
<1> SUFFICES ASSUME FInv, Cut PROVE FInv'
  OBVIOUS
<1>1. TypesInv /\ UNCHANGED <<bad, faults, calls, silent>>
  BY DEF FInv, Cut
<1>2. page' \in PageMaps
  <2>1. PICK torn : page' = [p \in Pages |-> IF p \in torn THEN Torn ELSE page[p]]
    BY DEF Cut
  <2>2. Torn \in Contents /\ page \in PageMaps
    BY <1>1 DEF Contents, TypesInv
  <2> QED BY <2>1, <2>2 DEF PageMaps
<1>3. call' \in Refused /\ call'.fn = "none" /\ call'.pc = "returned"
  BY DEF Cut, Refused
<1>4. TypesInv'
  BY <1>1, <1>2, <1>3 DEF TypesInv, PageMaps, Pages, Contents, Blocks
<1>5. WhereInv' /\ WrittenInv'
  BY <1>3 DEF WhereInv, WrittenInv, Running, Idle
<1> QED BY <1>3, <1>4, <1>5, NotReading DEF FInv

\* Where a read begins.
LEMMA OffsetIs ==
    ASSUME NEW n \in Nat
    PROVE  /\ FirstPage + n \in Nat
           /\ Block(FirstPage + n) = First + Block(n) /\ InBlock(FirstPage + n) = InBlock(n)
<1> PICK b, r, k : b = Block(n) /\ r = InBlock(n) /\ k = PerBlock
  OBVIOUS
<1>1. b \in Nat /\ r \in Nat /\ r < k /\ n = b * k + r /\ k \in Nat /\ First \in Nat
  BY Parts, Sizes DEF Place
<1>2. /\ (First + b) * k = First * k + b * k /\ First * k \in Nat /\ b * k \in Nat
      /\ First + b \in Nat
  BY <1>1
<1>3. FirstPage + n = Place(First + b, r)
  BY <1>1, <1>2 DEF FirstPage, Place
<1> QED BY <1>1, <1>2, <1>3, PlaceIs

LEMMA EnterTypes ==
    ASSUME TypesInv, NEW c \in Writes \cup Erases \cup Reads \cup Refused, Enter(c)
    PROVE  /\ TypesInv' /\ call' = c /\ UNCHANGED <<page, bad, faults>> /\ silent' = FALSE
           /\ Good' = Good /\ \A b : Rank(b)' = Rank(b)
<1>1. /\ call' = c /\ UNCHANGED <<page, bad, faults>> /\ silent' = FALSE
      /\ calls < MaxCalls /\ calls' = calls + 1
  BY DEF Enter
<1>2. calls' \in 0 .. MaxCalls
  <2>1. calls \in Nat /\ MaxCalls \in Nat
    BY FlashAssumption DEF TypesInv
  <2> QED BY <1>1, <2>1
<1>3. TypesInv'
  <2>1. call' \in Writes \cup Erases \cup Reads \cup Refused
    BY <1>1
  <2>2. /\ page' \in PageMaps /\ bad' \in SUBSET Blocks /\ faults' \in 0 .. MaxFaults
        /\ silent' \in BOOLEAN
    BY <1>1 DEF TypesInv
  <2> QED BY <1>2, <2>1, <2>2 DEF TypesInv, PageMaps, Pages, Contents, Blocks
<1> QED BY <1>1, <1>3, SameBad

LEMMA CallWriteFInv ==
    ASSUME FInv, NEW v \in Versions, NEW t \in BOOLEAN, CallWrite(v, t)
    PROVE  FInv'
<1> PICK c : c = Writing(v, t)
  OBVIOUS
<1>1. /\ c \in Writes /\ c.fn = "write" /\ c.pc = "top" /\ c.page = FirstPage /\ c.image = 0
      /\ c.ver = v
  BY FirstPageIs DEF Writing, Writes
<1>2. TypesInv' /\ call' = c /\ Good' = Good /\ \A b : Rank(b)' = Rank(b)
  BY <1>1, EnterTypes DEF FInv, CallWrite
<1>3. ImagePages[v] \in Nat
  <2>1. ImagePages[v] \in Nat \ {0}
    BY FlashAssumption
  <2> QED BY <2>1
<1>4. First \in Nat /\ First <= First /\ 0 <= FirstPage - FirstPage /\ 0 <= ImagePages[v]
  BY <1>3, Sizes, FirstPageIs
<1>5. WhereInv'
  BY <1>1, <1>2, <1>3, <1>4, FirstPageIs DEF WhereInv, Running, Idle
<1>6. WrittenInv'
  <2>1. Place(Rank(First), 0) = 0
    BY RankFirst, Sizes DEF Place
  <2>2. \A b \in Good : ~ (b < First)
    BY GoodIs, Sizes
  <2>3. \A i \in InOneBlock : ~ (i < 0)
    BY Sizes DEF InOneBlock
  <2> QED BY <1>1, <1>2, <2>1, <2>2, <2>3, FirstPageIs DEF WrittenInv
<1>7. ReadInv' /\ ReadsInOrder' /\ RestErased'
  BY <1>1, <1>2, NotReading
<1> QED BY <1>2, <1>5, <1>6, <1>7 DEF FInv

LEMMA RefusedFInv ==
    ASSUME FInv,
           CallWriteModem \/ CallReadUnaligned
    PROVE  FInv'
<1>1. CASE CallWriteModem
  <2> PICK c : c = [Writing(0, FALSE) EXCEPT !.pc = "returned", !.ret = -1]
    OBVIOUS
  <2>1. c \in Writes /\ c.pc = "returned" /\ c.fn = "write" /\ c.ret = -1
    BY FirstPageIs, FlashAssumption DEF Writing, Writes
  <2>2. TypesInv' /\ call' = c
    BY <1>1, <2>1, EnterTypes DEF FInv, CallWriteModem
  <2> QED BY <2>1, <2>2
      DEF FInv, WhereInv, WrittenInv, ReadInv, ReadsInOrder, RestErased, Running, Idle
<1>2. CASE CallReadUnaligned
  <2> PICK c : c = [fn |-> "read", pc |-> "returned", ret |-> -1]
    OBVIOUS
  <2>1. c \in Refused /\ c.pc = "returned" /\ c.fn = "read" /\ c.ret = -1
    BY DEF Refused
  <2>2. TypesInv' /\ call' = c
    BY <1>2, <2>1, EnterTypes DEF FInv, CallReadUnaligned
  <2> QED BY <2>1, <2>2
      DEF FInv, WhereInv, WrittenInv, ReadInv, ReadsInOrder, RestErased, Running, Idle
<1> QED BY <1>1, <1>2

LEMMA CallEraseFInv == FInv /\ CallErase => FInv'
<1> SUFFICES ASSUME FInv, CallErase PROVE FInv'
  OBVIOUS
<1> PICK c : c = [fn |-> "erase", pc |-> "loop", page |-> FirstPage, ret |-> 0]
  OBVIOUS
<1>1. c \in Erases /\ c.fn = "erase" /\ c.page = FirstPage
  BY FirstPageIs DEF Erases
<1>2. TypesInv' /\ call' = c
  BY <1>1, EnterTypes DEF FInv, CallErase
<1>3. First <= First
  BY Sizes
<1>4. WhereInv' /\ WrittenInv'
  BY <1>1, <1>2, <1>3, FirstPageIs DEF WhereInv, WrittenInv, Running, Idle
<1> QED BY <1>1, <1>2, <1>4, NotReading DEF FInv

LEMMA CallReadFInv ==
    ASSUME FInv, NEW offset \in Nat, NEW n \in Nat \ {0}, CallRead(offset, n)
    PROVE  FInv'
<1> PICK c : c = [fn |-> "read", pc |-> "adjust", page |-> FirstPage + offset, count |-> n,
           offset |-> offset, want |-> n, start_block |-> First,
           start_block_count |-> Block(FirstPage + offset) - First,
           out |-> <<>>, skipped |-> 0, ret |-> 0]
  OBVIOUS
<1>1. /\ FirstPage + offset \in Nat /\ Block(FirstPage + offset) = First + Block(offset)
      /\ InBlock(FirstPage + offset) = InBlock(offset)
      /\ Block(offset) \in Nat /\ First \in Nat /\ Length \in Nat
      /\ Block(FirstPage + offset) - First = Block(offset)
  BY OffsetIs, Parts, Sizes
<1>2. /\ c.fn = "read" /\ c.pc = "adjust" /\ c.page = FirstPage + offset /\ c.count = n
      /\ c.offset = offset /\ c.want = n /\ c.start_block = First
      /\ c.start_block_count = Block(offset) /\ c.out = <<>> /\ c.skipped = 0
  BY <1>1
<1>3. c \in Reads
  BY <1>1 DEF Reads
<1>4. TypesInv' /\ call' = c /\ Good' = Good /\ \A b : Rank(b)' = Rank(b)
  BY <1>3, EnterTypes DEF FInv, CallRead
<1>5. WhereInv' /\ WrittenInv' /\ ReadsInOrder' /\ RestErased'
  BY <1>2, <1>4 DEF WhereInv, WrittenInv, ReadsInOrder, RestErased, Running, Idle
<1>6. ReadInv'
  <2>1. /\ Len(<<>>) + n = n /\ First <= First + Block(offset) /\ First <= First
        /\ First <= First + Length /\ Block(offset) = Block(offset) + Rank(First)
    BY <1>1, RankFirst
  <2> QED BY <1>1, <1>2, <1>4, <2>1 DEF ReadInv
<1> QED BY <1>4, <1>5, <1>6 DEF FInv

-----------------------------------------------------------------------------
(* The steps of a read                                                     *)

LEMMA ReadFields ==
    ASSUME TypesInv, call.fn = "read", call.pc # "returned"
    PROVE  /\ call \in Reads /\ Running("read")
           /\ call.page \in Nat /\ call.count \in Nat /\ call.offset \in Nat
           /\ call.want \in Nat /\ call.want >= 1
           /\ call.start_block \in Nat /\ call.start_block_count \in Nat
           /\ call.out \in Seq(Contents) /\ Len(call.out) \in Nat /\ call.skipped \in Nat
           /\ Block(call.page) \in Nat /\ InBlock(call.page) \in Nat
           /\ InBlock(call.page) < PerBlock /\ Block(call.offset) \in Nat
<1>1. call \in Reads
  BY DEF TypesInv, Writes, Erases, Reads, Refused
<1>2. /\ call.page \in Nat /\ call.count \in Nat /\ call.offset \in Nat
      /\ call.want \in Nat \ {0}
      /\ call.start_block \in Nat /\ call.start_block_count \in Nat
      /\ call.out \in Seq(Contents) /\ call.skipped \in Nat
  BY <1>1 DEF Reads
<1>3. Len(call.out) \in Nat /\ call.want >= 1
  BY <1>2
<1> QED BY <1>1, <1>2, <1>3, Parts DEF Running, Idle

LEMMA NotWriting ==
    ASSUME call'.fn = "read", call'.pc # "returned"
    PROVE  WhereInv' /\ WrittenInv' /\ ReadsInOrder' /\ RestErased'
BY DEF WhereInv, WrittenInv, Running, ReadsInOrder, RestErased, Idle

LEMMA ReadAdjustFInv == FInv /\ ReadAdjust => FInv'
<1> SUFFICES ASSUME FInv, ReadAdjust PROVE FInv'
  OBVIOUS
<1>1. TypesInv /\ ReadInv /\ call.fn = "read" /\ call.pc = "adjust" /\ calls' = calls
  BY DEF FInv, ReadAdjust, At
<1>2. /\ call \in Reads /\ Running("read")
      /\ call.page \in Nat /\ call.count \in Nat /\ call.offset \in Nat
      /\ call.start_block \in Nat /\ call.start_block_count \in Nat
      /\ Block(call.page) \in Nat /\ InBlock(call.page) \in Nat
      /\ InBlock(call.page) < PerBlock /\ Block(call.offset) \in Nat
      /\ call.out \in Seq(Contents) /\ Len(call.out) \in Nat
  BY <1>1, ReadFields
<1>3. /\ Len(call.out) + call.count = call.want
      /\ First <= Block(call.page) /\ First \in Nat /\ Length \in Nat
      /\ First <= call.start_block /\ call.start_block <= First + Length
      /\ call.out = <<>>
      /\ ~silent => /\ Block(call.page) = call.start_block + call.start_block_count
                    /\ InBlock(call.page) = InBlock(call.offset)
                    /\ Block(call.offset) = call.start_block_count + Rank(call.start_block)
  BY <1>1, <1>2, Sizes DEF ReadInv
<1>4. CASE /\ call.start_block_count > 0 /\ call.start_block < First + Length
           /\ \E o \in flash_nand_block_isbad(call.start_block * PerBlock) :
                 /\ Took(o)
                 /\ call' = IF o.res # 0
                            THEN [call EXCEPT !.page = @ + PerBlock, !.start_block = @ + 1]
                            ELSE [call EXCEPT !.start_block_count = @ - 1,
                                              !.start_block = @ + 1]
  <2>1. PICK o \in flash_nand_block_isbad(call.start_block * PerBlock) :
                 /\ Took(o)
                 /\ call' = IF o.res # 0
                            THEN [call EXCEPT !.page = @ + PerBlock, !.start_block = @ + 1]
                            ELSE [call EXCEPT !.start_block_count = @ - 1,
                                              !.start_block = @ + 1]
    BY <1>4
  <2> PICK s : s = call.start_block
    OBVIOUS
  <2>0. PICK p : p = s * PerBlock
    OBVIOUS
  <2>2. s \in Nat /\ p \in Nat /\ Block(p) = s /\ s \in PartBlocks
    <3>1. s \in Nat /\ 0 < PerBlock /\ 0 \in Nat /\ p = Place(s, 0)
      BY <1>2, <2>0, Sizes DEF Place
    <3> QED BY <1>3, <1>4, <3>1, PlaceIs DEF PartBlocks
  <2>3. /\ Outcome(o, s) /\ o.page = page /\ o.bad = bad
        /\ o.res = 0 => s \notin bad
        /\ o.res # 0 /\ ~ o.silent => s \in bad
    BY <1>1, <2>0, <2>1, <2>2, IsbadOutcome DEF TypesInv
  <2>4. /\ page' = page /\ bad' = bad /\ faults' \in 0 .. MaxFaults /\ silent' \in BOOLEAN
        /\ ~silent' => ~silent /\ ~o.silent
    BY <1>1, <2>1, <2>3, TookIs DEF TypesInv, Took, Outcome
  <2>5. Good' = Good /\ \A c : Rank(c)' = Rank(c)
    BY <2>4, SameBad
  <2>6. Rank(s) \in Nat /\ First <= s + 1 /\ s + 1 <= First + Length
    BY <1>3, <1>4, <2>2, GoodIs
  <2>7. CASE o.res # 0
    <3>0. PICK q : q = call.page + PerBlock
      OBVIOUS
    <3>1. q \in Nat /\ Block(q) = Block(call.page) + 1 /\ InBlock(q) = InBlock(call.page)
      <4>1. call.page + PerBlock \in Nat /\ call.page \in Nat
        BY <1>2, Sizes
      <4>2. /\ Block(call.page + PerBlock) = Block(call.page) + 1
            /\ InBlock(call.page + PerBlock) = InBlock(call.page)
        BY <4>1, NextBlock
      <4> QED BY <3>0, <4>1, <4>2
    <3>2. /\ call' \in Reads /\ call'.fn = "read" /\ call'.pc = "adjust" /\ call'.page = q
          /\ call'.start_block = s + 1 /\ call'.start_block_count = call.start_block_count
          /\ call'.out = call.out /\ call'.count = call.count /\ call'.want = call.want
          /\ call'.offset = call.offset
      <4>1. call' = [call EXCEPT !.page = @ + PerBlock, !.start_block = @ + 1]
        BY <2>1, <2>7
      <4>2. s + 1 \in Nat
        BY <2>2
      <4> QED BY <1>1, <1>2, <3>0, <3>1, <4>1, <4>2 DEF Reads
    <3>3. TypesInv'
      BY <1>1, <2>4, <3>2 DEF TypesInv, PageMaps, Pages, Contents, Blocks
    <3>4. ~silent' => /\ Block(q) = (s + 1) + call.start_block_count
                      /\ Block(call.offset) = call.start_block_count + Rank(s + 1)
      <4>1. s \in bad => Rank(s + 1) = Rank(s)
        BY <2>2, GoodIs, RankNext
      <4> QED BY <1>2, <1>3, <2>2, <2>3, <2>4, <2>7, <3>1, <4>1, SMTT(30)
    <3>5. First <= Block(q)
      BY <1>2, <1>3, <3>1
    <3>6. ReadInv'
      BY <1>3, <2>4, <2>5, <2>6, <3>1, <3>2, <3>4, <3>5 DEF ReadInv
    <3> QED BY <3>2, <3>3, <3>6, NotWriting DEF FInv
  <2>8. CASE o.res = 0
    <3>1. /\ call' \in Reads /\ call'.fn = "read" /\ call'.pc = "adjust" /\ call'.page = call.page
          /\ call'.start_block = s + 1 /\ call'.start_block_count = call.start_block_count - 1
          /\ call'.out = call.out /\ call'.count = call.count /\ call'.want = call.want
          /\ call'.offset = call.offset
      <4>1. call' = [call EXCEPT !.start_block_count = call.start_block_count - 1,
                                 !.start_block = s + 1]
        BY <1>2, <2>1, <2>8 DEF Reads
      <4>2. call.start_block_count - 1 \in Nat /\ s + 1 \in Nat
        BY <1>2, <1>4, <2>2
      <4> QED BY <1>1, <1>2, <4>1, <4>2 DEF Reads
    <3>2. TypesInv'
      BY <1>1, <2>4, <3>1 DEF TypesInv, PageMaps, Pages, Contents, Blocks
    <3>3. s \in Good
      BY <2>2, <2>3, <2>8, GoodIs
    <3>4. ~silent' => /\ Block(call.page) = (s + 1) + (call.start_block_count - 1)
                      /\ Block(call.offset) = (call.start_block_count - 1) + Rank(s + 1)
      <4>1. Rank(s + 1) = Rank(s) + 1
        BY <2>2, <3>3, RankNext
      <4> QED BY <1>2, <1>3, <2>2, <2>4, <2>6, <4>1, SMTT(30)
    <3>5. ReadInv'
      BY <1>3, <2>4, <2>5, <2>6, <3>1, <3>4 DEF ReadInv
    <3> QED BY <3>1, <3>2, <3>5, NotWriting DEF FInv
  <2> QED BY <2>7, <2>8
<1>5. CASE /\ call.start_block_count = 0 \/ call.start_block = First + Length
           /\ call' = [call EXCEPT !.pc = "loop"]
           /\ UNCHANGED <<page, bad, faults, silent>>
  <2>1. /\ call' \in Reads /\ call'.fn = "read" /\ call'.pc = "loop" /\ call'.page = call.page
        /\ call'.start_block = call.start_block
        /\ call'.start_block_count = call.start_block_count
        /\ call'.out = <<>> /\ call'.count = call.count /\ call'.want = call.want
        /\ call'.offset = call.offset
    BY <1>1, <1>2, <1>3, <1>5 DEF Reads
  <2>2. TypesInv'
    BY <1>1, <1>5, <2>1 DEF TypesInv, PageMaps, Pages, Contents, Blocks
  <2>3. Good' = Good /\ \A c : Rank(c)' = Rank(c)
    BY <1>5, SameBad
  <2>4. (~silent /\ call.start_block_count = 0) =>
           Place(Rank(Block(call.page)), InBlock(call.page)) = call.offset + Len(call.out)
    <3>1. SUFFICES ASSUME ~silent, call.start_block_count = 0
          PROVE  Place(Rank(Block(call.page)), InBlock(call.page)) = call.offset + Len(call.out)
      OBVIOUS
    <3>2. /\ Rank(Block(call.page)) = Block(call.offset) /\ InBlock(call.page) = InBlock(call.offset)
      <4>1. Block(call.page) = call.start_block /\ Rank(call.start_block) \in Nat
        BY <1>2, <1>3, <3>1, GoodIs
      <4> QED BY <1>2, <1>3, <3>1, <4>1
    <3>3. call.offset = Place(Block(call.offset), InBlock(call.offset))
      BY <1>2, Parts
    <3> QED BY <1>2, <1>3, <3>2, <3>3
  <2>5. \A i \in 1 .. Len(call.out) : FALSE
    BY <1>3
  <2>6. ReadInv'
    BY <1>3, <1>5, <2>1, <2>3, <2>4, <2>5 DEF ReadInv
  <2> QED BY <2>1, <2>2, <2>6, NotWriting DEF FInv
<1> QED BY <1>4, <1>5 DEF ReadAdjust

LEMMA ReadPageFInv == FInv /\ ReadPage => FInv'
<1> SUFFICES ASSUME FInv, ReadPage PROVE FInv'
  OBVIOUS
<1>1. /\ TypesInv /\ ReadInv /\ call.fn = "read" /\ call.pc = "loop" /\ calls' = calls
      /\ call.page < lastpage /\ call.start_block_count = 0 /\ call.count > 0
  BY DEF FInv, ReadPage, At, MorePages
<1>2. /\ call \in Reads /\ Running("read")
      /\ call.page \in Nat /\ call.count \in Nat /\ call.offset \in Nat
      /\ call.start_block \in Nat /\ call.skipped \in Nat
      /\ Block(call.page) \in Nat /\ InBlock(call.page) \in Nat
      /\ InBlock(call.page) < PerBlock
      /\ call.out \in Seq(Contents) /\ Len(call.out) \in Nat
  BY <1>1, ReadFields
<1>3. /\ Len(call.out) + call.count = call.want
      /\ First <= Block(call.page) /\ First \in Nat /\ Length \in Nat
      /\ First <= call.start_block /\ call.start_block <= First + Length
      /\ (~silent /\ call.skipped = 0) =>
           /\ Place(Rank(Block(call.page)), InBlock(call.page)) = call.offset + Len(call.out)
           /\ call.out # <<>> => call.offset + Len(call.out) <= GoodPages
           /\ \A i \in 1 .. Len(call.out) : call.out[i] = Logical(call.offset + i - 1)
  BY <1>1, <1>2, Sizes DEF ReadInv
<1>4. PICK o \in _flash_nand_read_page(call.page) :
           /\ Took(o)
           /\ call' =
              CASE o.res = -1 -> [call EXCEPT !.page = @ + 1, !.skipped = @ + 1]
                [] o.res = -2 -> [call EXCEPT !.page = @ + PerBlock]
                [] OTHER -> [call EXCEPT !.page = @ + 1, !.count = @ - 1,
                                         !.out = Append(@, page[call.page])]
  BY DEF ReadPage
<1>5. /\ Outcome(o, Block(call.page)) /\ o.page = page /\ o.bad = bad
      /\ o.res \in {0, -1, -2}
      /\ o.res # -2 => Block(call.page) \notin bad
      /\ o.res = -2 /\ ~ o.silent => Block(call.page) \in bad
  BY <1>1, <1>2, ReadOutcome DEF TypesInv
<1>6. /\ page' = page /\ bad' = bad /\ faults' \in 0 .. MaxFaults /\ silent' \in BOOLEAN
      /\ ~silent' => ~silent /\ ~o.silent
  BY <1>1, <1>4, <1>5, TookIs DEF TypesInv, Took, Outcome
<1>7. /\ Good' = Good /\ (\A c : Rank(c)' = Rank(c)) /\ GoodPages' = GoodPages
      /\ \A n : NthGood(n)' = NthGood(n)
  BY <1>6, SameBad
<1>8. \A n : Logical(n)' = Logical(n)
  BY <1>6, <1>7 DEF Logical
<1>9. /\ Block(call.page) \in PartBlocks /\ call.page \in Pages
      /\ Block(call.page) \notin bad => Block(call.page) \in Good
  BY <1>1, <1>2, <1>3, InPartition
<1>10. PICK b, r : b = Block(call.page) /\ r = InBlock(call.page)
  OBVIOUS
<1>11. /\ b \in Nat /\ r \in Nat /\ r < PerBlock /\ First <= b /\ Rank(b) \in Nat
       /\ PerBlock \in Nat /\ call.page = Place(b, r)
  BY <1>2, <1>3, <1>10, GoodIs, Sizes, Parts
<1>12. PICK q : q = call.page + 1
  OBVIOUS
<1>13. /\ q \in Nat /\ Block(q) \in Nat /\ First <= Block(q)
       /\ r + 1 < PerBlock => Block(q) = b /\ InBlock(q) = r + 1
       /\ r + 1 >= PerBlock => Block(q) = b + 1 /\ InBlock(q) = 0 /\ r + 1 = PerBlock
  <2>1. /\ q \in Nat /\ Block(q) \in Nat
        /\ r + 1 < PerBlock => Block(q) = b /\ InBlock(q) = r + 1
        /\ r + 1 >= PerBlock => Block(q) = b + 1 /\ InBlock(q) = 0 /\ r + 1 = PerBlock
    <3>1. /\ InBlock(call.page) + 1 < PerBlock =>
               Block(call.page + 1) = b /\ InBlock(call.page + 1) = InBlock(call.page) + 1
          /\ InBlock(call.page) + 1 >= PerBlock =>
               /\ Block(call.page + 1) = b + 1 /\ InBlock(call.page + 1) = 0
               /\ InBlock(call.page) + 1 = PerBlock
      BY <1>2, <1>10, NextPage
    <3>2. call.page + 1 \in Nat
      BY <1>2
    <3> QED BY <1>10, <1>12, <3>1, <3>2, Parts
  <2> QED BY <1>3, <1>11, <2>1
<1>14. CASE o.res = -1
  <2>1. call' = [call EXCEPT !.page = q, !.skipped = call.skipped + 1]
    BY <1>2, <1>4, <1>12, <1>14 DEF Reads
  <2>2. /\ call' \in Reads /\ call'.fn = "read" /\ call'.pc = "loop" /\ call'.page = q
        /\ call'.start_block = call.start_block /\ call'.skipped # 0
        /\ call'.out = call.out /\ call'.count = call.count /\ call'.want = call.want
    <3>1. call.skipped + 1 \in Nat /\ call.skipped + 1 # 0
      BY <1>2
    <3> QED BY <1>1, <1>2, <1>13, <2>1, <3>1 DEF Reads
  <2>3. TypesInv'
    BY <1>1, <1>6, <2>2 DEF TypesInv, PageMaps, Pages, Contents, Blocks
  <2>4. ReadInv'
    BY <1>3, <1>13, <2>2 DEF ReadInv
  <2> QED BY <2>2, <2>3, <2>4, NotWriting DEF FInv
<1>15. CASE o.res = -2
  <2>1. PICK p : p = call.page + PerBlock
    OBVIOUS
  <2>2. p \in Nat /\ Block(p) = b + 1 /\ InBlock(p) = r
    <3>1. call.page + PerBlock \in Nat
      BY <1>2, Sizes
    <3>2. /\ Block(call.page + PerBlock) = Block(call.page) + 1
          /\ InBlock(call.page + PerBlock) = InBlock(call.page)
      BY <1>2, NextBlock
    <3> QED BY <1>10, <2>1, <3>1, <3>2
  <2>3. call' = [call EXCEPT !.page = p]
    BY <1>2, <1>4, <1>15, <2>1 DEF Reads
  <2>4. /\ call' \in Reads /\ call'.fn = "read" /\ call'.pc = "loop" /\ call'.page = p
        /\ call'.start_block = call.start_block /\ call'.skipped = call.skipped
        /\ call'.offset = call.offset
        /\ call'.out = call.out /\ call'.count = call.count /\ call'.want = call.want
    BY <1>1, <1>2, <2>2, <2>3 DEF Reads
  <2>5. TypesInv'
    BY <1>1, <1>6, <2>4 DEF TypesInv, PageMaps, Pages, Contents, Blocks
  <2>6. ~silent' => ~silent /\ Rank(Block(p)) = Rank(b)
    <3>1. ASSUME ~silent' PROVE ~silent /\ Rank(b + 1) = Rank(b)
      <4>1. b \notin Good
        BY <1>5, <1>6, <1>10, <1>15, <3>1, GoodIs
      <4> QED BY <1>6, <1>11, <3>1, <4>1, RankNext
    <3> QED BY <2>2, <3>1
  <2>7. First <= Block(p)
    BY <1>3, <1>11, <2>2
  <2>8. ReadInv'
    BY <1>3, <1>7, <1>8, <1>10, <2>2, <2>4, <2>6, <2>7 DEF ReadInv
  <2> QED BY <2>4, <2>5, <2>8, NotWriting DEF FInv
<1>16. CASE o.res = 0
  <2>1. call' = [call EXCEPT !.page = q, !.count = call.count - 1,
                             !.out = Append(call.out, page[call.page])]
    BY <1>2, <1>4, <1>12, <1>16 DEF Reads
  <2>2. PICK x : x = page[call.page]
    OBVIOUS
  <2>3. PICK out : out = Append(call.out, x)
    OBVIOUS
  <2>4. x \in Contents
    BY <1>1, <1>9, <2>2 DEF TypesInv, PageMaps
  <2>5. /\ out \in Seq(Contents) /\ Len(out) = Len(call.out) + 1 /\ out # <<>>
        /\ \A i \in 1 .. Len(call.out) : out[i] = call.out[i]
        /\ out[Len(call.out) + 1] = x
    BY <1>2, <2>3, <2>4
  <2>6. /\ call' \in Reads /\ call'.fn = "read" /\ call'.pc = "loop" /\ call'.page = q
        /\ call'.start_block = call.start_block /\ call'.skipped = call.skipped
        /\ call'.offset = call.offset
        /\ call'.out = out /\ call'.count = call.count - 1 /\ call'.want = call.want
    <3>1. call.count - 1 \in Nat
      BY <1>1, <1>2
    <3>2. call' = [call EXCEPT !.page = q, !.count = call.count - 1, !.out = out]
      BY <2>1, <2>2, <2>3
    <3> QED BY <1>1, <1>2, <1>13, <2>5, <3>1, <3>2 DEF Reads
  <2>7. TypesInv'
    BY <1>1, <1>6, <2>6 DEF TypesInv, PageMaps, Pages, Contents, Blocks
  <2>8. b \in Good
    BY <1>5, <1>9, <1>10, <1>16
  <2>9. ASSUME ~silent, call.skipped = 0
        PROVE  /\ Place(Rank(Block(q)), InBlock(q)) = call.offset + Len(out)
               /\ call.offset + Len(out) <= GoodPages
               /\ \A i \in 1 .. Len(out) : out[i] = Logical(call.offset + i - 1)
    <3>0. Len(out) = Len(call.out) + 1 /\ Len(call.out) \in Nat /\ call.offset \in Nat
      BY <1>2, <2>5
    <3>1. Place(Rank(b), r) = call.offset + Len(call.out)
      BY <1>3, <1>10, <2>9
    <3>2. Place(Rank(b), r) = Place(Rank(b), 0) + r /\ Place(Rank(b), 0) \in Nat
      BY <1>11, PlaceIs, PlaceGrows
    <3>3. Place(Rank(b) + 1, 0) = Place(Rank(b), 0) + PerBlock
      BY <1>11, PlaceGrows
    <3>4. Place(Rank(Block(q)), InBlock(q)) = call.offset + Len(out)
      <4>1. CASE r + 1 < PerBlock
        <5>1. Place(Rank(b), r + 1) = Place(Rank(b), 0) + (r + 1)
          BY <1>11, <4>1, PlaceIs
        <5> QED BY <1>11, <1>13, <3>0, <3>1, <3>2, <4>1, <5>1
      <4>2. CASE r + 1 >= PerBlock
        <5>1. Rank(b + 1) = Rank(b) + 1
          BY <1>11, <2>8, RankNext
        <5> QED BY <1>11, <1>13, <3>0, <3>1, <3>2, <3>3, <4>2, <5>1, SMTT(30)
      <4> QED BY <1>11, <4>1, <4>2
    <3>5. call.offset + Len(out) <= GoodPages
      <4>1. PICK g : g = Cardinality(Good)
        OBVIOUS
      <4>2. g \in Nat /\ Rank(b) + 1 <= g
        BY <2>8, <4>1, RankGood, GoodIs
      <4>3. Place(Rank(b) + 1, 0) <= Place(g, 0) /\ Place(g, 0) \in Nat
        BY <1>11, <4>2, PlaceGrows
      <4>4. GoodPages = Place(g, 0)
        BY <4>1, <4>2, Sizes DEF GoodPages, Place
      <4> QED BY <1>11, <3>0, <3>1, <3>2, <3>3, <4>3, <4>4, SMTT(30)
    <3>6. Logical(call.offset + (Len(call.out) + 1) - 1) = x
      <4>1. Logical(Place(Rank(b), r)) = page[Place(b, r)]
        BY <1>11, <2>8, LogicalIs
      <4>2. call.offset + (Len(call.out) + 1) - 1 = Place(Rank(b), r)
        BY <1>2, <3>1
      <4> QED BY <1>11, <2>2, <4>1, <4>2
    <3>7. ASSUME NEW i \in 1 .. Len(out) PROVE out[i] = Logical(call.offset + i - 1)
      <4>1. CASE i = Len(call.out) + 1
        BY <2>5, <3>6, <4>1
      <4>2. CASE i # Len(call.out) + 1
        <5>1. i \in 1 .. Len(call.out)
          BY <1>2, <2>5, <4>2
        <5> QED BY <1>3, <2>5, <2>9, <5>1
      <4> QED BY <4>1, <4>2
    <3> QED BY <3>4, <3>5, <3>7
  <2>10. Len(out) + (call.count - 1) = call.want
    <3>1. Len(out) = Len(call.out) + 1 /\ Len(call.out) \in Nat /\ call.count \in Nat
      BY <1>2, <2>5
    <3>2. Len(call.out) + call.count = call.want
      BY <1>3
    <3> QED BY <3>1, <3>2
  <2>11. ReadInv'
    BY <1>3, <1>6, <1>7, <1>8, <1>13, <2>6, <2>9, <2>10 DEF ReadInv
  <2> QED BY <2>6, <2>7, <2>11, NotWriting DEF FInv
<1> QED BY <1>5, <1>14, <1>15, <1>16

LEMMA ReadEndsFInv == FInv /\ ReadEnds => FInv'
<1> SUFFICES ASSUME FInv, ReadEnds PROVE FInv'
  OBVIOUS
<1>1. /\ TypesInv /\ ReadInv /\ call.fn = "read" /\ call.pc = "loop"
      /\ UNCHANGED <<page, bad, faults, calls, silent>>
  BY DEF FInv, ReadEnds, At
<1>2. /\ call \in Reads /\ Running("read") /\ call.count \in Nat /\ call.offset \in Nat
      /\ call.out \in Seq(Contents) /\ Len(call.out) \in Nat /\ call.want \in Nat /\ call.want >= 1
  BY <1>1, ReadFields
<1>3. PICK r \in {0, -1} :
         /\ call' = [call EXCEPT !.pc = "returned", !.ret = r]
         /\ r = 0 => call.count = 0 /\ call.start_block_count = 0
  BY DEF ReadEnds, Return, MorePages
<1>4. /\ call' \in Reads /\ call'.fn = "read" /\ call'.pc = "returned" /\ call'.ret = r
      /\ call'.offset = call.offset /\ call'.want = call.want /\ call'.out = call.out
      /\ call'.skipped = call.skipped
  BY <1>1, <1>2, <1>3 DEF Reads
<1>5. TypesInv'
  BY <1>1, <1>4 DEF TypesInv, PageMaps, Pages, Contents, Blocks
<1>6. GoodPages' = GoodPages /\ \A n : NthGood(n)' = NthGood(n)
  BY <1>1, SameBad
<1>7. \A n : Logical(n)' = Logical(n)
  BY <1>1, <1>6 DEF Logical
<1>8. ASSUME r = 0, ~silent, call.skipped = 0
      PROVE  /\ call.offset + call.want <= GoodPages
             /\ call.out = [i \in 1 .. call.want |-> Logical(call.offset + i - 1)]
  <2>1. call.count = 0 /\ Len(call.out) = call.want /\ call.out # <<>>
    BY <1>1, <1>2, <1>3, <1>8 DEF ReadInv
  <2>2. /\ call.offset + Len(call.out) <= GoodPages
        /\ \A i \in 1 .. Len(call.out) : call.out[i] = Logical(call.offset + i - 1)
    BY <1>1, <1>2, <1>3, <1>8, <2>1 DEF ReadInv
  <2>3. call.out = [i \in 1 .. Len(call.out) |-> call.out[i]]
    BY <1>2
  <2> QED BY <2>1, <2>2, <2>3
<1>9. ReadsInOrder'
  BY <1>1, <1>4, <1>6, <1>7, <1>8 DEF ReadsInOrder
<1>10. WhereInv' /\ WrittenInv' /\ ReadInv' /\ RestErased'
  BY <1>4 DEF WhereInv, WrittenInv, ReadInv, RestErased, Running, Idle
<1> QED BY <1>5, <1>9, <1>10 DEF FInv

-----------------------------------------------------------------------------
(* The invariant holds                                                     *)

\* A page of a good block lies in the image where its block ranks.
LEMMA PlaceFits ==
    ASSUME NEW b \in Good, NEW r \in Nat, r < PerBlock
    PROVE  Place(Rank(b), r) \in 0 .. PerBlock * Length
<1>1. Rank(b) \in Nat /\ Rank(b) + 1 <= Length
  <2>1. IsFiniteSet(PartBlocks) /\ Cardinality(PartBlocks) = Length
    BY Sizes, FS_Interval DEF PartBlocks
  <2>2. Good \in SUBSET PartBlocks
    BY DEF Good
  <2>3. Cardinality(Good) <= Length
    BY <2>1, <2>2, FS_Subset
  <2> QED BY <2>3, RankGood, GoodIs, Sizes
<1>2. /\ Place(Rank(b), r) = Place(Rank(b), 0) + r /\ Place(Rank(b), 0) \in Nat
      /\ Place(Rank(b) + 1, 0) = Place(Rank(b), 0) + PerBlock
      /\ Place(Rank(b) + 1, 0) <= Place(Length, 0)
  BY <1>1, PlaceIs, PlaceGrows, Sizes
<1>3. Place(Length, 0) = PerBlock * Length /\ PerBlock * Length \in Nat
  BY Sizes DEF Place
<1> QED BY <1>2, <1>3, Sizes

LEMMA InitFInv == FlashInit => FInv
<1> SUFFICES ASSUME FlashInit PROVE FInv
  OBVIOUS
<1>1. /\ bad \in SUBSET PartBlocks
      /\ call = [fn |-> "none", pc |-> "returned", ret |-> -1]
      /\ faults = 0 /\ calls = 0 /\ silent = FALSE
  BY DEF FlashInit
<1>2. page = [p \in Pages |->
           IF Block(p) \notin PartBlocks THEN Foreign
           ELSE IF Block(p) \in bad THEN Zero
           ELSE IF Place(Rank(Block(p)), InBlock(p)) < ImagePages[0]
                THEN Data(0, Place(Rank(Block(p)), InBlock(p))) ELSE Erased]
  BY DEF FlashInit, Rank, GoodBefore, Good, Place
<1>3. page \in PageMaps
  <2>1. ASSUME NEW p \in Pages, Block(p) \in PartBlocks, Block(p) \notin bad
        PROVE  Data(0, Place(Rank(Block(p)), InBlock(p))) \in Contents
    <3>1. p \in Nat
      BY Sizes DEF Pages
    <3>2. Block(p) \in Good /\ InBlock(p) \in Nat /\ InBlock(p) < PerBlock
      BY <2>1, <3>1, Parts DEF Good
    <3>3. Place(Rank(Block(p)), InBlock(p)) \in 0 .. PerBlock * Length
      BY <3>2, PlaceFits
    <3> QED BY <3>3, FlashAssumption DEF Contents
  <2>2. {Foreign, Zero, Erased} \in SUBSET Contents
    BY DEF Contents
  <2> QED BY <1>2, <2>1, <2>2 DEF PageMaps
<1>4. TypesInv
  <2>1. bad \in SUBSET Blocks
    BY <1>1, Sizes DEF PartBlocks, Blocks
  <2>2. call \in Refused
    BY <1>1 DEF Refused
  <2>3. faults \in 0 .. MaxFaults /\ calls \in 0 .. MaxCalls
    BY <1>1, FlashAssumption
  <2> QED BY <1>1, <1>3, <2>1, <2>2, <2>3 DEF TypesInv
<1>5. WhereInv /\ WrittenInv /\ ReadInv /\ ReadsInOrder /\ RestErased
  BY <1>1 DEF WhereInv, WrittenInv, ReadInv, ReadsInOrder, RestErased, Running, Idle
<1> QED BY <1>4, <1>5 DEF FInv

LEMMA StutterFInv == FInv /\ UNCHANGED fvars => FInv'
<1> SUFFICES ASSUME FInv, UNCHANGED fvars PROVE FInv'
  OBVIOUS
<1>1. /\ page' = page /\ bad' = bad /\ call' = call /\ faults' = faults /\ calls' = calls
      /\ silent' = silent
  BY DEF fvars
<1>2. /\ Good' = Good /\ GoodPages' = GoodPages
      /\ \A b : Rank(b)' = Rank(b) /\ NthGood(b)' = NthGood(b)
  BY <1>1, SameBad
<1>3. TypesInv'
  BY <1>1 DEF FInv, TypesInv, PageMaps, Pages, Contents, Blocks
<1>4. WhereInv'
  BY <1>1, <1>2 DEF FInv, WhereInv, Running, Idle
<1>5. WrittenInv'
  <2>1. ASSUME NEW c, NEW i
        PROVE  (WrittenAt(c, i)' <=> WrittenAt(c, i)) /\ (ErasedAt(c, i)' <=> ErasedAt(c, i))
    BY <1>1, <1>2 DEF WrittenAt, ErasedAt, Data, Place
  <2> QED BY <1>1, <1>2, <2>1 DEF FInv, WrittenInv, Running, Idle
<1>6. \A n : Logical(n)' = Logical(n)
  BY <1>1, <1>2 DEF Logical
<1>7. ReadInv' /\ ReadsInOrder'
  BY <1>1, <1>2, <1>6 DEF FInv, ReadInv, ReadsInOrder, Running, Idle
<1>8. RestErased'
  BY <1>1, <1>2 DEF FInv, RestErased, Idle, PagesOf
<1> QED BY <1>3, <1>4, <1>5, <1>7, <1>8 DEF FInv

LEMMA NextFInv == FInv /\ [FlashNext]_fvars => FInv'
<1> SUFFICES ASSUME FInv, [FlashNext]_fvars PROVE FInv'
  OBVIOUS
<1>1. CASE Driver
  BY <1>1, WriteEndsFInv, WriteOutOfSpaceFInv, WriteEraseFInv, WritePageFInv, WriteRedoFInv,
     WriteMarkFInv, WriteRestFInv, EraseLoopFInv, ReadAdjustFInv, ReadPageFInv, ReadEndsFInv
     DEF Driver
<1>2. CASE \E v \in Versions \ {0}, t \in BOOLEAN : CallWrite(v, t)
  BY <1>2, CallWriteFInv
<1>3. CASE \E offset \in 0 .. Length * PerBlock - 1, n \in 1 .. Length * PerBlock :
              CallRead(offset, n)
  <2>1. PICK offset \in 0 .. Length * PerBlock - 1, n \in 1 .. Length * PerBlock :
              CallRead(offset, n)
    BY <1>3
  <2>2. offset \in Nat /\ n \in Nat \ {0}
    OBVIOUS
  <2> QED BY <2>1, <2>2, CallReadFInv
<1>4. CASE Cut \/ CallWriteModem \/ CallReadUnaligned \/ CallErase
  BY <1>4, CutFInv, RefusedFInv, CallEraseFInv
<1>5. CASE UNCHANGED fvars
  BY <1>5, StutterFInv
<1> QED BY <1>1, <1>2, <1>3, <1>4, <1>5 DEF FlashNext

\* The invariant of the driver: the types, where a call stands, and what it has
\* written, erased or read there, as long as no failure of the chip went unseen.
THEOREM FlashInvariant == FlashSpec => []FInv
BY InitFInv, NextFInv, PTL DEF FlashSpec

\* Reads hand out the partition in order, and a write that is done leaves nothing
\* of an older image behind its own.
THEOREM FlashCorrect == FlashSpec => []FlashInv
<1>1. FInv => FlashInv
  <2> SUFFICES ASSUME FInv PROVE FlashInv
    OBVIOUS
  <2>1. TypesInv /\ ReadsInOrder /\ RestErased
    BY DEF FInv
  <2>2. /\ call.pc \in {"returned", "top", "write", "redo", "mark", "rest", "loop", "adjust"}
        /\ ~Idle => call.page \in Nat
    BY <2>1 DEF TypesInv, Writes, Erases, Reads, Refused, Idle
  <2> QED BY <2>1, <2>2 DEF FlashInv, FlashTypeOK, TypesInv, PageMaps
<1> QED BY <1>1, FlashInvariant, PTL

-----------------------------------------------------------------------------
(* What the driver changes                                                 *)

OnlyGoodChanged ==
    /\ bad \subseteq bad'
    /\ \A p \in Pages : page'[p] # page[p] => Block(p) \in PartBlocks \ bad

LEMMA OnlyInIsGood ==
    ASSUME NEW b \in PartBlocks, OnlyIn(b, page'), bad \subseteq bad'
    PROVE  OnlyGoodChanged
BY DEF OnlyIn, OnlyGoodChanged

LEMMA ChipKept == page' = page /\ bad' = bad => OnlyGoodChanged
BY DEF OnlyGoodChanged

\* A list that erases, at a page of the partition.
LEMMA EraseKeeps ==
    ASSUME TypesInv, NEW p \in Nat, InBlock(p) = 0, First <= Block(p), p < lastpage,
           NEW o \in flash_nand_erase_block(p), NEW unseen \in BOOLEAN, TookAs(o, unseen)
    PROVE  OnlyGoodChanged
<1>1. Outcome(o, Block(p)) /\ o.bad = bad
  BY EraseOutcome DEF TypesInv
<1>2. OnlyIn(Block(p), page') /\ bad' = bad
  BY <1>1, TookIs DEF TypesInv
<1>3. Block(p) \in PartBlocks
  BY InPartition
<1> QED BY <1>2, <1>3, OnlyInIsGood

LEMMA EraseTook ==
    ASSUME TypesInv, NEW p \in Nat, InBlock(p) = 0, First <= Block(p), p < lastpage,
           NEW o \in flash_nand_erase_block(p), Took(o)
    PROVE  OnlyGoodChanged
<1>1. o.silent \in BOOLEAN
  BY EraseOutcome DEF Outcome, TypesInv
<1> QED BY <1>1, EraseKeeps DEF Took

LEMMA WriteKeeps == FInv /\ (WriteErase \/ WritePage \/ WriteRedo \/ WriteMark \/ WriteRest) => OnlyGoodChanged
<1> SUFFICES ASSUME FInv, WriteErase \/ WritePage \/ WriteRedo \/ WriteMark \/ WriteRest
             PROVE  OnlyGoodChanged
  OBVIOUS
<1>1. TypesInv /\ WhereInv /\ call.fn = "write" /\ call.pc # "returned"
  BY DEF FInv, WriteErase, WritePage, WriteRedo, WriteMark, WriteRest, At
<1>2. /\ Running("write") /\ call.page \in Nat /\ call.image \in Nat /\ call.ver \in Versions
      /\ Block(call.page) \in Nat
  BY <1>1, WriteFields
<1>3. /\ First <= Block(call.page) /\ call.image <= call.page - FirstPage
      /\ (call.pc \in {"write", "redo", "mark"} \/ (call.pc = "top" /\ InBlock(call.page) # 0))
            => Block(call.page) \in Good
      /\ call.pc \in {"write", "redo", "mark", "rest"} => InBlock(call.page) = 0
  BY <1>1, <1>2 DEF WhereInv
<1>4. Block(call.page) \in Good =>
         /\ call.page < lastpage /\ Block(call.page) \in PartBlocks
         /\ Block(call.page) \notin bad /\ call.page \in Pages
  BY <1>2, <1>3, GoodIs, Bounds, InPartition
<1>5. CASE WriteErase
  <2>1. PICK o \in flash_nand_erase_block(call.page) : Took(o)
    BY <1>5 DEF WriteErase
  <2>2. call.page < lastpage /\ InBlock(call.page) = 0
    BY <1>5 DEF WriteErase
  <2> QED BY <1>1, <1>2, <1>3, <2>1, <2>2, EraseTook
<1>6. CASE WritePage
  <2>1. Block(call.page) \in Good
    BY <1>3, <1>6 DEF WritePage, At
  <2>2. Data(call.ver, call.image) \in Contents
    BY <1>2, <1>3, <1>4, <2>1, DataFits
  <2>3. PICK o \in _flash_nand_write_page(call.page, Data(call.ver, call.image)) : Took(o)
    BY <1>6 DEF WritePage
  <2>4. Outcome(o, Block(call.page)) /\ o.bad = bad
    BY <1>1, <1>4, <2>1, <2>2, WriteOutcome DEF TypesInv
  <2>5. OnlyIn(Block(call.page), page') /\ bad' = bad
    BY <1>1, <2>3, <2>4, TookIs DEF TypesInv, Took, Outcome
  <2> QED BY <1>4, <2>1, <2>5, OnlyInIsGood
<1>7. CASE WriteRedo
  <2>1. PICK o \in flash_nand_erase_block(call.page) : TookAs(o, FALSE)
    BY <1>7 DEF WriteRedo
  <2>2. call.page < lastpage /\ InBlock(call.page) = 0
    BY <1>3, <1>4, <1>7 DEF WriteRedo, At
  <2> QED BY <1>1, <1>2, <1>3, <2>1, <2>2, EraseKeeps
<1>8. CASE WriteMark
  <2>1. PICK o \in flash_nand_mark_badblock(call.page) : Took(o)
    BY <1>8 DEF WriteMark
  <2>2. InBlock(call.page) = 0 /\ Block(call.page) \in Good
    BY <1>3, <1>8 DEF WriteMark, At
  <2>3. Outcome(o, Block(call.page)) /\ o.bad \in {bad, bad \cup {Block(call.page)}}
    BY <1>1, <1>2, <1>4, <2>1, <2>2, MarkOutcome DEF TypesInv
  <2>4. o.bad \in SUBSET Blocks
    BY <1>1, <1>2, <1>3, <1>4, <2>2, <2>3, InPartition DEF TypesInv
  <2>5. OnlyIn(Block(call.page), page') /\ bad' = o.bad
    BY <1>1, <2>1, <2>3, <2>4, TookIs DEF Took, Outcome
  <2> QED BY <1>4, <2>2, <2>3, <2>5, OnlyInIsGood
<1>9. CASE WriteRest
  <2>1. CASE call.page < lastpage
    <3>1. PICK o \in flash_nand_erase_block(call.page) : Took(o)
      BY <1>2, <1>9, <2>1, Sizes DEF WriteRest, lastpage
    <3>2. InBlock(call.page) = 0
      BY <1>3, <1>9 DEF WriteRest, At
    <3> QED BY <1>1, <1>2, <1>3, <2>1, <3>1, <3>2, EraseTook
  <2>2. CASE ~ (call.page < lastpage)
    <3>1. page' = page /\ bad' = bad
      BY <1>9, <2>2 DEF WriteRest
    <3> QED BY <3>1, ChipKept
  <2> QED BY <2>1, <2>2
<1> QED BY <1>5, <1>6, <1>7, <1>8, <1>9

LEMMA StepKeeps == FInv /\ [FlashNext]_fvars => OnlyGoodChanged
<1> SUFFICES ASSUME FInv, [FlashNext]_fvars PROVE OnlyGoodChanged
  OBVIOUS
<1>1. CASE WriteErase \/ WritePage \/ WriteRedo \/ WriteMark \/ WriteRest
  BY <1>1, WriteKeeps
<1>2. CASE EraseLoop
  <2>1. TypesInv /\ WhereInv /\ call.fn = "erase" /\ call.pc = "loop"
    BY <1>2 DEF FInv, EraseLoop, At
  <2>2. call.page \in Nat
    BY <2>1 DEF TypesInv, Writes, Erases, Reads, Refused
  <2>3. First <= Block(call.page) /\ InBlock(call.page) = 0
    BY <2>1 DEF WhereInv, Running, Idle
  <2>4. CASE call.page < lastpage
    <3>1. PICK o \in flash_nand_erase_block(call.page) : Took(o)
      BY <1>2, <2>2, <2>4, Sizes DEF EraseLoop, lastpage
    <3> QED BY <2>1, <2>2, <2>3, <2>4, <3>1, EraseTook
  <2>5. CASE ~ (call.page < lastpage)
    BY <1>2, <2>5, ChipKept DEF EraseLoop
  <2> QED BY <2>4, <2>5
<1>3. CASE ReadAdjust \/ ReadPage
  <2>1. TypesInv /\ call.fn = "read" /\ call.pc # "returned"
    BY <1>3 DEF FInv, ReadAdjust, ReadPage, At
  <2>2. call.page \in Nat /\ call.start_block \in Nat
    BY <2>1, ReadFields
  <2>3. CASE ReadPage
    <3>1. PICK o \in _flash_nand_read_page(call.page) : Took(o)
      BY <2>3 DEF ReadPage
    <3>2. o.page = page /\ o.bad = bad
      BY <2>1, <2>2, <3>1, ReadOutcome DEF TypesInv
    <3> QED BY <3>1, <3>2, ChipKept DEF Took, TookAs
  <2>4. CASE \E o \in flash_nand_block_isbad(call.start_block * PerBlock) : Took(o)
    <3>1. PICK o \in flash_nand_block_isbad(call.start_block * PerBlock) : Took(o)
      BY <2>4
    <3>2. call.start_block * PerBlock \in Nat
      BY <2>2, Sizes
    <3>3. o.page = page /\ o.bad = bad
      BY <2>1, <3>1, <3>2, IsbadOutcome DEF TypesInv
    <3> QED BY <3>1, <3>3, ChipKept DEF Took, TookAs
  <2>5. CASE page' = page /\ bad' = bad
    BY <2>5, ChipKept
  <2> QED BY <1>3, <2>3, <2>4, <2>5 DEF ReadAdjust
<1>4. CASE Cut
  <2>1. PICK torn \in {{}, {p \in Underway : Block(p) \in PartBlocks \ bad}} :
           page' = [p \in Pages |-> IF p \in torn THEN Torn ELSE page[p]]
    BY <1>4 DEF Cut
  <2>2. bad' = bad
    BY <1>4 DEF Cut
  <2>3. \A p \in torn : Block(p) \in PartBlocks \ bad
    BY <2>1
  <2> QED BY <2>1, <2>2, <2>3 DEF OnlyGoodChanged
<1>5. CASE page' = page /\ bad' = bad
  BY <1>5, ChipKept
<1>6. \/ WriteErase \/ WritePage \/ WriteRedo \/ WriteMark \/ WriteRest \/ EraseLoop
      \/ ReadAdjust \/ ReadPage \/ Cut \/ (page' = page /\ bad' = bad)
  BY DEF FlashNext, Driver, WriteEnds, WriteOutOfSpace, ReadEnds, CallWrite, CallWriteModem,
     CallErase, CallReadUnaligned, CallRead, Enter, fvars
<1> QED BY <1>1, <1>2, <1>3, <1>4, <1>5, <1>6

\* Before a page is programmed it is erased.
LEMMA ProgrammedErased ==
    ASSUME FInv, At("write", "write") \/ (At("write", "top") /\ InBlock(call.page) # 0), ~silent
    PROVE  page[call.page] = Erased
<1>1. /\ TypesInv /\ WrittenInv /\ call.fn = "write" /\ call.pc # "returned"
      /\ call.pc = "write" \/ (call.pc = "top" /\ InBlock(call.page) # 0)
  BY DEF FInv, At
<1>2. /\ Running("write") /\ InBlock(call.page) \in InOneBlock
      /\ call.page = Place(Block(call.page), InBlock(call.page))
      /\ InBlock(call.page) <= InBlock(call.page)
  BY <1>1, WriteFields, Sizes DEF InOneBlock
<1>3. ErasedAt(Block(call.page), InBlock(call.page))
  BY <1>1, <1>2 DEF WrittenInv
<1> QED BY <1>2, <1>3 DEF ErasedAt

\* No page of another partition, nor of a block that is marked bad, is changed,
\* and a page is programmed only after its block was erased.
THEOREM FlashRespectsPages == FlashSpec => PagesRespected
<1>1. FInv /\ [FlashNext]_fvars =>
        [(page' # page /\ (At("write", "write") \/ (At("write", "top") /\ InBlock(call.page) # 0))
          /\ ~silent) => page[call.page] = Erased]_fvars
  BY ProgrammedErased
<1>2. FInv /\ [FlashNext]_fvars =>
        [/\ bad \subseteq bad'
         /\ \A p \in Pages : page'[p] # page[p] => Block(p) \in PartBlocks \ bad]_fvars
  BY StepKeeps DEF OnlyGoodChanged
<1>3. FlashSpec => ErasedFirst
  BY <1>1, FlashInvariant, PTL DEF FlashSpec, ErasedFirst
<1>4. FlashSpec => OnlyGoodBlocks
  BY <1>2, FlashInvariant, PTL DEF FlashSpec, OnlyGoodBlocks
<1> QED BY <1>3, <1>4 DEF PagesRespected

-----------------------------------------------------------------------------
(* What a write promises                                                   *)

LEMMA DataApart ==
    ASSUME NEW v \in Versions, NEW w \in Versions, Data(v, 0) = Data(w, 0)
    PROVE  v = w
<1>0. PICK n : n = PerBlock * Length
  OBVIOUS
<1>1. n \in Nat /\ n >= 1 /\ v \in Nat /\ w \in Nat /\ v * n = w * n
  <2>1. n \in Nat /\ n >= 1
    <3>1. PerBlock * Length >= 1 /\ PerBlock * Length \in Nat
      BY Sizes
    <3> QED BY <1>0, <3>1
  <2>2. v \in Nat /\ w \in Nat
    BY FlashAssumption
  <2>3. v * n \in Nat /\ w * n \in Nat /\ v * n + 0 = w * n + 0
    BY <1>0, <2>1, <2>2 DEF Data
  <2> QED BY <2>1, <2>2, <2>3
<1>2. v < w => v * n < w * n
  BY <1>1
<1>3. w < v => w * n < v * n
  BY <1>1
<1> QED BY <1>1, <1>2, <1>3

LEMMA ImageNotEmpty == \A v \in Versions : ImagePages[v] \in Nat /\ ImagePages[v] >= 1
<1>1. \A v \in Versions : ImagePages[v] \in Nat \ {0}
  BY FlashAssumption
<1> QED BY <1>1

\* The partition holds one version at most.
LEMMA HoldsWhole ==
    /\ \A v \in Versions : Whole(v) => Holds = v
    /\ (\A v \in Versions : ~ Whole(v)) => Holds = Torn
<1>1. ASSUME NEW v \in Versions, NEW w \in Versions, Whole(v), Whole(w) PROVE v = w
  <2>1. 0 \in 0 .. ImagePages[v] - 1 /\ 0 \in 0 .. ImagePages[w] - 1
    BY ImageNotEmpty
  <2>2. Logical(0) = Data(v, 0) /\ Logical(0) = Data(w, 0)
    BY <1>1, <2>1 DEF Whole
  <2> QED BY <2>2, DataApart
<1>2. ASSUME NEW v \in Versions, Whole(v) PROVE Holds = v
  <2>1. Holds = CHOOSE w \in Versions : Whole(w)
    BY <1>2 DEF Holds
  <2>2. Holds \in Versions /\ Whole(Holds)
    BY <1>2, <2>1
  <2> QED BY <1>1, <1>2, <2>2
<1>3. ASSUME \A v \in Versions : ~ Whole(v) PROVE Holds = Torn
  BY <1>3 DEF Holds
<1> QED BY <1>2, <1>3

LEMMA HoldsAfter ==
    (/\ \A v \in Versions : Whole(v) => Holds = v
     /\ (\A v \in Versions : ~ Whole(v)) => Holds = Torn)'
BY HoldsWhole, PTL

LEMMA HoldsTyped == Holds' \in Versions \cup {Torn}
<1>1. CASE \E v \in Versions : Whole(v)'
  BY <1>1, HoldsAfter
<1>2. CASE \A v \in Versions : ~ Whole(v)'
  BY <1>2, HoldsAfter
<1> QED BY <1>1, <1>2

LEMMA HoldsSame == page' = page /\ bad' = bad => Holds' = Holds
<1> SUFFICES ASSUME page' = page, bad' = bad PROVE Holds' = Holds
  OBVIOUS
<1>1. GoodPages' = GoodPages /\ \A n : NthGood(n)' = NthGood(n)
  BY SameBad
<1>2. \A n : Logical(n)' = Logical(n)
  BY <1>1 DEF Logical
<1>3. \A v \in Versions : Whole(v)' <=> Whole(v)
  BY <1>1, <1>2 DEF Whole, Data
<1>4. CASE \E v \in Versions : Whole(v)
  BY <1>3, <1>4, HoldsWhole, HoldsAfter
<1>5. CASE \A v \in Versions : ~ Whole(v)
  BY <1>3, <1>5, HoldsWhole, HoldsAfter
<1> QED BY <1>4, <1>5

\* A page of the image that there are enough good blocks for.
LEMMA LogicalAt ==
    ASSUME NEW i \in Nat, i < GoodPages
    PROVE  \E c \in Good : Rank(c) = Block(i) /\ NthGood(i \div PerBlock) = c
<1> PICK g : g = Cardinality(Good)
  OBVIOUS
<1>1. g \in Nat /\ Block(i) \in Nat /\ i = Place(Block(i), 0) + InBlock(i) /\ InBlock(i) \in Nat
      /\ Place(Block(i), 0) \in Nat
  <2>1. Block(i) \in Nat /\ InBlock(i) \in Nat /\ InBlock(i) < PerBlock
        /\ i = Place(Block(i), InBlock(i))
    BY Parts
  <2>2. Place(Block(i), InBlock(i)) = Place(Block(i), 0) + InBlock(i) /\ Place(Block(i), 0) \in Nat
    BY <2>1, PlaceIs, PlaceGrows
  <2> QED BY <2>1, <2>2, GoodIs
<1>2. Block(i) < g
  <2>1. GoodPages = Place(g, 0) /\ Place(g, 0) \in Nat
    BY <1>1, Sizes DEF GoodPages, Place
  <2>2. g <= Block(i) => Place(g, 0) <= Place(Block(i), 0)
    BY <1>1, PlaceGrows
  <2> QED BY <1>1, <2>1, <2>2
<1>3. Rank(First + Length) = g /\ First + Length \in Nat
  <2>1. GoodBefore(First + Length) = Good
    BY GoodIs DEF GoodBefore
  <2> QED BY <2>1, Sizes DEF Rank
<1>4. PICK c \in Good : Rank(c) = Block(i)
  BY <1>1, <1>2, <1>3, RankReached
<1> QED BY <1>4, RankGood DEF Block

\* What a cut of the power tears was not the page of an image, or is no longer.
LEMMA HoldsCut ==
    ASSUME page \in PageMaps, bad' = bad, NEW torn,
           page' = [p \in Pages |-> IF p \in torn THEN Torn ELSE page[p]]
    PROVE  Holds' \in {Holds, Torn}
<1>1. GoodPages' = GoodPages /\ \A n : NthGood(n)' = NthGood(n)
  BY SameBad
<1>2. ASSUME NEW v \in Versions, Whole(v)' PROVE Whole(v)
  <2>1. /\ ImagePages[v] <= GoodPages /\ ImagePages[v] \in Nat /\ GoodPages \in Nat
        /\ \A i \in 0 .. ImagePages[v] - 1 : Logical(i)' = Data(v, i)
    BY <1>1, <1>2, ImageNotEmpty, GoodIs, Sizes DEF Whole, Data, GoodPages
  <2>2. ASSUME NEW i \in 0 .. ImagePages[v] - 1 PROVE Logical(i) = Data(v, i)
    <3>1. i \in Nat /\ i < GoodPages
      BY <2>1
    <3>2. PICK c \in Good : NthGood(i \div PerBlock) = c
      BY <3>1, LogicalAt
    <3>3. PICK x : x = Place(c, InBlock(i))
      OBVIOUS
    <3>4. x \in Pages
      <4>1. c \in PartBlocks /\ InBlock(i) \in InOneBlock
        BY <3>1, GoodIs, Parts, Sizes DEF InOneBlock
      <4> QED BY <3>3, <4>1, PlaceInBlock
    <3>5. Logical(i) = page[x] /\ Logical(i)' = page'[x]
      BY <1>1, <3>2, <3>3 DEF Logical, Place, InBlock
    <3>6. Data(v, i) \in Nat
      BY <3>1, FlashAssumption DEF Data
    <3>7. page'[x] # Torn
      BY <2>1, <3>5, <3>6 DEF Torn
    <3> QED BY <2>1, <3>4, <3>5, <3>7
  <2> QED BY <2>1, <2>2 DEF Whole
<1>3. CASE \E v \in Versions : Whole(v)'
  BY <1>2, <1>3, HoldsWhole, HoldsAfter
<1>4. CASE \A v \in Versions : ~ Whole(v)'
  BY <1>4, HoldsAfter
<1> QED BY <1>3, <1>4

\* A write that has come to the end of the partition has put its image there.
LEMMA RestHolds ==
    ASSUME FInv, At("write", "rest"), ~ (call.page < lastpage), ~silent
    PROVE  Holds = call.ver
<1>1. TypesInv /\ WrittenInv /\ call.fn = "write" /\ call.pc = "rest"
  BY DEF FInv, At
<1>2. /\ Running("write") /\ call.page \in Nat /\ call.image \in Nat /\ call.ver \in Versions
      /\ ImagePages[call.ver] \in Nat /\ Block(call.page) \in Nat
  BY <1>1, WriteFields
<1> PICK b, v : b = Block(call.page) /\ v = call.ver
  OBVIOUS
<1>3. /\ b \in Nat /\ ImagePages[v] \in Nat /\ v \in Versions
      /\ ImagePages[v] <= Place(Rank(b), 0)
      /\ \A c \in Good, i \in InOneBlock :
            c < b /\ Place(Rank(c), i) < ImagePages[v] => page[Place(c, i)] = Data(v, Place(Rank(c), i))
  BY <1>1, <1>2 DEF WrittenInv, WrittenAt
<1>4. /\ Rank(b) \in Nat /\ Place(Rank(b), 0) \in Nat /\ Place(Rank(b), 0) <= GoodPages
      /\ GoodPages \in Nat
  <2>1. Rank(b) \in Nat /\ Cardinality(Good) \in Nat /\ Rank(b) <= Cardinality(Good)
    BY GoodIs
  <2>2. Place(Rank(b), 0) <= Place(Cardinality(Good), 0)
        /\ Place(Rank(b), 0) \in Nat /\ Place(Cardinality(Good), 0) \in Nat
    BY <2>1, PlaceGrows
  <2>3. GoodPages = Place(Cardinality(Good), 0)
    BY <2>1, Sizes DEF GoodPages, Place
  <2> QED BY <2>1, <2>2, <2>3
<1>5. ASSUME NEW i \in 0 .. ImagePages[v] - 1 PROVE Logical(i) = Data(v, i)
  <2>1. PICK n, r : n = Block(i) /\ r = InBlock(i)
    OBVIOUS
  <2>2. /\ i \in Nat /\ i < ImagePages[v] /\ n \in Nat /\ r \in Nat /\ r < PerBlock
        /\ i = Place(n, r)
    BY <1>3, <2>1, Parts
  <2>3. n < Rank(b)
    <3>1. Rank(b) <= n => Place(Rank(b), 0) <= Place(n, 0)
      BY <1>4, <2>2, PlaceGrows
    <3>2. i = Place(n, 0) + r /\ Place(n, 0) \in Nat
      BY <2>2, PlaceIs, PlaceGrows
    <3> QED BY <1>3, <1>4, <2>2, <3>1, <3>2
  <2>4. PICK c \in Good : c < b /\ Rank(c) = n
    BY <1>3, <2>2, <2>3, RankReached
  <2>5. Logical(Place(Rank(c), r)) = page[Place(c, r)]
    BY <2>2, LogicalIs
  <2>6. r \in InOneBlock
    BY <2>2, Sizes DEF InOneBlock
  <2> QED BY <1>3, <2>2, <2>4, <2>5, <2>6
<1>6. Whole(v)
  BY <1>3, <1>4, <1>5 DEF Whole
<1> QED BY <1>3, <1>6, HoldsWhole

\* What the promise sees of the driver.
LEMMA SeenRunning ==
    ASSUME TypesInv
    PROVE  /\ Running("write") => /\ Doing = call.ver /\ Doing \in Versions /\ Doing # Erased
                                  /\ Told = "nothing"
           /\ Running("erase") => Doing = Torn /\ Doing # Erased /\ Told = "nothing"
           /\ Running("read") => Doing = Erased /\ Told = "nothing"
           /\ ~Idle => Running("write") \/ Running("erase") \/ Running("read")
           /\ Idle => Doing = Erased
<1>1. call \in Writes \cup Erases \cup Reads \cup Refused
  BY DEF TypesInv
<1>2. Running("write") => call.ver \in Versions /\ call.ver # Erased
  <2>1. Running("write") => call.ver \in Versions
    BY <1>1 DEF Writes, Erases, Reads, Refused, Running, Idle
  <2>2. \A v \in Versions : v # Erased
    BY FlashAssumption DEF Erased
  <2> QED BY <2>1, <2>2
<1>3. ~Idle => Running("write") \/ Running("erase") \/ Running("read")
  BY <1>1 DEF Writes, Erases, Reads, Refused, Running, Idle
<1>4. Torn # Erased
  BY DEF Torn, Erased
<1> QED BY <1>2, <1>3, <1>4 DEF Doing, Told, Running

\* A step in the middle of a write or of an erase.
LEMMA ChangePromised ==
    ASSUME TypesInv, Running("write") \/ Running("erase"),
           call'.fn = call.fn, call'.pc # "returned", call.fn = "write" => call'.ver = call.ver,
           silent' \in {silent, TRUE}
    PROVE  Promise!Change
<1>1. Doing # Erased /\ Doing' = Doing /\ Told' = Told
  BY SeenRunning DEF Doing, Told, Running, Idle
<1> QED BY <1>1, HoldsTyped DEF Promise!Change

\* A step of a read, or a call that only looks.
LEMMA LookPromised ==
    ASSUME TypesInv, Idle \/ Running("read"), page' = page, bad' = bad, silent' \in BOOLEAN,
           \/ call'.fn \in {"read", "none"}
           \/ call'.fn = "write" /\ call'.pc = "returned" /\ call'.ret = -1
    PROVE  Promise!Look
<1>1. Doing = Erased
  BY SeenRunning
<1>2. Doing' = Erased /\ Told' \in {"nothing", "failed"}
  BY DEF Doing, Told, Idle
<1>3. Holds' = Holds
  BY HoldsSame
<1> QED BY <1>1, <1>2, <1>3 DEF Promise!Look

LEMMA BeginPromised ==
    ASSUME TypesInv, Idle, page' = page, bad' = bad, silent' = FALSE, call'.pc # "returned",
           NEW v, \/ call'.fn = "write" /\ call'.ver = v
                  \/ call'.fn = "erase" /\ v = Torn
    PROVE  Promise!Begin(v)
<1>1. Doing = Erased
  BY SeenRunning
<1>2. Doing' = v /\ Told' = "nothing"
  BY DEF Doing, Told, Idle
<1>3. Holds' = Holds
  BY HoldsSame
<1> QED BY <1>1, <1>2, <1>3 DEF Promise!Begin

LEMMA GivePromised ==
    ASSUME TypesInv, Running("write") \/ Running("erase"), page' = page, bad' = bad,
           silent' = silent, call'.pc = "returned", call'.fn = "write" => call'.ret = -1
    PROVE  Promise!Give
<1>1. Doing # Erased
  BY SeenRunning
<1>2. Doing' = Erased /\ Told' \in {"failed", "nothing"}
  BY DEF Doing, Told, Idle
<1>3. Holds' = Holds
  BY HoldsSame
<1> QED BY <1>1, <1>2, <1>3 DEF Promise!Give

LEMMA SilentGrows ==
    ASSUME TypesInv, NEW o, NEW unseen \in BOOLEAN, TookAs(o, unseen)
    PROVE  silent' \in {silent, TRUE} /\ silent' \in BOOLEAN
BY DEF TypesInv, TookAs

LEMMA WritePromised ==
    FInv /\ (WriteEnds \/ WriteOutOfSpace \/ WriteErase \/ WritePage \/ WriteRedo \/ WriteMark
             \/ WriteRest)
      => Promise!PromiseNext
<1> SUFFICES ASSUME FInv, WriteEnds \/ WriteOutOfSpace \/ WriteErase \/ WritePage \/ WriteRedo
                          \/ WriteMark \/ WriteRest
             PROVE  Promise!PromiseNext
  OBVIOUS
<1>1. TypesInv /\ WhereInv /\ call.fn = "write" /\ call.pc # "returned"
  BY DEF FInv, WriteEnds, WriteOutOfSpace, WriteErase, WritePage, WriteRedo, WriteMark,
     WriteRest, At
<1>2. /\ call \in Writes /\ Running("write") /\ call.page \in Nat /\ call.image \in Nat
      /\ call.ver \in Versions /\ silent \in BOOLEAN
  BY <1>1, WriteFields DEF TypesInv
<1>3. ASSUME call'.fn = "write", call'.pc # "returned", call'.ver = call.ver,
             silent' \in {silent, TRUE}
      PROVE  Promise!PromiseNext
  BY <1>1, <1>2, <1>3, ChangePromised DEF Promise!PromiseNext
<1>4. ASSUME call' = [call EXCEPT !.pc = "returned", !.ret = -1],
             UNCHANGED <<page, bad, silent>>
      PROVE  Promise!PromiseNext
  <2>1. call'.fn = "write" /\ call'.pc = "returned" /\ call'.ret = -1
    BY <1>1, <1>2, <1>4 DEF Writes
  <2> QED BY <1>1, <1>2, <1>4, <2>1, GivePromised DEF Promise!PromiseNext
<1>5. CASE WriteEnds
  <2>1. CASE call.tail
    BY <1>4, <1>5, <2>1 DEF WriteEnds, Return
  <2>2. CASE ~ call.tail
    <3>1. /\ call' = [call EXCEPT !.pc = "rest", !.page = BlockStart(@ + PerBlock - 1)]
          /\ silent' = silent
      BY <1>5, <2>2 DEF WriteEnds
    <3>2. call'.fn = "write" /\ call'.pc = "rest" /\ call'.ver = call.ver
      BY <1>1, <1>2, <3>1 DEF Writes
    <3> QED BY <1>3, <3>1, <3>2
  <2> QED BY <2>1, <2>2
<1>6. CASE WriteOutOfSpace
  BY <1>4, <1>6 DEF WriteOutOfSpace, Return
<1>7. CASE WriteErase
  <2>1. PICK o \in flash_nand_erase_block(call.page) :
           /\ Took(o)
           /\ call' = IF o.res # 0 THEN [call EXCEPT !.page = @ + PerBlock]
                      ELSE [call EXCEPT !.pc = "write"]
    BY <1>7 DEF WriteErase
  <2>2. call'.fn = "write" /\ call'.pc # "returned" /\ call'.ver = call.ver
    BY <1>1, <1>2, <2>1 DEF Writes
  <2>3. InBlock(call.page) = 0
    BY <1>7 DEF WriteErase
  <2>4. silent' \in {silent, TRUE}
    <3>1. page \in PageMaps /\ call.page \in Nat
      BY <1>1, <1>2 DEF TypesInv
    <3>2. o.silent \in BOOLEAN
      BY <2>1, <2>3, <3>1, EraseOutcome DEF Outcome
    <3> QED BY <1>1, <2>1, <3>2, SilentGrows DEF Took
  <2> QED BY <1>3, <2>2, <2>4
<1>8. CASE WritePage
  <2>1. PICK o \in _flash_nand_write_page(call.page, Data(call.ver, call.image)) :
           /\ Took(o)
           /\ call' = IF o.res # 0 THEN Rewound(call)
                      ELSE [call EXCEPT !.pc = "top", !.page = @ + 1, !.image = @ + 1]
    BY <1>8 DEF WritePage
  <2>2. call'.fn = "write" /\ call'.pc # "returned" /\ call'.ver = call.ver
    BY <1>1, <1>2, <2>1 DEF Writes, Rewound
  <2>3. silent' \in {silent, TRUE}
    BY <1>2, <2>1 DEF Took, TookAs
  <2> QED BY <1>3, <2>2, <2>3
<1>9. CASE WriteRedo
  <2>1. call'.fn = "write" /\ call'.pc # "returned" /\ call'.ver = call.ver
    BY <1>1, <1>2, <1>9 DEF Writes, WriteRedo
  <2>2. silent' = silent
    BY <1>2, <1>9 DEF WriteRedo, TookAs
  <2> QED BY <1>3, <2>1, <2>2
<1>10. CASE WriteMark
  <2>1. call'.fn = "write" /\ call'.pc # "returned" /\ call'.ver = call.ver
    BY <1>1, <1>2, <1>10 DEF Writes, WriteMark
  <2>2. silent' \in {silent, TRUE}
    BY <1>2, <1>10 DEF WriteMark, Took, TookAs
  <2> QED BY <1>3, <2>1, <2>2
<1>11. CASE WriteRest
  <2>1. CASE /\ \E o \in flash_nand_erase_block(call.page) : Took(o)
             /\ call' = [call EXCEPT !.page = @ + PerBlock]
    <3>1. call'.fn = "write" /\ call'.pc # "returned" /\ call'.ver = call.ver
      BY <1>1, <1>2, <2>1 DEF Writes
    <3>2. silent' \in {silent, TRUE}
      BY <1>2, <2>1 DEF Took, TookAs
    <3> QED BY <1>3, <3>1, <3>2
  <2>2. CASE call.page >= lastpage /\ Return(0) /\ UNCHANGED <<page, bad, faults, silent>>
    <3>1. call'.fn = "write" /\ call'.pc = "returned" /\ call'.ret = 0
      BY <1>1, <1>2, <2>2 DEF Writes, Return
    <3>2. ~ (call.page < lastpage)
      BY <1>2, <2>2, Sizes DEF lastpage
    <3>3. Doing \in Versions /\ Doing = call.ver
      BY <1>1, <1>2, SeenRunning
    <3>4. Doing' = Erased /\ Told' = "done"
      BY <3>1 DEF Doing, Told, Idle
    <3>5. Holds = Doing \/ silent
      BY <1>11, <3>2, <3>3, RestHolds DEF WriteRest
    <3>6. Holds' = Holds /\ silent' = silent
      BY <2>2, HoldsSame
    <3> QED BY <3>3, <3>4, <3>5, <3>6 DEF Promise!Done, Promise!PromiseNext
  <2> QED BY <1>11, <2>1, <2>2 DEF WriteRest
<1> QED BY <1>5, <1>6, <1>7, <1>8, <1>9, <1>10, <1>11

LEMMA ErasePromised == FInv /\ EraseLoop => Promise!PromiseNext
<1> SUFFICES ASSUME FInv, EraseLoop PROVE Promise!PromiseNext
  OBVIOUS
<1>1. TypesInv /\ call.fn = "erase" /\ call.pc = "loop"
  BY DEF FInv, EraseLoop, At
<1>2. call \in Erases /\ Running("erase") /\ silent \in BOOLEAN
  BY <1>1 DEF TypesInv, Writes, Erases, Reads, Refused, Running, Idle
<1>3. CASE /\ \E o \in flash_nand_erase_block(call.page) : Took(o)
           /\ call' = [call EXCEPT !.page = @ + PerBlock]
  <2>1. call'.fn = "erase" /\ call'.pc # "returned"
    BY <1>1, <1>2, <1>3 DEF Erases
  <2>2. silent' \in {silent, TRUE}
    BY <1>2, <1>3 DEF Took, TookAs
  <2> QED BY <1>1, <1>2, <2>1, <2>2, ChangePromised DEF Promise!PromiseNext
<1>4. CASE Return(0) /\ UNCHANGED <<page, bad, faults, silent>>
  <2>1. call'.fn = "erase" /\ call'.pc = "returned"
    BY <1>1, <1>2, <1>4 DEF Erases, Return
  <2> QED BY <1>2, <1>4, <1>1, <2>1, GivePromised DEF Promise!PromiseNext
<1> QED BY <1>3, <1>4 DEF EraseLoop

LEMMA ReadPromised == FInv /\ (ReadAdjust \/ ReadPage \/ ReadEnds) => Promise!PromiseNext
<1> SUFFICES ASSUME FInv, ReadAdjust \/ ReadPage \/ ReadEnds PROVE Promise!PromiseNext
  OBVIOUS
<1>1. TypesInv /\ call.fn = "read" /\ call.pc # "returned"
  BY DEF FInv, ReadAdjust, ReadPage, ReadEnds, At
<1>2. /\ call \in Reads /\ Running("read") /\ call.page \in Nat /\ call.start_block \in Nat
      /\ silent \in BOOLEAN
  BY <1>1, ReadFields DEF TypesInv
<1>3. ASSUME call'.fn = "read", page' = page, bad' = bad, silent' \in BOOLEAN
      PROVE  Promise!PromiseNext
  BY <1>1, <1>2, <1>3, LookPromised DEF Promise!PromiseNext
<1>4. CASE ReadPage
  <2>1. PICK o \in _flash_nand_read_page(call.page) :
           /\ Took(o)
           /\ call' =
              CASE o.res = -1 -> [call EXCEPT !.page = @ + 1, !.skipped = @ + 1]
                [] o.res = -2 -> [call EXCEPT !.page = @ + PerBlock]
                [] OTHER -> [call EXCEPT !.page = @ + 1, !.count = @ - 1,
                                         !.out = Append(@, page[call.page])]
    BY <1>4 DEF ReadPage
  <2>2. o.page = page /\ o.bad = bad /\ o.res \in {0, -1, -2}
    BY <1>1, <1>2, <2>1, ReadOutcome DEF TypesInv
  <2>3. page' = page /\ bad' = bad /\ silent' \in BOOLEAN
    BY <1>2, <2>1, <2>2 DEF Took, TookAs
  <2>4. call'.fn = "read"
    <3>1. CASE o.res = -1
      BY <1>1, <1>2, <2>1, <3>1 DEF Reads
    <3>2. CASE o.res = -2
      BY <1>1, <1>2, <2>1, <3>2 DEF Reads
    <3>3. CASE o.res = 0
      BY <1>1, <1>2, <2>1, <3>3 DEF Reads
    <3> QED BY <2>2, <3>1, <3>2, <3>3
  <2> QED BY <1>3, <2>3, <2>4
<1>5. CASE ReadAdjust
  <2>1. call'.fn = "read"
    BY <1>1, <1>2, <1>5 DEF ReadAdjust, Reads
  <2>2. CASE \E o \in flash_nand_block_isbad(call.start_block * PerBlock) : Took(o)
    <3>1. PICK o \in flash_nand_block_isbad(call.start_block * PerBlock) : Took(o)
      BY <2>2
    <3>2. call.start_block * PerBlock \in Nat
      BY <1>2, Sizes
    <3>3. o.page = page /\ o.bad = bad
      BY <1>1, <3>1, <3>2, IsbadOutcome DEF TypesInv
    <3>4. page' = page /\ bad' = bad /\ silent' \in BOOLEAN
      BY <1>2, <3>1, <3>3 DEF Took, TookAs
    <3> QED BY <1>3, <2>1, <3>4
  <2>3. CASE UNCHANGED <<page, bad, faults, silent>>
    BY <1>2, <1>3, <2>1, <2>3
  <2> QED BY <1>5, <2>2, <2>3 DEF ReadAdjust
<1>6. CASE ReadEnds
  <2>1. call'.fn = "read" /\ UNCHANGED <<page, bad, silent>>
    BY <1>1, <1>2, <1>6, ZenonT(30) DEF ReadEnds, Return, Reads
  <2> QED BY <1>2, <1>3, <2>1
<1> QED BY <1>4, <1>5, <1>6

LEMMA CutPromised == FInv /\ Cut => Promise!PromiseNext
<1> SUFFICES ASSUME FInv, Cut PROVE Promise!PromiseNext
  OBVIOUS
<1>1. /\ TypesInv /\ ~Idle /\ call' = [fn |-> "none", pc |-> "returned", ret |-> 0]
      /\ UNCHANGED <<bad, silent>>
  BY DEF FInv, Cut
<1>2. PICK torn \in {{}, {p \in Underway : Block(p) \in PartBlocks \ bad}} :
           page' = [p \in Pages |-> IF p \in torn THEN Torn ELSE page[p]]
  BY DEF Cut
<1>3. page \in PageMaps /\ silent \in BOOLEAN
  BY <1>1 DEF TypesInv
<1>4. CASE Running("write") \/ Running("erase")
  <2>1. Doing # Erased
    BY <1>1, <1>4, SeenRunning
  <2>2. Holds' \in {Holds, Torn}
    BY <1>1, <1>2, <1>3, HoldsCut
  <2>3. Doing' = Erased /\ Told' = "nothing"
    BY <1>1 DEF Doing, Told, Idle
  <2> QED BY <1>1, <2>1, <2>2, <2>3 DEF Promise!Cut, Promise!PromiseNext
<1>5. CASE Running("read")
  <2>1. torn = {}
    BY <1>2, <1>5 DEF Underway, Running
  <2>2. page' = page
    BY <1>2, <1>3, <2>1 DEF PageMaps
  <2>3. call'.fn = "none"
    BY <1>1
  <2> QED BY <1>1, <1>3, <1>5, <2>2, <2>3, LookPromised DEF Promise!PromiseNext
<1> QED BY <1>1, <1>4, <1>5, SeenRunning

LEMMA EnterPromised ==
    FInv /\ ((\E v \in Versions \ {0}, t \in BOOLEAN : CallWrite(v, t)) \/ CallWriteModem
             \/ CallErase \/ CallReadUnaligned
             \/ \E offset \in 0 .. Length * PerBlock - 1, n \in 1 .. Length * PerBlock :
                   CallRead(offset, n))
      => Promise!PromiseNext
<1> SUFFICES ASSUME FInv
             PROVE  ((\E v \in Versions \ {0}, t \in BOOLEAN : CallWrite(v, t)) \/ CallWriteModem
             \/ CallErase \/ CallReadUnaligned
             \/ \E offset \in 0 .. Length * PerBlock - 1, n \in 1 .. Length * PerBlock :
                   CallRead(offset, n))
      => Promise!PromiseNext
  OBVIOUS
<1>1. TypesInv
  BY DEF FInv
<1>2. ASSUME NEW v \in Versions \ {0}, NEW t \in BOOLEAN, CallWrite(v, t)
      PROVE  Promise!PromiseNext
  <2>1. Idle /\ call' = Writing(v, t) /\ UNCHANGED <<page, bad>> /\ silent' = FALSE
    BY <1>2 DEF CallWrite, Enter
  <2>2. call'.fn = "write" /\ call'.pc # "returned" /\ call'.ver = v
    BY <2>1 DEF Writing
  <2>3. Promise!Begin(v)
    BY <1>1, <2>1, <2>2, BeginPromised
  <2> QED BY <2>3 DEF Promise!PromiseNext
<1>3. CASE CallErase
  <2>1. /\ Idle /\ UNCHANGED <<page, bad>> /\ silent' = FALSE
        /\ call'.fn = "erase" /\ call'.pc # "returned"
    BY <1>3 DEF CallErase, Enter
  <2>2. Promise!Begin(Torn)
    BY <1>1, <2>1, BeginPromised
  <2> QED BY <2>2 DEF Promise!PromiseNext
<1>4. CASE CallWriteModem \/ CallReadUnaligned
  <2>1. Idle /\ UNCHANGED <<page, bad>> /\ silent' \in BOOLEAN
    BY <1>4 DEF CallWriteModem, CallReadUnaligned, Enter
  <2>2. \/ call'.fn \in {"read", "none"}
        \/ call'.fn = "write" /\ call'.pc = "returned" /\ call'.ret = -1
    <3>1. CASE CallWriteModem
      <4>1. call' = [Writing(0, FALSE) EXCEPT !.pc = "returned", !.ret = -1]
        BY <3>1 DEF CallWriteModem, Enter
      <4> QED BY <4>1 DEF Writing
    <3>2. CASE CallReadUnaligned
      BY <3>2 DEF CallReadUnaligned, Enter
    <3> QED BY <1>4, <3>1, <3>2
  <2> QED BY <1>1, <2>1, <2>2, LookPromised DEF Promise!PromiseNext
<1>5. ASSUME NEW offset, NEW n, CallRead(offset, n) PROVE Promise!PromiseNext
  <2>1. Idle /\ UNCHANGED <<page, bad>> /\ silent' \in BOOLEAN /\ call'.fn = "read"
    BY <1>5 DEF CallRead, Enter
  <2> QED BY <1>1, <2>1, LookPromised DEF Promise!PromiseNext
<1> QED BY <1>2, <1>3, <1>4, <1>5

\* flash_write keeps its promise: while it runs the partition holds nothing that
\* can be relied on, and when it says that it is done, the partition holds what
\* was asked, unless the chip failed unseen.
THEOREM FlashKeepsPromise == FlashSpec => WritesPromised
<1>1. FlashInit => Promise!PromiseInit
  <2> SUFFICES ASSUME FlashInit PROVE Promise!PromiseInit
    OBVIOUS
  <2>1. Holds \in Versions \cup {Torn}
    <3>1. CASE \E v \in Versions : Whole(v)
      BY <3>1, HoldsWhole
    <3>2. CASE \A v \in Versions : ~ Whole(v)
      BY <3>2, HoldsWhole
    <3> QED BY <3>1, <3>2
  <2>2. call.pc = "returned" /\ call.fn = "none" /\ silent = FALSE
    BY DEF FlashInit
  <2> QED BY <2>1, <2>2 DEF Promise!PromiseInit, Doing, Told, Idle
<1>2. FInv /\ [FlashNext]_fvars => [Promise!PromiseNext]_fvars
  <2> SUFFICES ASSUME FInv, FlashNext PROVE Promise!PromiseNext
    OBVIOUS
  <2> QED BY WritePromised, ErasePromised, ReadPromised, CutPromised, EnterPromised
          DEF FlashNext, Driver
<1> QED BY <1>1, <1>2, FlashInvariant, PTL DEF FlashSpec, WritesPromised

=============================================================================
