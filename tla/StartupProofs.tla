--------------------------- MODULE StartupProofs ----------------------------
(***************************************************************************)
(* Why a start is right wherever it ends: opening the database may be broken  *)
(* off at any step, for every number of migrations, and the targets of a      *)
(* scan are those of the options, for addresses of every width.               *)
(***************************************************************************)
EXTENDS Startup, TLAPS

(* Opening the database.                                                    *)

\* Each step of Open, and giving it up, keeps the inductive invariant.
LEMMA MigrationStep ==
  ASSUME MigrationInv, [Next]_vars
  PROVE  MigrationInv'
<1> USE VersionsType DEF MigrationInv, TypeOK, VersionTellsSchema, Steps
<1>1. CASE ReadVersion
  BY <1>1 DEF ReadVersion
<1>2. CASE LookForTable
  BY <1>2 DEF LookForTable, Adopts
<1>3. CASE MarkAdopted
  BY <1>3 DEF MarkAdopted
<1>4. CASE Check
  BY <1>4 DEF Check, TooNew
<1>5. CASE Begin
  BY <1>5 DEF Begin, Behind
<1>6. CASE Create
  BY <1>6 DEF Create, Created
<1>7. CASE Stamp
  BY <1>7 DEF Stamp
<1>8. CASE GiveUp
  BY <1>8 DEF GiveUp
<1>9. CASE UNCHANGED vars
  BY <1>9 DEF vars
<1> QED  BY <1>1, <1>2, <1>3, <1>4, <1>5, <1>6, <1>7, <1>8, <1>9 DEF Next, Advance

\* The inductive invariant of Open holds from every file it may find.
THEOREM MigrationInvariant == Spec => []MigrationInv
<1>1. Init => MigrationInv
  BY VersionsType DEF Init, MigrationInv, TypeOK, VersionTellsSchema, Steps
<1>2. MigrationInv /\ [Next]_vars => MigrationInv'
  BY MigrationStep
<1> QED  BY <1>1, <1>2, PTL DEF Spec

\* The version in the file tells its schema at every moment a crash may strike,
\* release 1.x files apart.
THEOREM VersionIsTrue == Spec => []VersionTellsSchema
<1>1. MigrationInv => VersionTellsSchema
  BY DEF MigrationInv
<1> QED  BY <1>1, MigrationInvariant, PTL

\* A database that Open hands out has the current schema.
THEOREM OpenedIsCurrent == Spec => []OpenMeansCurrent
<1>1. MigrationInv => OpenMeansCurrent
  BY DEF MigrationInv, OpenMeansCurrent
<1> QED  BY <1>1, MigrationInvariant, PTL

\* Only files of later releases are refused, and they are left alone.
THEOREM NewerIsRefused == Spec => []OnlyNewerRefused
<1>1. MigrationInv => OnlyNewerRefused
  BY DEF MigrationInv, OnlyNewerRefused
<1> QED  BY <1>1, MigrationInvariant, PTL

-----------------------------------------------------------------------------
(* From ranges to targets: the arithmetic of prefixes.                       *)

\* Division by a positive number.
LEMMA Division ==
  ASSUME NEW a \in Nat, NEW s \in Nat \ {0}
  PROVE  /\ a \div s \in Nat /\ a % s \in 0..(s - 1)
         /\ a = s * (a \div s) + (a % s)
  OBVIOUS

\* Which numbers have a given quotient.
LEMMA Quotient ==
  ASSUME NEW a \in Nat, NEW s \in Nat \ {0}, NEW q \in Nat
  PROVE  a \div s = q <=> s * q <= a /\ a < s * q + s
  OBVIOUS

\* The sizes of prefixes: a size divides the address space, and one that skips
\* its ends has some addresses left.
LEMMA Sizes ==
  ASSUME NEW b \in 0..Width
  PROVE  /\ Size(b) \in Nat \ {0}
         /\ 2^Width = Size(b) * 2^b /\ 2^b \in Nat \ {0}
         /\ b < Width => Size(b) >= 2
         /\ b < Width - 1 => Size(b) >= 4
         /\ b = Width => Size(b) = 1
<1> USE ScanTargetsType
<1> DEFINE w == Width - b
<1>1. /\ w \in 0..Width /\ b \in 0..Width /\ Width \in Nat
      /\ 0 \in 0..Width /\ Width \in 0..Width /\ Width - b = w /\ Width - w = b
  OBVIOUS
<1>2. Size(b) \in Nat \ {0} /\ 2^b \in Nat \ {0}
  BY <1>1, PowersOfTwo DEF Size
<1>3. 2^Width = Size(b) * 2^b
  BY <1>1, PowersOfTwo DEF Size
<1>4. ASSUME b < Width PROVE Size(b) = 2 * 2^(w - 1) /\ 2^(w - 1) \in Nat \ {0}
  <2>1. 1 \in 0..w /\ w - 1 \in 0..Width
    BY <1>1, <1>4
  <2> QED  BY <1>1, <2>1, PowersOfTwo DEF Size
<1>5. b < Width => Size(b) >= 2
  BY <1>4, <1>2
<1>6. ASSUME b < Width - 1 PROVE Size(b) >= 4
  <2>1. 1 \in 0..(w - 1) /\ w - 1 \in 0..Width /\ w - 2 \in 0..Width /\ (w - 1) - 1 = w - 2
    BY <1>1, <1>6
  <2>2. 2^(w - 1) = 2 * 2^(w - 2) /\ 2^(w - 2) \in Nat \ {0}
    BY <2>1, PowersOfTwo
  <2> QED  BY <1>4, <1>1, <1>6, <2>2
<1>7. b = Width => Size(b) = 1
  <2>1. 2^0 = 1  OBVIOUS
  <2> QED  BY <1>1, <2>1 DEF Size
<1> QED  BY <1>2, <1>3, <1>5, <1>6, <1>7

\* An address of Width bits and a length.
IsPrefix(p) == p.addr \in 0..(2^Width - 1) /\ p.bits \in 0..Width

\* A block is an interval that begins at the masked address.
LEMMA BlockIsInterval ==
  ASSUME NEW p, IsPrefix(p)
  PROVE  /\ Masked(p).addr \in 0..(2^Width - 1)
         /\ Masked(p).addr = Size(p.bits) * (p.addr \div Size(p.bits))
         /\ p.addr \div Size(p.bits) \in Nat
         /\ Block(p) = Masked(p).addr .. (Masked(p).addr + Size(p.bits) - 1)
<1> DEFINE s == Size(p.bits)
           q == p.addr \div s
           n == 2^p.bits
<1>1. s \in Nat \ {0} /\ n \in Nat \ {0} /\ 2^Width = s * n
  BY Sizes DEF IsPrefix
<1>2. p.addr \in Nat /\ p.addr < 2^Width
  BY <1>1 DEF IsPrefix
<1>3. q \in Nat /\ p.addr % s \in 0..(s - 1) /\ p.addr = s * q + (p.addr % s)
  BY <1>1, <1>2, Division
<1> HIDE DEF s, n, q
<1>4. Masked(p).addr = s * q
  BY <1>1, <1>2, <1>3 DEF Masked, s
<1>5. q < n
  BY <1>1, <1>2, <1>3
<1>6. s * q + s <= 2^Width
  BY <1>1, <1>3, <1>5
<1>7. s * q \in Nat
  BY <1>1, <1>3
<1>8. ASSUME NEW a \in Nat PROVE a \div s = q <=> s * q <= a /\ a < s * q + s
  BY <1>1, <1>3, Quotient
<1>9. Block(p) = (s * q)..(s * q + s - 1)
  <2>1. Block(p) = {a \in 0..(2^Width - 1) : a \div s = q}
    BY DEF Block, s, q
  <2> DEFINE f == s * q
  <2>2. f \in Nat /\ f + s <= 2^Width /\ 2^Width \in Nat
    BY <1>1, <1>6, <1>7
  <2>3. \A a \in Nat : a \div s = q <=> f <= a /\ a < f + s
    BY <1>8
  <2> HIDE DEF f
  <2>4. \A a : a \in Block(p) <=> a \in f..(f + s - 1)
    BY <1>1, <2>1, <2>2, <2>3
  <2> QED  BY <2>4 DEF f
<1> QED  BY <1>1, <1>3, <1>4, <1>6, <1>7, <1>9 DEF s, q

\* The bounds of the loop of Hosts, first and last.
FirstHost(bits) == IF SkipsEnds(bits) THEN 1 ELSE 0
LastHost(bits) == IF SkipsEnds(bits) THEN Size(bits) - 1 ELSE Size(bits)

\* The addresses the loop of Hosts passes with those bounds are the usable ones.
LEMMA UsableIsInterval ==
  ASSUME NEW p, IsPrefix(p)
  PROVE  Usable(p) = {Masked(p).addr + j : j \in FirstHost(p.bits)..(LastHost(p.bits) - 1)}
<1> DEFINE s == Size(p.bits)
           f == Masked(p).addr
<1>1. s \in Nat \ {0} /\ f \in Nat /\ Block(p) = f..(f + s - 1) /\ p.bits \in Nat /\ Width \in Nat
  BY Sizes, BlockIsInterval, ScanTargetsType DEF IsPrefix
<1>2. p.bits < Width - 1 => s >= 4
  BY Sizes DEF IsPrefix
<1> HIDE DEF s, f
<1>3. CASE p.bits < Width - 1
  <2>1. Ends(p) = {f, f + s - 1}
    BY <1>1, <1>2, <1>3 DEF Ends
  <2>2. Usable(p) = (f + 1)..(f + s - 2)
    <3>1. Usable(p) = (f..(f + s - 1)) \ {f, f + s - 1}
      BY <1>1, <1>3, <2>1 DEF Usable
    <3>2. \A a : a \in Usable(p) <=> a \in (f + 1)..(f + s - 2)
      BY <1>1, <3>1
    <3> QED  BY <3>2
  <2>3. FirstHost(p.bits) = 1 /\ LastHost(p.bits) = s - 1
    BY <1>3 DEF FirstHost, LastHost, SkipsEnds, s
  <2>4. (f + 1)..(f + s - 2) = {f + j : j \in 1..(s - 1 - 1)}
    <3>1. ASSUME NEW a \in (f + 1)..(f + s - 2) PROVE a - f \in 1..(s - 1 - 1) /\ a = f + (a - f)
      BY <1>1
    <3>2. ASSUME NEW j \in 1..(s - 1 - 1) PROVE f + j \in (f + 1)..(f + s - 2)
      BY <1>1
    <3> QED  BY <3>1, <3>2
  <2> QED  BY <2>2, <2>3, <2>4 DEF f
<1>4. CASE ~(p.bits < Width - 1)
  <2>2. Usable(p) = f..(f + s - 1)
    BY <1>1, <1>4 DEF Usable
  <2>3. FirstHost(p.bits) = 0 /\ LastHost(p.bits) = s
    BY <1>4 DEF FirstHost, LastHost, SkipsEnds, s
  <2>4. f..(f + s - 1) = {f + j : j \in 0..(s - 1)}
    <3>1. ASSUME NEW a \in f..(f + s - 1) PROVE a - f \in 0..(s - 1) /\ a = f + (a - f)
      BY <1>1
    <3>2. ASSUME NEW j \in 0..(s - 1) PROVE f + j \in f..(f + s - 1)
      BY <1>1
    <3> QED  BY <3>1, <3>2
  <2> QED  BY <2>2, <2>3, <2>4 DEF f
<1> QED  BY <1>3, <1>4

\* ParseScanRange judges a range by its first address and its length; that is
\* whether it lies within a private block.
LEMMA ContainsIsSubset ==
  ASSUME NEW p, IsPrefix(p), NEW block \in PrivateBlocks
  PROVE  block.bits <= p.bits /\ Contains(block, Masked(p).addr) <=> Block(p) \subseteq Block(block)
<1> DEFINE s == Size(p.bits)
           q == p.addr \div s
           t == Size(block.bits)
           r == block.addr \div t
<1>1. IsPrefix(block) /\ block.addr % t = 0
  BY ScanTargetsType, BlocksAligned DEF IsPrefix, Size
<1>2. /\ s \in Nat \ {0} /\ q \in Nat /\ Masked(p).addr = s * q
      /\ Block(p) = (s * q)..(s * q + s - 1)
  BY Sizes, BlockIsInterval DEF IsPrefix
<1>3. /\ t \in Nat \ {0} /\ r \in Nat /\ Masked(block).addr = t * r
      /\ Block(block) = (t * r)..(t * r + t - 1)
  BY <1>1, Sizes, BlockIsInterval DEF IsPrefix
<1>4. block.addr = t * r
  BY <1>1, <1>3 DEF Masked, IsPrefix
<1>5. Contains(block, Masked(p).addr) <=> t * r <= s * q /\ s * q < t * r + t
  BY <1>2, <1>4 DEF Contains
<1> DEFINE w == Width - p.bits
           v == Width - block.bits
<1>6. w \in 0..Width /\ v \in 0..Width /\ s = 2^w /\ t = 2^v
  BY <1>1, ScanTargetsType DEF IsPrefix, Size
<1>7. block.bits <= p.bits <=> w <= v
  BY <1>1, ScanTargetsType DEF IsPrefix
<1> HIDE DEF s, q, t, r, w, v
<1>8. ASSUME w <= v, t * r <= s * q, s * q < t * r + t PROVE Block(p) \subseteq Block(block)
  <2>1. PICK k \in Nat : t = s * k
    <3>1. w \in 0..v /\ v - w \in 0..Width
      BY <1>6, <1>8, ScanTargetsType
    <3>2. 2^v = 2^w * 2^(v - w) /\ 2^(v - w) \in Nat
      BY <1>6, <3>1, PowersOfTwo
    <3> QED  BY <1>6, <3>2
  <2>2. t * r = s * (k * r)
    BY <1>2, <1>3, <2>1
  <2>3. s * q < s * (k * r + k) /\ k * r \in Nat
    BY <1>2, <1>3, <1>8, <2>1, <2>2
  <2>4. q < k * r + k
    BY <1>2, <1>3, <2>1, <2>3
  <2>5. s * q + s <= s * (k * r + k)
    BY <1>2, <1>3, <2>1, <2>3, <2>4
  <2>6. s * q + s <= t * r + t
    BY <1>2, <1>3, <2>1, <2>2, <2>3, <2>5
  <2>7. s * q \in Nat /\ t * r \in Nat
    BY <1>2, <1>3
  <2> QED  BY <1>2, <1>3, <1>8, <2>6, <2>7
<1>9. ASSUME Block(p) \subseteq Block(block) PROVE w <= v /\ t * r <= s * q /\ s * q < t * r + t
  <2>7. s * q \in Nat /\ t * r \in Nat
    BY <1>2, <1>3
  <2>1. s * q \in Block(p) /\ s * q + s - 1 \in Block(p)
    BY <1>2, <2>7
  <2>2. t * r <= s * q /\ s * q + s <= t * r + t
    <3> DEFINE x == s * q
               y == t * r
    <3> HIDE DEF x, y
    <3>1. x \in y..(y + t - 1) /\ x + s - 1 \in y..(y + t - 1) /\ x \in Nat /\ y \in Nat
      BY <1>3, <1>9, <2>1, <2>7 DEF x, y
    <3>2. y <= x /\ x + s <= y + t
      BY <1>2, <1>3, <3>1
    <3> QED  BY <3>2 DEF x, y
  <2>3. s <= t
    BY <1>2, <1>3, <2>2, <2>7
  <2>4. ASSUME v < w PROVE FALSE
    <3>1. 1 \in 0..(w - v) /\ v \in 0..w /\ w - v \in 0..Width /\ w - v - 1 \in 0..Width
      BY <1>6, <2>4, ScanTargetsType
    <3>2. s = t * 2^(w - v) /\ 2^(w - v) = 2 * 2^(w - v - 1) /\ 2^(w - v - 1) \in Nat \ {0}
      BY <1>6, <3>1, PowersOfTwo
    <3>3. 2^(w - v) >= 2 /\ 2^(w - v) \in Nat
      BY <3>2
    <3> QED  BY <1>3, <2>3, <3>2, <3>3
  <2> QED  BY <1>2, <1>6, <2>2, <2>4, <2>7, ScanTargetsType
<1> QED  BY <1>5, <1>7, <1>8, <1>9

\* A range is accepted just when it is neither too wide nor public.
LEMMA AcceptedIsRight ==
  ASSUME NEW text, IsPrefix(text), text.v4 \in BOOLEAN
  PROVE  Accepted(text) <=> ~TooWideOrPublic(text)
<1>1. IsPrivate(Masked(text)) <=> \E block \in PrivateBlocks : Block(text) \subseteq Block(block)
  <2>1. Masked(text).bits = text.bits
    BY DEF Masked
  <2> QED  BY <2>1, ContainsIsSubset DEF IsPrivate
<1>2. text.bits \in Nat /\ MinScanPrefix \in Nat
  BY ScanTargetsType DEF IsPrefix
<1> QED  BY <1>1, <1>2 DEF Accepted, TooWideOrPublic

-----------------------------------------------------------------------------
\* The usable addresses of the first k ranges.
UsableOf(k) == UNION {Usable(config[n]) : n \in 1..k}

\* How far the loop over the ranges is.
Finished == Len(config) - Len(todo)

\* The inductive invariant of parsing and listing: the ranges parsed are those
\* of the texts before, masked; the targets so far are the usable addresses of
\* the ranges finished and those the current range has passed.
ScanInv ==
  /\ config \in Configs
  /\ phase \in {"parse", "invalid", "hosts", "done"}
  /\ ranges \in Seq([addr : Nat, bits : 0..Width]) /\ Len(ranges) <= Len(config)
  /\ \A n \in 1..Len(ranges) : Accepted(config[n]) /\ ranges[n] = Masked(config[n])
  /\ out \in Seq(Nat) /\ IsInjective(out)
  /\ phase = "parse" => i = 0 /\ out = <<>>
  /\ phase = "invalid" => config = <<>> \/ \E n \in DOMAIN config : ~Accepted(config[n])
  /\ phase \in {"hosts", "done"} => Len(ranges) = Len(config)
  /\ phase = "hosts" =>
       /\ todo \in Seq([addr : Nat, bits : 0..Width]) /\ Len(todo) \in 1..Len(config)
       /\ \A n \in 1..Len(todo) : todo[n] = ranges[Finished + n]
       /\ i \in 0..LastHost(todo[1].bits) /\ addr = todo[1].addr + i
       /\ Range(out) = UsableOf(Finished) \cup {todo[1].addr + j : j \in FirstHost(todo[1].bits)..(i - 1)}
  /\ phase = "done" => Range(out) = UsableOf(Len(config))

\* The elements of a sequence.
LEMMA ElementOf ==
  ASSUME NEW S, NEW s \in Seq(S), NEW n \in 1..Len(s)
  PROVE  s[n] \in S
  OBVIOUS

\* A configured range is a prefix.
LEMMA ConfiguredPrefix ==
  ASSUME config \in Configs, NEW n \in DOMAIN config
  PROVE  IsPrefix(config[n]) /\ config[n].v4 \in BOOLEAN
<1> DEFINE T == [addr : 0..(2^Width - 1), bits : 0..Width, v4 : BOOLEAN]
<1>1. config \in Seq([addr : 0..(2^Width - 1), bits : 0..Width, v4 : BOOLEAN])
  BY ScanTargetsType
<1>2. config[n] \in T
  <2> HIDE DEF T
  <2>1. config \in Seq(T)
    BY <1>1 DEF T
  <2>2. DOMAIN config = 1..Len(config)
    BY <2>1
  <2> QED  BY <2>1, <2>2, ElementOf
<1> QED  BY <1>2 DEF IsPrefix

\* The sequences the invariant is about.
LEMMA ScanBasics ==
  ASSUME ScanInv
  PROVE  /\ config \in Seq([addr : 0..(2^Width - 1), bits : 0..Width, v4 : BOOLEAN])
         /\ Len(config) \in Nat /\ Len(ranges) \in Nat /\ DOMAIN config = 1..Len(config)
         /\ Width \in Nat
<1> DEFINE T == [addr : 0..(2^Width - 1), bits : 0..Width, v4 : BOOLEAN]
           R == [addr : Nat, bits : 0..Width]
<1>1. config \in Seq(T) /\ ranges \in Seq(R)
  BY ScanTargetsType DEF ScanInv
<1>2. Width \in Nat
  BY ScanTargetsType
<1> HIDE DEF T, R
<1>3. Len(config) \in Nat /\ Len(ranges) \in Nat /\ DOMAIN config = 1..Len(config)
  BY <1>1
<1> QED  BY <1>1, <1>2, <1>3 DEF T

\* Appending what is not there keeps a sequence free of repetitions.
LEMMA AppendKeepsInjective ==
  ASSUME NEW s \in Seq(Nat), IsInjective(s), NEW e \in Nat, e \notin Range(s)
  PROVE  /\ Append(s, e) \in Seq(Nat) /\ IsInjective(Append(s, e))
         /\ Range(Append(s, e)) = Range(s) \cup {e}
<1>1. /\ Append(s, e) \in Seq(Nat) /\ Len(Append(s, e)) = Len(s) + 1 /\ Len(s) \in Nat
      /\ \A n \in 1..Len(s) : Append(s, e)[n] = s[n]
      /\ Append(s, e)[Len(s) + 1] = e
      /\ DOMAIN Append(s, e) = 1..(Len(s) + 1) /\ DOMAIN s = 1..Len(s)
  OBVIOUS
<1>2. \A n \in 1..Len(s) : s[n] # e
  BY <1>1 DEF Range
<1>3. IsInjective(Append(s, e))
  <2>1. \A n, k \in 1..Len(s) : s[n] = s[k] => n = k
    BY <1>1 DEF IsInjective
  <2>2. SUFFICES ASSUME NEW n \in 1..(Len(s) + 1), NEW k \in 1..(Len(s) + 1),
                        Append(s, e)[n] = Append(s, e)[k]
                 PROVE  n = k
    BY <1>1 DEF IsInjective
  <2> QED  BY <1>1, <1>2, <2>1, <2>2
<1>4. Range(Append(s, e)) = Range(s) \cup {e}
  <2>1. \A x : x \in Range(Append(s, e)) <=> x \in Range(s) \cup {e}
    BY <1>1 DEF Range
  <2> QED  BY <2>1
<1> QED  BY <1>1, <1>3, <1>4

\* Parsing the next text, refusing it, or beginning to list the hosts.
LEMMA ParseStep ==
  ASSUME ScanInv, ParseOptions
  PROVE  ScanInv'
<1> DEFINE n == Len(ranges) + 1
<1>1. /\ config' = config /\ i' = i /\ out' = out /\ phase = "parse"
  BY DEF ParseOptions
<1>2. /\ config \in Seq([addr : 0..(2^Width - 1), bits : 0..Width, v4 : BOOLEAN])
      /\ Len(config) \in Nat /\ Len(ranges) \in Nat /\ DOMAIN config = 1..Len(config)
      /\ Width \in Nat
  BY ScanBasics
<1>3. CASE /\ n <= Len(config) /\ Accepted(config[n])
           /\ ranges' = Append(ranges, Masked(config[n]))
           /\ UNCHANGED <<phase, todo, addr>>
  <2>1. n \in DOMAIN config
    BY <1>2, <1>3
  <2>2. IsPrefix(config[n])
    BY <2>1, ConfiguredPrefix DEF ScanInv
  <2>3. Masked(config[n]) \in [addr : Nat, bits : 0..Width]
    BY <2>2, BlockIsInterval DEF Masked, IsPrefix
  <2>4. /\ ranges' \in Seq([addr : Nat, bits : 0..Width]) /\ Len(ranges') = n
        /\ \A k \in 1..Len(ranges) : ranges'[k] = ranges[k]
        /\ ranges'[n] = Masked(config[n])
    BY <1>3, <2>3 DEF ScanInv
  <2>5. \A k \in 1..Len(ranges') : Accepted(config[k])' /\ ranges'[k] = Masked(config[k])
    <3>1. \A k \in 1..n : k = n \/ k \in 1..Len(ranges)
      BY <1>2
    <3> QED  BY <1>1, <1>3, <2>4, <3>1 DEF ScanInv, Accepted, IsPrivate
  <2> QED  BY <1>1, <1>3, <2>4, <2>5 DEF ScanInv, Masked
<1>4. CASE /\ config = <<>> \/ (n <= Len(config) /\ ~Accepted(config[n]))
           /\ phase' = "invalid"
           /\ UNCHANGED <<ranges, todo, addr>>
  <2>1. config = <<>> \/ \E k \in DOMAIN config : ~Accepted(config[k])
    BY <1>2, <1>4
  <2> QED  BY <1>1, <1>4, <2>1 DEF ScanInv, Accepted, IsPrivate, Masked
<1>5. CASE /\ n > Len(config) /\ config # <<>>
           /\ phase' = "hosts" /\ todo' = ranges /\ addr' = ranges[1].addr
           /\ UNCHANGED ranges
  <2>1. Len(ranges) = Len(config) /\ Len(config) >= 1
    BY <1>2, <1>5 DEF ScanInv
  <2>2. Finished' = 0
    BY <1>1, <1>2, <1>5, <2>1 DEF Finished
  <2>3. ranges[1] \in [addr : Nat, bits : 0..Width]
    <3> DEFINE R == [addr : Nat, bits : 0..Width]
    <3>1. ranges \in Seq(R)
      BY DEF ScanInv
    <3> HIDE DEF R
    <3>2. ranges[1] \in R
      BY <1>2, <2>1, <3>1, ElementOf
    <3> QED  BY <3>2 DEF R
  <2>4. LastHost(ranges[1].bits) \in Nat /\ FirstHost(ranges[1].bits) \in {0, 1}
    BY <2>3, Sizes DEF LastHost, FirstHost
  <2>5. UsableOf(0)' = {}
    BY DEF UsableOf
  <2>6. \A j \in FirstHost(ranges[1].bits)..(0 - 1) : FALSE
    BY <2>4
  <2>7. {ranges[1].addr + j : j \in FirstHost(ranges[1].bits)..(0 - 1)} = {}
    BY <2>6
  <2>8. i' = 0 /\ out' = <<>> /\ Range(out') = {}
    BY <1>1 DEF ScanInv, Range
  <2>9. /\ todo' \in Seq([addr : Nat, bits : 0..Width]) /\ Len(todo') \in 1..Len(config')
        /\ \A k \in 1..Len(todo') : todo'[k] = ranges'[Finished' + k]
        /\ i' \in 0..LastHost(todo'[1].bits) /\ addr' = todo'[1].addr + i'
    BY <1>1, <1>2, <1>5, <2>1, <2>2, <2>3, <2>4, <2>8 DEF ScanInv
  <2>10. Range(out') = UsableOf(Finished)' \cup {todo'[1].addr + j : j \in FirstHost(todo'[1].bits)..(i' - 1)}
    <3>1. UsableOf(Finished)' = {}
      BY <2>2, <2>5 DEF UsableOf
    <3>2. todo'[1] = ranges[1]
      BY <1>5
    <3> QED  BY <2>7, <2>8, <3>1, <3>2
  <2> QED  BY <1>1, <1>5, <2>1, <2>9, <2>10 DEF ScanInv, Accepted, IsPrivate, Masked
<1> QED  BY <1>3, <1>4, <1>5 DEF ParseOptions

\* One round of the loop of Hosts, or the end of a range.
LEMMA HostsKeep ==
  ASSUME ScanInv, HostsStep
  PROVE  ScanInv'
<1> DEFINE R == [addr : Nat, bits : 0..Width]
           p == todo[1]
           first == FirstHost(p.bits)
           last == LastHost(p.bits)
           k == Finished
<1>1. /\ config' = config /\ ranges' = ranges /\ phase = "hosts"
      /\ config \in Configs /\ Len(ranges) = Len(config) /\ Len(config) \in Nat
      /\ DOMAIN config = 1..Len(config)
      /\ ranges \in Seq(R) /\ out \in Seq(Nat) /\ IsInjective(out)
      /\ todo \in Seq(R) /\ Len(todo) \in 1..Len(config)
      /\ \A n \in 1..Len(todo) : todo[n] = ranges[k + n]
      /\ i \in 0..last /\ addr = p.addr + i
      /\ Range(out) = UsableOf(k) \cup {p.addr + j : j \in first..(i - 1)}
      /\ \A n \in 1..Len(ranges) : Accepted(config[n]) /\ ranges[n] = Masked(config[n])
  BY ScanBasics DEF ScanInv, HostsStep
<1>2. p \in R /\ Head(todo) = p /\ k = Len(config) - Len(todo) /\ k \in Nat /\ k + 1 \in 1..Len(config)
  <2> HIDE DEF R
  <2>1. p \in R /\ Head(todo) = p
    BY <1>1, ElementOf
  <2> QED  BY <1>1, <2>1 DEF Finished
<1>3. first \in {0, 1} /\ last \in Nat /\ first <= last
  <2>1. p.bits \in 0..Width /\ Width \in Nat
    BY <1>2, ScanTargetsType
  <2>2. Size(p.bits) \in Nat \ {0} /\ (p.bits < Width - 1 => Size(p.bits) >= 4)
    BY <2>1, Sizes
  <2> QED  BY <2>1, <2>2 DEF FirstHost, LastHost, SkipsEnds
<1>4. p.addr \in Nat /\ addr \in Nat /\ i \in Nat /\ i <= last /\ addr = p.addr + i
  <2>1. p.addr \in Nat
    BY <1>2
  <2>2. i \in 0..last /\ addr = p.addr + i
    BY <1>1
  <2> HIDE DEF p, last
  <2> QED  BY <1>3, <2>1, <2>2
<1>5. Len(todo) \in Nat /\ Len(todo) >= 1 /\ Len(todo) <= Len(config) /\ Len(config) \in Nat
  <2>1. Len(todo) \in 1..Len(config) /\ Len(config) \in Nat
    BY <1>1
  <2> QED  BY <2>1
<1>6. ASSUME /\ phase' \in {"hosts", "done"}
             /\ out' \in Seq(Nat) /\ IsInjective(out')
             /\ phase' = "hosts" =>
                  /\ todo' \in Seq(R) /\ Len(todo') \in 1..Len(config)
                  /\ \A n \in 1..Len(todo') : todo'[n] = ranges[Finished' + n]
                  /\ i' \in 0..LastHost(todo'[1].bits) /\ addr' = todo'[1].addr + i'
                  /\ Range(out') = UsableOf(Finished') \cup
                                     {todo'[1].addr + j : j \in FirstHost(todo'[1].bits)..(i' - 1)}
             /\ phase' = "done" => Range(out') = UsableOf(Len(config))
      PROVE  ScanInv'
  <2>1. UsableOf(Finished)' = UsableOf(Finished') /\ UsableOf(Len(config))' = UsableOf(Len(config))
    BY <1>1 DEF UsableOf
  <2> QED  BY <1>1, <1>6, <2>1 DEF ScanInv
<1> HIDE DEF R, p, k, first, last
<1>7. CASE i < last
  <2>1. /\ out' = IF i >= first /\ Fresh(addr) THEN Append(out, addr) ELSE out
        /\ i' = i + 1 /\ addr' = addr + 1
        /\ phase' = phase /\ todo' = todo
    BY <1>2, <1>7 DEF HostsStep, FirstHost, LastHost, first, last
  <2>2. {p.addr + j : j \in first..(i' - 1)}
          = {p.addr + j : j \in first..(i - 1)} \cup (IF i >= first THEN {addr} ELSE {})
    <3>1. i \in Nat /\ i' - 1 = i
      BY <1>1, <1>3, <2>1
    <3>2. \A j : j \in first..i <=> j \in first..(i - 1) \/ (i >= first /\ j = i)
      BY <1>3, <3>1
    <3> QED  BY <1>1, <3>1, <3>2
  <2>3. Range(out') = UsableOf(k) \cup {p.addr + j : j \in first..(i' - 1)}
        /\ out' \in Seq(Nat) /\ IsInjective(out')
    <3>1. CASE i >= first /\ Fresh(addr)
      <4>1. addr \notin Range(out) /\ out' = Append(out, addr)
        BY <2>1, <3>1 DEF Fresh
      <4>2. out' \in Seq(Nat) /\ IsInjective(out') /\ Range(out') = Range(out) \cup {addr}
        BY <1>1, <1>4, <4>1, AppendKeepsInjective
      <4> QED  BY <1>1, <2>2, <3>1, <4>2
    <3>2. CASE i >= first /\ ~Fresh(addr)
      <4>1. addr \in Range(out) /\ out' = out
        BY <2>1, <3>2 DEF Fresh
      <4> QED  BY <1>1, <2>2, <3>2, <4>1
    <3>3. CASE ~(i >= first)
      <4>1. out' = out
        BY <2>1, <3>3
      <4> QED  BY <1>1, <2>2, <3>3, <4>1
    <3> QED  BY <3>1, <3>2, <3>3
  <2>4. Finished' = k
    BY <1>1, <2>1 DEF Finished, k
  <2>5. i' \in 0..last /\ addr' = p.addr + i'
    BY <1>3, <1>4, <1>7, <2>1
  <2> QED  BY <1>1, <1>6, <2>1, <2>3, <2>4, <2>5 DEF p, first, last
<1>8. CASE ~(i < last)
  <2>1. /\ todo' = Tail(todo) /\ i' = 0 /\ out' = out
        /\ IF Len(todo) = 1 THEN phase' = "done" ELSE phase' = phase /\ addr' = todo[2].addr
    BY <1>2, <1>8 DEF HostsStep, LastHost, last
  <2>2. i = last
    BY <1>1, <1>3, <1>8
  <2>3. Range(out) = UsableOf(k + 1)
    <3> DEFINE text == config[k + 1]
    <3>1. IsPrefix(text)
      BY <1>1, <1>2, ConfiguredPrefix
    <3>2. p = Masked(text)
      BY <1>1, <1>2 DEF p
    <3>3. p.bits = text.bits
      BY <3>2 DEF Masked
    <3>4. Usable(text) = {Masked(text).addr + j : j \in FirstHost(text.bits)..(LastHost(text.bits) - 1)}
      BY <3>1, UsableIsInterval
    <3>5. Usable(text) = {p.addr + j : j \in first..(i - 1)}
      BY <2>2, <3>2, <3>3, <3>4 DEF first, last
    <3>6. UsableOf(k + 1) = UsableOf(k) \cup Usable(text)
      <4>1. \A n : n \in 1..(k + 1) <=> n \in 1..k \/ n = k + 1
        BY <1>2
      <4> QED  BY <4>1 DEF UsableOf
    <3> QED  BY <1>1, <3>5, <3>6
  <2>4. CASE Len(todo) = 1
    <3>1. k + 1 = Len(config)
      BY <1>1, <1>2, <2>4
    <3> QED  BY <1>1, <1>6, <2>1, <2>3, <2>4, <3>1
  <2>5. CASE Len(todo) # 1
    <3>1. Len(todo) \in Nat /\ Len(todo) > 1
      <4> DEFINE l == Len(todo)
      <4>1. l \in Nat /\ l >= 1 /\ l # 1
        BY <1>5, <2>5
      <4> HIDE DEF l
      <4>2. l > 1
        BY <4>1
      <4> QED  BY <4>1, <4>2 DEF l
    <3>2. /\ todo' \in Seq(R) /\ Len(todo') = Len(todo) - 1
          /\ \A n \in 1..Len(todo') : todo'[n] = todo[n + 1]
      BY <1>1, <2>1, <3>1
    <3>3. Finished' = k + 1
      BY <1>1, <1>2, <3>1, <3>2 DEF Finished
    <3>4. \A n \in 1..Len(todo') : todo'[n] = ranges[Finished' + n]
      <4> SUFFICES ASSUME NEW n \in 1..Len(todo') PROVE todo'[n] = ranges[Finished' + n]
        OBVIOUS
      <4>1. n + 1 \in 1..Len(todo) /\ k + (n + 1) = Finished' + n
        BY <1>2, <3>1, <3>2, <3>3
      <4> QED  BY <1>1, <3>2, <4>1
    <3>5. todo'[1] = todo[2] /\ todo'[1] \in R
      BY <3>1, <3>2, ElementOf
    <3>6. /\ todo'[1].addr \in Nat
          /\ LastHost(todo'[1].bits) \in Nat /\ FirstHost(todo'[1].bits) \in {0, 1}
      BY <3>5, Sizes DEF R, LastHost, FirstHost
    <3>7. {todo'[1].addr + j : j \in FirstHost(todo'[1].bits)..(i' - 1)} = {}
      <4>1. \A j \in FirstHost(todo'[1].bits)..(0 - 1) : FALSE
        BY <3>6
      <4> QED  BY <2>1, <4>1
    <3>8. Len(todo') \in 1..Len(config)
      BY <1>1, <3>1, <3>2
    <3>9. i' \in 0..LastHost(todo'[1].bits) /\ addr' = todo'[1].addr + i'
      <4>1. addr' = todo'[1].addr /\ i' = 0
        BY <2>1, <2>5, <3>5
      <4> QED  BY <3>6, <4>1
    <3> QED  BY <1>1, <1>6, <2>1, <2>3, <2>5, <3>2, <3>3, <3>4, <3>7, <3>8, <3>9
  <2> QED  BY <2>4, <2>5
<1> QED  BY <1>7, <1>8

\* Every step of a start keeps it; the end of the process begins it anew.
LEMMA ScanStep ==
  ASSUME ScanInv, [StartupNext]_startVars
  PROVE  ScanInv'
<1>1. CASE LoadConfig
  BY <1>1, ParseStep DEF LoadConfig
<1>2. CASE ScanHosts
  BY <1>2, HostsKeep DEF ScanHosts
<1>3. CASE OpenDatabase \/ UNCHANGED startVars
  <2>1. UNCHANGED scanVars
    BY <1>3 DEF OpenDatabase, startVars
  <2>2. /\ config' = config /\ phase' = phase /\ ranges' = ranges /\ todo' = todo
        /\ i' = i /\ addr' = addr /\ out' = out
    BY <2>1 DEF scanVars
  <2>3. Finished' = Finished
    BY <2>2 DEF Finished
  <2>4. UsableOf(Finished)' = UsableOf(Finished) /\ UsableOf(Len(config))' = UsableOf(Len(config))
    BY <2>2, <2>3 DEF UsableOf
  <2> QED  BY <2>2, <2>3, <2>4 DEF ScanInv
<1>4. CASE EndProcess
  <2>1. /\ config' = config /\ phase' = "parse" /\ ranges' = <<>> /\ todo' = <<>>
        /\ i' = 0 /\ out' = <<>>
    BY <1>4 DEF EndProcess
  <2>2. Len(config) \in Nat /\ config \in Configs
    BY ScanBasics DEF ScanInv
  <2> QED  BY <2>1, <2>2 DEF ScanInv, IsInjective
<1> QED  BY <1>1, <1>2, <1>3, <1>4 DEF StartupNext

\* What is parsed, listed and still to come fit together throughout a start.
THEOREM ScanInvariant == StartupSpec => []ScanInv
<1>1. StartupInit => ScanInv
  <2> SUFFICES ASSUME StartupInit PROVE ScanInv
    OBVIOUS
  <2>1. config \in Configs /\ phase = "parse" /\ ranges = <<>> /\ i = 0 /\ out = <<>>
    BY DEF StartupInit, ScanInit
  <2>2. Len(config) \in Nat
    <3> DEFINE T == [addr : 0..(2^Width - 1), bits : 0..Width, v4 : BOOLEAN]
    <3>1. config \in Seq(T)
      BY <2>1, ScanTargetsType
    <3> HIDE DEF T
    <3> QED  BY <3>1
  <2> QED  BY <2>1, <2>2 DEF ScanInv, IsInjective
<1>2. ScanInv /\ [StartupNext]_startVars => ScanInv'
  BY ScanStep
<1> QED  BY <1>1, <1>2, PTL DEF StartupSpec

\* A scan probes the usable addresses of the configured ranges and no other,
\* once, and a list of ranges is refused just when it should be; for addresses
\* of any width and any private blocks, ranges and lists of them.
THEOREM TargetsAreExact == StartupSpec => []TargetsExact
<1>1. ScanInv => TargetsExact
  <2> SUFFICES ASSUME ScanInv PROVE TargetsExact
    OBVIOUS
  <2>1. DOMAIN config = 1..Len(config) /\ config \in Configs
    BY ScanBasics DEF ScanInv
  <2>2. \A n \in DOMAIN config : Accepted(config[n]) <=> ~TooWideOrPublic(config[n])
    BY <2>1, ConfiguredPrefix, AcceptedIsRight
  <2>3. UsableOf(Len(config)) = UNION {Usable(config[n]) : n \in DOMAIN config}
    BY <2>1 DEF UsableOf
  <2> QED  BY <2>1, <2>2, <2>3 DEF ScanInv, TargetsExact
<1> QED  BY <1>1, ScanInvariant, PTL

-----------------------------------------------------------------------------
(* The composition.                                                         *)

\* Whatever run does, it is a step of opening the database, the end of the
\* process or none of the database's business: Startup implements Migration.
THEOREM StartupImplementsMigration == StartupSpec => Spec
<1>1. StartupInit => Init
  BY DEF StartupInit
<1>2. [StartupNext]_startVars => [Next]_vars
  BY DEF StartupNext, startVars, LoadConfig, OpenDatabase, ScanHosts, EndProcess, Next
<1> QED  BY <1>1, <1>2, PTL DEF StartupSpec, Spec

\* Hence what is proved of opening the database holds of every start, wherever
\* parsing, opening or listing the targets is broken off.
THEOREM StartupKeepsTheDatabase ==
  StartupSpec => [](VersionTellsSchema /\ OpenMeansCurrent /\ OnlyNewerRefused)
<1> QED  BY StartupImplementsMigration, VersionIsTrue, OpenedIsCurrent, NewerIsRefused, PTL
=============================================================================
