---------------------------- MODULE ScanTargets -----------------------------
(***************************************************************************)
(* From the configured scan ranges to the addresses that are probed           *)
(* (internal/config/cidr.go, ParseOptions in config.go): the loops as they    *)
(* run, against what they should compute.                                     *)
(*                                                                         *)
(* An address is a number below 2^Width (32 in the code), a prefix is          *)
(* [addr, bits]; text stands for what netip.ParsePrefix makes of it, v4 being   *)
(* FALSE for anything that is not an IPv4 CIDR.                                *)
(***************************************************************************)
EXTENDS Integers, Sequences, Functions

CONSTANTS Width,
          MinScanPrefix,
          PrivateBlocks,   \* prefixes
          Configs          \* the lists of texts that are configured

ASSUME ScanTargetsType ==
  /\ Width \in Nat /\ MinScanPrefix \in 0..Width
  /\ PrivateBlocks \subseteq [addr : 0..(2^Width - 1), bits : 0..Width]
  /\ Configs \subseteq Seq([addr : 0..(2^Width - 1), bits : 0..Width, v4 : BOOLEAN])

\* privateBlocks are written without host bits.
ASSUME BlocksAligned == \A block \in PrivateBlocks : block.addr % 2^(Width - block.bits) = 0

\* The arithmetic of powers that the provers lack.
ASSUME PowersOfTwo ==
  /\ 2^1 = 2
  /\ \A b \in 0..Width : /\ 2^b \in Nat \ {0}
                         /\ \A c \in 0..b : 2^b = 2^c * 2^(b - c)

VARIABLES config,   \* scan_ranges
          phase,    \* "parse", "invalid", "hosts", "done"
          ranges,   \* the prefixes parsed so far
          todo,     \* the prefixes whose hosts are still to come
          i, addr,  \* the loop of Hosts
          out       \* the targets so far; seen is the set of them

scanVars == <<config, phase, ranges, todo, i, addr, out>>

Size(bits) == 2^(Width - bits)

ScanInit == /\ config \in Configs
            /\ phase = "parse" /\ ranges = <<>> /\ todo = <<>>
            /\ i = 0 /\ addr = 0 /\ out = <<>>

-----------------------------------------------------------------------------
(* Plausible slips, used by the mutants.                                    *)

ContainsEnd(block, a) == block.addr <= a /\ a <= block.addr + Size(block.bits)

-----------------------------------------------------------------------------
\* Prefix.Masked and Prefix.Contains.
Masked(p) == [addr |-> p.addr - (p.addr % Size(p.bits)), bits |-> p.bits]
Contains(block, a) == block.addr <= a /\ a < block.addr + Size(block.bits)

IsPrivate(p) == \E block \in PrivateBlocks : block.bits <= p.bits /\ Contains(block, p.addr)

\* ParseScanRange returns no error.
Accepted(text) == text.v4 /\ text.bits >= MinScanPrefix /\ IsPrivate(Masked(text))

\* ParseOptions: no range at all and the first bad one are errors.
ParseOptions ==
  /\ phase = "parse"
  /\ LET n == Len(ranges) + 1
     IN  \/ /\ n <= Len(config) /\ Accepted(config[n])
            /\ ranges' = Append(ranges, Masked(config[n]))
            /\ UNCHANGED <<phase, todo, addr>>
         \/ /\ config = <<>> \/ (n <= Len(config) /\ ~Accepted(config[n]))
            /\ phase' = "invalid"
            /\ UNCHANGED <<ranges, todo, addr>>
         \/ /\ n > Len(config) /\ config # <<>>
            /\ phase' = "hosts" /\ todo' = ranges /\ addr' = ranges[1].addr
            /\ UNCHANGED ranges
  /\ UNCHANGED <<config, i, out>>

\* Network and broadcast addresses are skipped except for /31 and /32.
SkipsEnds(bits) == bits < Width - 1

\* Whether ScanHosts has not seen the address.
Fresh(a) == a \notin Range(out)

\* One round of the loop of Hosts, and the same of the loop over its result.
HostsStep ==
  /\ phase = "hosts"
  /\ LET bits == Head(todo).bits
         first == IF SkipsEnds(bits) THEN 1 ELSE 0
         last == IF SkipsEnds(bits) THEN Size(bits) - 1 ELSE Size(bits)
     IN  IF i < last
           THEN /\ out' = IF i >= first /\ Fresh(addr) THEN Append(out, addr) ELSE out
                /\ i' = i + 1 /\ addr' = addr + 1
                /\ UNCHANGED <<phase, todo>>
           ELSE /\ todo' = Tail(todo) /\ i' = 0
                /\ IF Len(todo) = 1 THEN phase' = "done" /\ UNCHANGED addr
                                    ELSE UNCHANGED phase /\ addr' = todo[2].addr
                /\ UNCHANGED out
  /\ UNCHANGED <<config, ranges>>

-----------------------------------------------------------------------------
(* What they should compute, by sets.                                        *)

Block(p) == {a \in 0..(2^Width - 1) : a \div Size(p.bits) = p.addr \div Size(p.bits)}
Ends(p) == {a \in Block(p) : a - 1 \notin Block(p) \/ a + 1 \notin Block(p)}
Usable(p) == IF p.bits >= Width - 1 THEN Block(p) ELSE Block(p) \ Ends(p)

TooWideOrPublic(p) ==
  \/ ~p.v4 \/ p.bits < MinScanPrefix
  \/ \A block \in PrivateBlocks : ~(Block(p) \subseteq Block(block))

\* A scan probes every usable address of every range and no other, once,
\* however ranges overlap, nest or are written; and the ranges are refused just
\* when there is none, or one is wider than allowed or reaches out of the
\* private blocks, so that no public address is ever probed.
TargetsExact ==
  /\ phase = "invalid" => config = <<>> \/ \E n \in DOMAIN config : TooWideOrPublic(config[n])
  /\ phase = "done" => /\ \A n \in DOMAIN config : ~TooWideOrPublic(config[n])
                       /\ Range(out) = UNION {Usable(config[n]) : n \in DOMAIN config}
                       /\ IsInjective(out)
=============================================================================
