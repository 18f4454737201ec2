------------------------------ MODULE FeeFlash ------------------------------
(***************************************************************************)
(* The flash under Fee, external to it: clusters of cells that are erased   *)
(* together and programmed one by one, a request at a time.  A cell stands  *)
(* for a unit that is programmed as a whole: a cluster header, a block      *)
(* header or a piece of data.  The flags of a header are virtual pages of   *)
(* their own and are programmed later.  Addresses count from the start of   *)
(* the cluster; cell 0 holds the cluster header.                            *)
(***************************************************************************)
EXTENDS Integers, Sequences

CONSTANTS
  ClusterCount,       \* number of clusters of the group
  FeeClusterLength    \* cells of a cluster

ASSUME FlashConstants ==
  /\ ClusterCount \in Nat /\ ClusterCount > 1
  /\ FeeClusterLength \in Nat /\ FeeClusterLength > 2

VARIABLE flash

Cluster == 0 .. ClusterCount - 1
Address == 0 .. FeeClusterLength - 1

(* Cells.  A cell that was programmed half, or twice, is torn: it is not    *)
(* erased, and no check sum fits.                                           *)
Blank == [kind |-> "blank"]
Torn == [kind |-> "torn"]
ClusterHdr(use, valid) == [kind |-> "cluster", use |-> use, valid |-> valid]
BlockHdr(b, addr) ==
  [kind |-> "block", block |-> b, addr |-> addr, valid |-> "erased", invalid |-> "erased"]
DataCells(v, n) == [i \in 1 .. n |-> [kind |-> "data", value |-> v, part |-> i]]

(* Requests to the driver. *)
NoAccess == [op |-> "none"]
Erase(c) == [op |-> "erase", cluster |-> c]
Read(c, at, n) == [op |-> "read", cluster |-> c, at |-> at, length |-> n]
Program(c, at, cells) == [op |-> "program", cluster |-> c, at |-> at, cells |-> cells]
SetFlag(c, at, flag) == [op |-> "flag", cluster |-> c, at |-> at, flag |-> flag]

CellsAt(c, at, n) == [i \in 1 .. n |-> flash[c][at + i - 1]]

(* What the cells hold when the first n of the new ones are programmed. *)
Programmed(m, n) ==
  [flash EXCEPT ![m.cluster] = [a \in Address |->
     IF a \notin m.at .. m.at + n - 1 THEN flash[m.cluster][a]
     ELSE IF flash[m.cluster][a] = Blank THEN m.cells[a - m.at + 1]
     ELSE Torn]]

Flagged(m) ==
  LET cell == flash[m.cluster][m.at]
  IN  [flash EXCEPT ![m.cluster][m.at] =
         IF m.flag \in DOMAIN cell /\ cell[m.flag] = "erased"
         THEN [cell EXCEPT ![m.flag] = "set"]
         ELSE Torn]

(* A request that was completed. *)
Completed(m) ==
  CASE m.op = "erase"   -> [flash EXCEPT ![m.cluster] = [a \in Address |-> Blank]]
    [] m.op = "program" -> Programmed(m, Len(m.cells))
    [] m.op = "flag"    -> Flagged(m)
    [] OTHER            -> flash

(* The cells a power loss leaves behind.  Programming stops between two     *)
(* cells or within one, a flag is set or not; an erase may leave anything   *)
(* behind, the header included.                                             *)
Interrupted(m) ==
  {flash, Completed(m)} \cup
  CASE m.op = "program" ->
         LET started(n) == [Programmed(m, n) EXCEPT ![m.cluster][m.at + n] = Torn]
         IN  {Programmed(m, n) : n \in 0 .. Len(m.cells)}
             \cup {started(n) : n \in 0 .. Len(m.cells) - 1}
    [] m.op = "erase" ->
         {[flash EXCEPT ![m.cluster] = [a \in Address |-> IF a = 0 THEN head ELSE rest]] :
            head \in {flash[m.cluster][0], Torn}, rest \in {Blank, Torn}}
    [] OTHER -> {}

=============================================================================
