-------------------------- MODULE RadioProgramming --------------------------
(***************************************************************************)
(* Programming one radio path from its imported table: the choice of the   *)
(* board's package, the check of the table's branches, the walk that       *)
(* writes the selected rows through the serial port of the radio, and the  *)
(* pages for the firmware, which repeat the rows above 0x100 (RadioTables, *)
(* RadioAccess, RadioFirmware and RadioInitialization).                    *)
(*                                                                         *)
(* A row is <<operation, key or address class>>.  A package key is         *)
(* 256 * RFE + cut.  Address class 0 goes through the serial port, 1 is a  *)
(* register written directly and repeated in the pages, 2 is no address.   *)
(***************************************************************************)
EXTENDS Naturals, Sequences, FiniteSets, SequencesExt

CONSTANTS
    RtChip,       \* the key of the device: its RFE and cut
    RtHeadKeys,   \* the packages headlines may name
    RtCapacity,   \* rows the scratch storage of the pages holds
    RtPageWords,  \* words in a page
    RsBoards,     \* boards to program from the shipped tables: 256 * RFE + cut
    RsCapacity    \* words the pages of a path hold

ASSUME RtAssumption ==
    /\ RtChip \in Nat /\ RtHeadKeys \subseteq Nat /\ RtCapacity \in Nat /\ RtPageWords \in Nat \ {0}
    /\ RsBoards \subseteq Nat /\ RsCapacity \in Nat

VARIABLES
    rtTable,    \* its headlines and rows
    rtPhase,    \* "start", "rows", "done" or "failed"
    rtRow,      \* the row the walk is at
    rtWalk,     \* target, matched and found of applyRadioTable()
    rtAnalog,   \* what the radio took through the serial port, in order
    rtPort,     \* the write the serial port is busy with, 0 when idle
    rtDirect,   \* what was written to the registers, in order
    rtPages,    \* the pages handed out, one sequence of words each
    rsPath,     \* the shipped table that is walked, "A" or "B"
    rsBoard,    \* the board it is walked for
    rsPass,     \* "select", "check", "count", "write", "done", "refused" or "stopped"
    rsAt,       \* the section the pass is at
    rsKey,      \* the package that was selected
    rsWords,    \* words counted for the pages
    rsLut       \* the banks that are selected, the classes with an index, and slips

rtVars == <<rtTable, rtPhase, rtRow, rtWalk, rtAnalog, rtPort, rtDirect, rtPages>>
rsVars == <<rsPath, rsBoard, rsPass, rsAt, rsKey, rsWords, rsLut>>

-----------------------------------------------------------------------------
(* The tables the walk may meet.                                           *)

RtOther == 7
RtKeys == {RtChip, RtOther}
RtHeadlines == BoundedSeq(RtHeadKeys, 2)

RtBranchRows(op, key) == <<<<op, key>>, <<"check", 0>>, <<"write", 0>>>>
RtTail == {<<>>, <<<<"else", 0>>, <<"write", 1>>>>}
RtGroups ==
    {RtBranchRows("if", k) \o second \o last \o <<<<"end", 0>>>> :
       k \in RtKeys, last \in RtTail,
       second \in {<<>>} \cup {RtBranchRows("elif", j) \o <<<<"write", 1>>>> : j \in RtKeys}}
RtSegments == RtGroups \cup {<<<<"write", c>>>> : c \in 0 .. 2}

\* One or two segments, or one with a row missing ...
RtBodies ==
    {s \o t : s \in RtSegments, t \in RtSegments \cup {<<>>}}
        \cup UNION {{RemoveAt(g, i) : i \in 1 .. Len(g)} : g \in RtGroups} \cup {<<>>}

\* ... under one headline for the device; and every list of headlines over one group.
RtTables ==
    {[heads |-> <<RtChip>>, rows |-> b] : b \in RtBodies}
        \cup {[heads |-> h, rows |-> <<<<"if", k>>, <<"check", 0>>, <<"write", 1>>, <<"end", 0>>>>] :
                h \in RtHeadlines, k \in RtHeadKeys}

RtInit ==
    /\ rtTable \in RtTables
    /\ rtPhase = "start" /\ rtRow = 1
    /\ rtWalk = [target |-> 0, matched |-> TRUE, found |-> FALSE, chosen |-> 0]
    /\ rtAnalog = <<>> /\ rtPort = 0 /\ rtDirect = <<>> /\ rtPages = <<>>

-----------------------------------------------------------------------------
(* selectRadioTable, validateRadioBranches, applyRadioTable.               *)

RtRfe(key) == key \div 256

RtHighest(keys) == {k \in keys : \A j \in keys : j <= k}

\* No fallback to another cut of the board.
RtSelectExact(chip, heads, rows) == Range(heads) \cap {chip, 256 * RtRfe(chip) + 255}

\* The key of the package, {} when the table has none for this board.
RtSelect(chip, heads, rows) ==
    LET keys == Range(heads)
        exact == keys \cap {chip}
        anyCut == keys \cap {256 * RtRfe(chip) + 255}
        ours == {k \in keys : RtRfe(k) = RtRfe(chip)}
        anyBoard == {k \in keys : RtRfe(k) = 255}
    IN  CASE rows = <<>> -> {}
          [] heads = <<>> -> {rows[1][2]}
          [] heads # <<>> /\ exact # {} -> exact
          [] heads # <<>> /\ exact = {} /\ anyCut # {} -> anyCut
          [] heads # <<>> /\ exact = {} /\ anyCut = {} /\ ours # {} -> RtHighest(ours)
          [] OTHER -> RtHighest(anyBoard)

\* Whether every branch can be followed for this key; rows before i are checked.
RtBranchesValid(rows, key) ==
    LET none == [ok |-> TRUE, branch |-> FALSE, check |-> FALSE, found |-> FALSE, other |-> FALSE]
        Checked(s, i) ==
            LET op == rows[i][1]
                fine == CASE op = "if" -> ~s.branch
                          [] op = "elif" -> s.branch /\ ~s.check /\ ~s.other
                          [] op = "check" -> s.branch /\ s.check
                          [] op = "else" -> s.branch /\ ~s.check /\ ~s.other /\ s.found
                          [] op = "end" -> s.branch /\ ~s.check
                          [] op = "write" -> ~s.check
            IN  [ok |-> s.ok /\ fine,
                 branch |-> IF op = "if" THEN TRUE ELSE s.branch /\ op # "end",
                 check |-> IF op \in {"if", "elif"} THEN TRUE ELSE s.check /\ op # "check",
                 found |-> (s.found /\ op # "if") \/ (op = "check" /\ i > 1 /\ rows[i - 1][2] = key),
                 other |-> op = "else" \/ (s.other /\ op # "if")]
        after[i \in 0 .. Len(rows)] == IF i = 0 THEN none ELSE Checked(after[i - 1], i)
    IN  after[Len(rows)].ok /\ ~after[Len(rows)].branch

\* A branch of the same package follows the one that was taken.
RtFollowEvery(w, row) ==
    CASE row[1] \in {"if", "elif"} -> [w EXCEPT !.target = row[2]]
      [] row[1] = "else" -> [w EXCEPT !.matched = FALSE]
      [] row[1] = "end" -> [w EXCEPT !.matched = TRUE, !.found = FALSE]
      [] row[1] = "check" -> [w EXCEPT !.matched = w.target = w.chosen, !.found = @ \/ w.target = w.chosen]
      [] OTHER -> w

\* One row of the walk.
RtFollow(w, row) ==
    CASE row[1] \in {"if", "elif"} -> [w EXCEPT !.target = row[2]]
      [] row[1] = "else" -> [w EXCEPT !.matched = FALSE]
      [] row[1] = "end" -> [w EXCEPT !.matched = TRUE, !.found = FALSE]
      [] row[1] = "check" -> LET m == ~w.found /\ w.target = w.chosen
                             IN  [w EXCEPT !.matched = m, !.found = @ \/ m]
      [] OTHER -> w

RtWalkOf(key) == [target |-> 0, matched |-> TRUE, found |-> FALSE, chosen |-> key]

\* The rows a pass over the table hands to its sink.
RtPass(rows, key) ==
    LET Row(s, i) ==
            LET w == RtFollow(s.w, rows[i])
            IN  [w |-> w, out |-> IF rows[i][1] = "write" /\ w.matched THEN Append(s.out, i) ELSE s.out]
        after[i \in 0 .. Len(rows)] ==
            IF i = 0 THEN [w |-> RtWalkOf(key), out |-> <<>>] ELSE Row(after[i - 1], i)
    IN  after[Len(rows)].out

-----------------------------------------------------------------------------
(* RadioFirmware.                                                          *)

RtRowsOf(rows, class, indices) == SelectSeq(indices, LAMBDA i : rows[i][2] = class)

\* The counting pass: no row without an address, and no more words than fit.
RtCollects(rows, key) ==
    LET out == RtPass(rows, key)
    IN  RtRowsOf(rows, 2, out) = <<>> /\ Len(RtRowsOf(rows, 1, out)) <= RtCapacity

\* pages() and the slice each encode() sends.
RtPaged(words) ==
    [p \in 1 .. (Len(words) + RtPageWords - 1) \div RtPageWords |->
        LET start == (p - 1) * RtPageWords
            count == IF Len(words) - start > RtPageWords THEN RtPageWords ELSE Len(words) - start
        IN  SubSeq(words, start + 1, start + count)]

-----------------------------------------------------------------------------
(* RadioInitialization::radio.                                             *)

RtFail == rtPhase' = "failed" /\ UNCHANGED <<rtTable, rtRow, rtWalk, rtAnalog, rtPort, rtDirect, rtPages>>

\* The pages are prepared before the hardware is touched.
RtPrepare ==
    /\ rtPhase = "start"
    /\ \E keys \in {RtSelect(RtChip, rtTable.heads, rtTable.rows)} :
          IF \E k \in keys : RtBranchesValid(rtTable.rows, k) /\ RtCollects(rtTable.rows, k)
          THEN /\ rtPhase' = "rows" /\ rtWalk' = RtWalkOf(CHOOSE k \in keys : TRUE)
               /\ UNCHANGED <<rtTable, rtRow, rtAnalog, rtPort, rtDirect, rtPages>>
          ELSE RtFail

RtAtRow == rtPhase = "rows" /\ rtRow <= Len(rtTable.rows)

\* A cancellation, a failed access, or a port that stays busy.
RtStops == rtPhase = "rows" /\ RtFail

\* The row steers the walk, or is not for this device.
RtSkip ==
    /\ RtAtRow
    /\ rtWalk' = RtFollow(rtWalk, rtTable.rows[rtRow])
    /\ rtTable.rows[rtRow][1] = "write" => ~rtWalk'.matched
    /\ rtRow' = rtRow + 1
    /\ UNCHANGED <<rtTable, rtPhase, rtAnalog, rtPort, rtDirect, rtPages>>

RtWrites(class) ==
    /\ RtAtRow /\ rtTable.rows[rtRow] = <<"write", class>> /\ rtWalk.matched
    /\ rtRow' = rtRow + 1
    /\ UNCHANGED <<rtTable, rtPhase, rtWalk, rtAnalog, rtPages>>

\* writeRf() through the port: first it is polled, then the write is left with it.
RtPost == RtWrites(0) /\ rtPort = 0 /\ rtPort' = rtRow /\ UNCHANGED rtDirect

RtDirectWrite == RtWrites(1) /\ rtDirect' = Append(rtDirect, rtRow) /\ UNCHANGED rtPort

\* The radio takes the write the port holds, whatever became of the walk.
RtTakes ==
    /\ rtPort # 0 /\ rtAnalog' = Append(rtAnalog, rtPort) /\ rtPort' = 0
    /\ UNCHANGED <<rtTable, rtPhase, rtRow, rtWalk, rtDirect, rtPages>>

RtHandOut ==
    /\ rtPhase = "rows" /\ rtRow > Len(rtTable.rows)
    /\ rtPhase' = "done"
    /\ rtPages' = RtPaged(RtRowsOf(rtTable.rows, 1, RtPass(rtTable.rows, rtWalk.chosen)))
    /\ UNCHANGED <<rtTable, rtRow, rtWalk, rtAnalog, rtPort, rtDirect>>

\* The pages go out when the last row is written, not yet taken.
RtFinishHasty == RtHandOut

\* drain(), and only then the pages are handed out.
RtFinish == rtPort = 0 /\ RtHandOut

RtNext ==
    \/ RtPrepare \/ RtStops \/ RtSkip \/ RtPost \/ RtDirectWrite \/ RtTakes \/ RtFinish

-----------------------------------------------------------------------------
(* The shipped tables of the two paths, every row of them, with values     *)
(* left out.  A row is <<operation, key or address class>>, and a write    *)
(* says what it does: "select" or "close" a lookup bank by its register,   *)
(* "index" or "data" of an entry, "plain" for any other register.  A table *)
(* is a sequence of sections, a section one of blocks; a group of branches *)
(* lies within a block.                                                    *)

RsHeads == <<256, 512, 257, 513, 769, 1025, 1281, 1537, 1793, 2049, 10497, 11009>>

RsRow(c, kind, register) == <<<<"write", c, kind, register>>>>
RsTimes(n, block) == [i \in 1 .. n |-> block]
RsPlain(c) == RsRow(c, "plain", "")
RsPlains(n) == RsTimes(n, RsPlain(0))
RsData(c, n) == FlattenSeq(RsTimes(n, RsRow(c, "data", "")))
RsEntry(c, n) == RsRow(c, "index", "") \o RsData(c, n)

\* Branches for every package, and an ELSE (0): rows[k] are those of package k.
RsPackages == Range(RsHeads) \cup {0}
RsByBoard(rows) ==
    FlattenSeq([i \in 1 .. Len(RsHeads) |->
        <<<<IF i = 1 THEN "if" ELSE "elif", RsHeads[i]>>, <<"check", 0>>>> \o rows[RsHeads[i]]])
        \o <<<<"else", 0>>>> \o rows[0] \o <<<<"end", 0>>>>

\* An entry of n common words and m words of the package.
RsEntryByBoard(c, n, m) == RsEntry(c, n) \o RsByBoard([k \in RsPackages |-> RsData(c, m)])

RsOpen(c, bank) == <<RsRow(c, "select", bank)>>
RsClose(c, bank) == <<RsRow(c, "close", bank)>>
RsBank(c, bank, entries) == RsOpen(c, bank) \o entries \o RsClose(c, bank)
RsPair == <<RsPlain(0), RsPlain(1)>>

RaStart ==
    RsPlains(1) \o RsPair \o RsPair \o RsPair \o RsPlains(19)
        \o RsBank(0, "ed", RsTimes(16, RsEntry(0, 1))) \o RsBank(0, "ed", RsTimes(2, RsEntry(0, 3)))
        \o RsPair \o RsPair \o RsBank(0, "ee", RsTimes(3, RsEntry(0, 1)))
        \o RsPlains(1) \o RsBank(0, "ef", RsTimes(4, RsEntry(0, 2))) \o RsPlains(1)

RaBanks4000 ==
    RsBank(0, "ef", RsTimes(15, RsEntry(0, 1))) \o RsBank(0, "ee", RsTimes(3, RsEntry(0, 1)))
        \o RsBank(0, "ef", RsTimes(2, RsEntry(0, 1)))

RaBank8000 == RsBank(0, "ef", RsTimes(42, RsEntry(0, 2)))

\* The long banks by the rows of their indices: 0x00, 0x10 and so on.
RaBank100Row0 ==
    RsOpen(0, "ef") \o RsTimes(3, RsEntryByBoard(0, 0, 1)) \o RsTimes(1, RsEntry(0, 1))
        \o RsTimes(2, RsEntryByBoard(0, 0, 1)) \o RsTimes(4, RsEntry(0, 1)) \o RsTimes(6, RsEntryByBoard(0, 0, 1))
RaBank100Row1 == RsTimes(8, RsEntryByBoard(0, 0, 1))
RaBank100Row2 == RsTimes(8, RsEntryByBoard(0, 0, 1)) \o RsClose(0, "ef") \o RsPlains(1)

RaBank10 == RsBank(0, "ef", RsTimes(6, RsEntry(0, 1)))
RaBank80Row0 == RsOpen(0, "ef") \o RsTimes(16, RsEntryByBoard(0, 1, 1))
RaBank80Row1 == RsTimes(16, RsEntryByBoard(0, 1, 1))
RaBank80Row2 == RsTimes(16, RsEntryByBoard(0, 1, 1))
RaBank80Row3 == RsTimes(12, RsEntryByBoard(0, 1, 1)) \o RsClose(0, "ef")

RaBanks1000 ==
    RsBank(0, "ee", RsTimes(8, RsEntry(0, 1)))
        \o RsBank(0, "ee", RsTimes(11, RsEntry(0, 1)) \o RsTimes(5, RsEntryByBoard(0, 0, 1)))
        \o RsBank(0, "ee", RsTimes(4, RsEntry(0, 1)))

\* Selected for the first cut only: the entries reach no bank of the others.
RaBankEc ==
    <<RsByBoard([k \in RsPackages |-> RsRow(0, IF k % 256 = 0 THEN "select" ELSE "close", "ec")])>>
        \o RsTimes(2, RsEntry(0, 3)) \o RsClose(0, "ec") \o RsPlains(1) \o RsClose(0, "ef")
        \o <<RsEntry(0, 0)>> \o RsPlains(2) \o RsClose(0, "ef")

\* Selected again before it was closed.
RaBank400 ==
    <<RsByBoard([k \in RsPackages |-> RsRow(0, "select", "ef") \o FlattenSeq(RsTimes(8, RsEntry(0, 1)))])>>
        \o RsBank(0, "ef", RsTimes(8, RsEntry(0, 1)))

RaBank20000 ==
    RsPlains(3) \o RsBank(0, "ef", <<RsEntry(0, 1)>>) \o RsPlains(1) \o <<RsByBoard([k \in RsPackages |-> RsPlain(0)])>>

RsSubband(n, m) == RsTimes(n, RsEntry(1, 1)) \o RsTimes(m, RsEntryByBoard(1, 0, 1))
RaDirect2000Low == RsOpen(1, "ee") \o RsSubband(0, 17)
RaDirect2000Mid == RsSubband(0, 17)
RaDirect2000High == RsSubband(0, 17) \o RsClose(1, "ee")
RaDirect4000Low == RsOpen(1, "ee") \o RsSubband(4, 14)
RaDirect4000Mid == RsSubband(4, 14)
RaDirect4000High == RsSubband(4, 14) \o RsClose(1, "ee")
RaDirect2000 == RsBank(1, "ee", RsSubband(17, 0))
RaDirect4000 == RsBank(1, "ee", RsSubband(18, 0)) \o <<RsPlain(1)>> \o RsPlains(1)

\* Path B differs at its start and in three banks; the others repeat path A.
RbStart ==
    RsPlains(1) \o RsPair \o RsPair \o RsPair \o RsPlains(16)
        \o RsBank(0, "ed", RsTimes(2, RsEntry(0, 3))) \o RsPair \o RsPair
        \o RsBank(0, "ee", RsTimes(3, RsEntry(0, 1))) \o RsPlains(1)
        \o RsBank(0, "ef", RsTimes(3, RsEntryByBoard(0, 0, 2)) \o RsTimes(1, RsEntry(0, 2))) \o RsPlains(1)

RbBanks4000 ==
    RsBank(0, "ef", RsTimes(24, RsEntry(0, 1))) \o RsBank(0, "ee", RsTimes(3, RsEntry(0, 1)))
        \o RsBank(0, "ef", RsTimes(1, RsEntry(0, 1)) \o RsTimes(3, RsEntryByBoard(0, 0, 1)))

RbBank8000 == RaBank8000

RbBank100Row0 ==
    RsOpen(0, "ef") \o RsTimes(3, RsEntry(0, 1)) \o RsTimes(1, RsEntryByBoard(0, 0, 1))
        \o RsTimes(1, RsEntry(0, 1)) \o RsTimes(11, RsEntryByBoard(0, 0, 1))
RbBank100Row1 == RsTimes(8, RsEntryByBoard(0, 0, 1))
RbBank100Row2 ==
    RsTimes(3, RsEntryByBoard(0, 0, 1)) \o RsTimes(5, RsEntry(0, 1)) \o RsClose(0, "ef") \o RsPlains(1)

RbBank10 == RaBank10
RbBank80Row0 == RaBank80Row0
RbBank80Row1 == RaBank80Row1
RbBank80Row2 == RaBank80Row2
RbBank80Row3 == RaBank80Row3
RbBanks1000 == RaBanks1000
RbBankEc == RaBankEc
RbBank400 == RaBank400
RbBank20000 == RaBank20000
RbDirect2000Low == RaDirect2000Low
RbDirect2000Mid == RaDirect2000Mid
RbDirect2000High == RaDirect2000High
RbDirect4000Low == RaDirect4000Low
RbDirect4000Mid == RaDirect4000Mid
RbDirect4000High == RaDirect4000High
RbDirect2000 == RaDirect2000
RbDirect4000 == RaDirect4000

RsTables ==
    [A |-> <<RaStart, RaBanks4000, RaBank8000, RaBank100Row0, RaBank100Row1, RaBank100Row2,
             RaBank10, RaBank80Row0, RaBank80Row1, RaBank80Row2, RaBank80Row3, RaBanks1000, RaBankEc, RaBank400,
             RaBank20000, RaDirect2000Low, RaDirect2000Mid, RaDirect2000High, RaDirect4000Low,
             RaDirect4000Mid, RaDirect4000High, RaDirect2000, RaDirect4000>>,
     B |-> <<RbStart, RbBanks4000, RbBank8000, RbBank100Row0, RbBank100Row1, RbBank100Row2,
             RbBank10, RbBank80Row0, RbBank80Row1, RbBank80Row2, RbBank80Row3, RbBanks1000, RbBankEc, RbBank400,
             RbBank20000, RbDirect2000Low, RbDirect2000Mid, RbDirect2000High, RbDirect4000Low,
             RbDirect4000Mid, RbDirect4000High, RbDirect2000, RbDirect4000>>]

RsInit ==
    /\ rsPath \in {"A", "B"} /\ rsBoard \in RsBoards
    /\ rsPass = "select" /\ rsAt = 1 /\ rsKey = 0 /\ rsWords = 0
    /\ rsLut = [open |-> {}, indexed |-> {}, slip |-> FALSE]

RsSection == RsTables[rsPath][rsAt]

\* The rows of the section that a pass hands to its sink.
RsSelected ==
    LET of(block) == LET out == RtPass(block, rsKey) IN [i \in 1 .. Len(out) |-> block[out[i]]]
    IN  FlattenSeq([b \in 1 .. Len(RsSection) |-> of(RsSection[b])])

RsRefuse == rsPass' = "refused" /\ UNCHANGED <<rsAt, rsKey, rsWords, rsLut>>

\* On to the next section, or to the next pass.
RsAdvance(next) ==
    /\ UNCHANGED <<rsPath, rsBoard, rsKey>>
    /\ IF rsAt < Len(RsTables[rsPath])
       THEN rsAt' = rsAt + 1 /\ UNCHANGED rsPass
       ELSE rsAt' = 1 /\ rsPass' = next

RsChoose ==
    /\ rsPass = "select"
    /\ UNCHANGED <<rsPath, rsBoard>>
    /\ \E keys \in {RtSelect(rsBoard, RsHeads, RsSection[1])} :
          IF keys = {} THEN RsRefuse
          ELSE /\ rsKey' = (CHOOSE k \in keys : TRUE) /\ rsPass' = "check"
               /\ UNCHANGED <<rsAt, rsWords, rsLut>>

\* validateRadioBranches(); no group reaches over the end of a block.
RsCheck ==
    /\ rsPass = "check"
    /\ IF \A b \in 1 .. Len(RsSection) : RtBranchesValid(RsSection[b], rsKey)
       THEN RsAdvance("count") /\ UNCHANGED <<rsWords, rsLut>>
       ELSE RsRefuse /\ UNCHANGED <<rsPath, rsBoard>>

\* The counting pass of prepareRadioFirmware(); the storing pass repeats it.
RsCount ==
    /\ rsPass = "count"
    /\ LET words == rsWords + Len(SelectSeq(RsSelected, LAMBDA r : r[2] = 1))
       IN  IF words <= RsCapacity
           THEN RsAdvance("write") /\ rsWords' = words /\ UNCHANGED rsLut
           ELSE RsRefuse /\ UNCHANGED <<rsPath, rsBoard>>

\* What a row does to the lookup banks of the radio (its class has banks of its own).
RsTake(l, r) ==
    LET mine == {b \in l.open : b[1] = r[2]}
    IN  CASE r[3] = "select" ->
               [open |-> l.open \cup {<<r[2], r[4]>>}, indexed |-> l.indexed \ {r[2]},
                slip |-> l.slip \/ mine \ {<<r[2], r[4]>>} # {}]
          [] r[3] = "close" -> [l EXCEPT !.open = @ \ {<<r[2], r[4]>>}, !.indexed = @ \ {r[2]}]
          [] r[3] = "index" -> [l EXCEPT !.indexed = @ \cup {r[2]}]
          [] r[3] = "data" -> [l EXCEPT !.slip = @ \/ (mine # {} /\ r[2] \notin l.indexed)]
          [] OTHER -> l

RsWrite ==
    /\ rsPass = "write"
    /\ RsAdvance("done")
    /\ LET rows == RsSelected
           after[i \in 0 .. Len(rows)] == IF i = 0 THEN rsLut ELSE RsTake(after[i - 1], rows[i])
       IN  rsLut' = after[Len(rows)]
    /\ UNCHANGED rsWords

\* A cancellation or a failed access, as in RtStops.
RsStops == rsPass = "write" /\ rsPass' = "stopped" /\ UNCHANGED <<rsPath, rsBoard, rsAt, rsKey, rsWords, rsLut>>

RsNext == RsChoose \/ RsCheck \/ RsCount \/ RsWrite \/ RsStops

-----------------------------------------------------------------------------
(* What the table says, read as groups rather than row by row.             *)

\* Better packages have higher ranks: this cut, any cut, a cut of this board, any board.
RtRank(key) ==
    IF key = RtChip THEN 4000
    ELSE IF key = 256 * RtRfe(RtChip) + 255 THEN 3000
    ELSE IF RtRfe(key) = RtRfe(RtChip) THEN 1000 + (key % 256)
    ELSE IF RtRfe(key) = 255 THEN 1 + (key % 256) ELSE 0

RtIsBest(key) ==
    IF rtTable.heads = <<>> THEN key = rtTable.rows[1][2]
    ELSE key \in Range(rtTable.heads) /\ RtRank(key) > 0 /\ \A k \in Range(rtTable.heads) : RtRank(k) <= RtRank(key)

RtLast(ops, i) ==
    LET before == {j \in 1 .. i : rtTable.rows[j][1] \in ops}
    IN  IF before = {} THEN 0 ELSE CHOOSE j \in before : \A l \in before : l <= j

\* A row counts outside the groups, and in the first branch of its group for the key.
RtCounts(i, key) ==
    LET rows == rtTable.rows
        first == RtLast({"if"}, i)
        branch == RtLast({"if", "elif", "else"}, i)
    IN  /\ rows[i][1] = "write"
        /\ \/ first <= RtLast({"end"}, i)
           \/ /\ rows[branch] \in {<<"if", key>>, <<"elif", key>>}
              /\ \A j \in first .. branch - 1 : rows[j] \notin {<<"if", key>>, <<"elif", key>>}

RtReference(class, key) ==
    SelectSeq([i \in 1 .. Len(rtTable.rows) |-> i], LAMBDA i : rtTable.rows[i][2] = class /\ RtCounts(i, key))

\* Everything the hardware has been given, at any moment of the walk and after
\* any failure, is a beginning of what the table says for the best package the
\* board has; nothing is repeated, lost on the port, or taken from another
\* package (the walk of applyRadioTable against the group structure).
RtOnlySelected ==
    LET port == IF rtPort = 0 THEN rtAnalog ELSE Append(rtAnalog, rtPort)
    IN  (port # <<>> \/ rtDirect # <<>>) =>
           /\ RtIsBest(rtWalk.chosen)
           /\ IsPrefix(port, RtReference(0, rtWalk.chosen)) /\ IsPrefix(rtDirect, RtReference(1, rtWalk.chosen))

\* The firmware gets its pages only when the radio holds every selected row,
\* the last write on the port included, and the pages together are exactly the
\* direct rows, none dropped where a page ends.
RtPagesWhole ==
    rtPhase = "done" =>
        /\ rtAnalog = RtReference(0, rtWalk.chosen) /\ rtDirect = RtReference(1, rtWalk.chosen)
        /\ FoldLeft(LAMBDA a, b : a \o b, <<>>, rtPages) = rtDirect

\* The shipped tables serve every board whose RFE they name, whatever its cut, and
\* no other: they are accepted and their words fit the pages; and what the board
\* is given never writes an entry without its index, never has two lookup banks of
\* a kind selected, and leaves none selected for whoever writes the next entry
\* (radioARegisters and radioBRegisters under applyRadioTable and the collector).
RsShippedServes ==
    LET known == \E i \in 1 .. Len(RsHeads) : RtRfe(RsHeads[i]) = RtRfe(rsBoard)
    IN  /\ rsPass = "refused" => ~known
        /\ rsPass \notin {"select", "refused"} => known /\ RtRfe(rsKey) = RtRfe(rsBoard)
        /\ ~rsLut.slip
        /\ rsPass = "done" => rsLut.open = {}
=============================================================================
