------------------------------- MODULE Journals -------------------------------
(***************************************************************************)
(* How the bridge reads a harness's journal, a file of one record a line   *)
(* (codex-, pi- and omp-session-history.js): whole, from its beginning, or *)
(* one page after the other, from its end, while the harness goes on       *)
(* writing it.                                                             *)
(*                                                                         *)
(* Codex's journal is one conversation, and its messages have the offsets  *)
(* of their lines for ids.  The records of PI and OMP are a tree: each     *)
(* names its parent, which was written before it, and what is shown is the *)
(* branch that ends at the record written last.  A byte is a line break,   *)
(* the first byte of a message, or another one; a record is its id, its    *)
(* parent's and whether it is shown.  What a record says and the model a   *)
(* page reports are left out.                                              *)
(***************************************************************************)
EXTENDS Integers, Sequences, FiniteSets, SequencesExt

(* The elements of s that are in S, in their order. *)
Kept(s, S) ==
    LET kept[i \in 0..Len(s)] ==
            IF i = 0 THEN <<>> ELSE IF s[i] \in S THEN Append(kept[i - 1], s[i]) ELSE kept[i - 1]
    IN kept

Those(s, S) == Kept(s, S)[Len(s)]

-----------------------------------------------------------------------------
(* Lines of a file, as [text, offset]; a file is read a chunk at a time. *)

Break == "break"
First == "first"
Bytes == {Break, First, "other"}
Lines == [text : Seq(Bytes), offset : Nat]

UpTo(data, i) == SubSeq(data, 1, i)

(* The lines of data, which starts at offset at: one byte after the other. *)
Split(data, at) ==
    LET split[i \in 0..Len(data)] ==
            IF i = 0 THEN <<[text |-> <<>>, offset |-> at]>>
            ELSE IF data[i] = Break THEN Append(split[i - 1], [text |-> <<>>, offset |-> at + i])
            ELSE Append(Front(split[i - 1]),
                        [text |-> Append(Last(split[i - 1]).text, data[i]), offset |-> Last(split[i - 1]).offset])
    IN split

LinesOf(data, at) == Split(data, at)[Len(data)]

(* The lines that begin after a break of data.  What is before the first   *)
(* break is carried over to the chunk before: the beginning of a line, or  *)
(* nothing when a chunk begins with a break.                               *)
LinesAfterBreaks(data, at) == Tail(LinesOf(data, at))
Carried(data) == Head(LinesOf(data, 0)).text

(* Slip: what was carried over is taken to precede the chunk. *)
CarriedInFront(file, cursor, carry, chunk) ==
    carry \o SubSeq(file, (IF cursor > chunk THEN cursor - chunk ELSE 0) + 1, cursor)

(* What is looked at once the chunk before cursor was read. *)
Data(file, cursor, carry, chunk) ==
    SubSeq(file, (IF cursor > chunk THEN cursor - chunk ELSE 0) + 1, cursor) \o carry

(* The lines that begin before a place, the last one first; a place is a   *)
(* cursor and what was carried over to it.                                 *)
Backward(file, chunk) ==
    LET read[at \in (0..Len(file)) \X Seq(Bytes)] ==
            LET start == IF at[1] > chunk THEN at[1] - chunk ELSE 0
                data == Data(file, at[1], at[2], chunk)
            IN IF at[1] = 0 THEN <<>>
               ELSE Reverse(LinesAfterBreaks(data, start))
                    \o IF start = 0 THEN <<[text |-> Carried(data), offset |-> 0]>>
                       ELSE read[<<start, Carried(data)>>]
    IN read

ReadBack(file, cursor, chunk) == Backward(file, chunk)[<<cursor, <<>>>>]

(* The lines from a place on; a place is what was read of the file, the    *)
(* beginning of a line whose break was not read yet, and its offset.       *)
Forward(file, chunk) ==
    LET read[at \in Nat \X Seq(Bytes) \X Nat] ==
            LET end == IF at[1] + chunk < Len(file) THEN at[1] + chunk ELSE Len(file)
                lines == LinesOf(at[2] \o SubSeq(file, at[1] + 1, end), at[3])
            IN IF at[1] >= Len(file) THEN <<[text |-> at[2], offset |-> at[3]]>>
               ELSE Front(lines) \o read[<<end, Last(lines).text, Last(lines).offset>>]
    IN read

ReadOn(file, chunk) == Forward(file, chunk)[<<0, <<>>, 0>>]

MessageLines == {line \in Lines : line.text # <<>> /\ line.text[1] = First}

(* loadCodexHistory *)
CodexMessages(file, chunk) == Those(ReadOn(file, chunk), MessageLines)

(* readCodexPage: one message more than asked for is looked for, and the   *)
(* offset of the last one taken is where the next page ends.               *)
CodexPage(file, before, limit, chunk) ==
    LET found == Those(ReadBack(file, before, chunk), MessageLines)
    IN IF Len(found) <= limit THEN [messages |-> Reverse(found), more |-> FALSE, before |-> 0]
       ELSE [messages |-> Reverse(UpTo(found, limit)), more |-> TRUE, before |-> found[limit].offset]

CodexPages(file, limit, chunk) ==
    LET pages[before \in 0..Len(file)] ==
            LET page == CodexPage(file, before, limit, chunk)
            IN (IF page.more THEN pages[page.before] ELSE <<>>) \o page.messages
    IN pages

-----------------------------------------------------------------------------
(* PI's journal: records in the order of their lines.  Id 0 is of a line   *)
(* that cannot be read, parent 0 of the first record of a Session.         *)

ShownOf(records, branch) == Those(branch, {k \in DOMAIN records : records[k].shown})
Numbered(records) == {k \in DOMAIN records : records[k].id # 0}
WrittenLast(ks) == IF ks = {} THEN 0 ELSE CHOOSE k \in ks : \A j \in ks : j <= k
Leaf(records) == IF Numbered(records) = {} THEN 0 ELSE records[WrittenLast(Numbered(records))].id
WithId(records, id) == WrittenLast({k \in Numbered(records) : records[k].id = id})

(* From a record to its parent, by the ids. *)
Paths(records) ==
    LET path[k \in 0..Len(records)] ==
            IF k = 0 THEN <<>> ELSE Append(path[WithId(records, records[k].parent)], k)
    IN path

BranchTo(records, leaf) == Paths(records)[WithId(records, leaf)]

(* loadPiHistory *)
PiMessagesOf(records) == ShownOf(records, BranchTo(records, Leaf(records)))

(* Slip: a record that is not shown does not lead on to its parent. *)
OnlyShownLeadOn(records) ==
    LET walk[at \in (0..Len(records)) \X Nat] ==
            IF at[1] = 0 \/ at[2] = 0 THEN <<>>
            ELSE IF records[at[1]].id = at[2]
                 THEN <<at[1]>> \o walk[<<at[1] - 1, IF records[at[1]].shown THEN records[at[1]].parent ELSE at[2]>>]
            ELSE walk[<<at[1] - 1, at[2]>>]
    IN walk

(* Backwards over the lines, past those of other branches: at a line, and  *)
(* looking for an id.                                                      *)
WalkBack(records) ==
    LET walk[at \in (0..Len(records)) \X Nat] ==
            IF at[1] = 0 \/ at[2] = 0 THEN <<>>
            ELSE IF records[at[1]].id = at[2] THEN <<at[1]>> \o walk[<<at[1] - 1, records[at[1]].parent>>]
            ELSE walk[<<at[1] - 1, at[2]>>]
    IN walk

NewestPage == [lines |-> 0, target |-> 0]

(* readPiPage: a cursor is the line of the last record taken, and the id   *)
(* its parent has, which the next page must find.                          *)
PiPage(records, before, limit) ==
    LET branch == IF before = NewestPage THEN WalkBack(records)[<<Len(records), Leaf(records)>>]
                  ELSE WalkBack(records)[<<before.lines, before.target>>]
        found == ShownOf(records, branch)
    IN IF Len(found) <= limit
       THEN [messages |-> Reverse(found), more |-> FALSE, before |-> NewestPage,
             valid |-> before = NewestPage \/ branch # <<>>]
       ELSE [messages |-> Reverse(UpTo(found, limit)), more |-> TRUE, valid |-> TRUE,
             before |-> [lines |-> found[limit] - 1, target |-> records[found[limit]].parent]]

PiPages(records, limit) ==
    LET pages[before \in [lines : 0..Len(records), target : Nat]] ==
            LET page == PiPage(records, before, limit)
            IN (IF ~page.valid THEN <<"Invalid PI history cursor">>
                ELSE IF page.more THEN pages[page.before] ELSE <<>>) \o page.messages
    IN pages

-----------------------------------------------------------------------------
(* OMP's journal.  One of the first version has no ids: its records become *)
(* a list, with ids by their position among the lines that can be read.    *)

ReadableOf(lines) == Those(lines, {lines[k] : k \in {j \in DOMAIN lines : lines[j].readable}})

(* Slip: positions are counted from the end. *)
PositionsFromTheEnd(lines) ==
    LET entries == ReadableOf(lines)
    IN IF \E k \in DOMAIN entries : entries[k].id # 0 THEN entries
       ELSE [k \in DOMAIN entries |-> [entries[k] EXCEPT !.id = Len(entries) + 1 - k,
                                                         !.parent = IF k = 1 THEN 0 ELSE Len(entries) + 2 - k]]

(* readJournal *)
Entries(lines) ==
    LET entries == ReadableOf(lines)
    IN IF \E k \in DOMAIN entries : entries[k].id # 0 THEN entries
       ELSE [k \in DOMAIN entries |-> [entries[k] EXCEPT !.id = k, !.parent = k - 1]]

NoLeaf == 0

(* resolveBranch: the leaf OMP's extension published, if the journal still *)
(* has it, the last record otherwise.                                      *)
OmpBranch(entries, activeLeaf) ==
    BranchTo(entries, IF WithId(entries, activeLeaf) # 0 THEN activeLeaf
                      ELSE IF entries = <<>> THEN NoLeaf ELSE Last(entries).id)

IdsShown(lines, activeLeaf) ==
    LET entries == Entries(lines)
        shown == ShownOf(entries, OmpBranch(entries, activeLeaf))
    IN [i \in DOMAIN shown |-> entries[shown[i]].id]

(* The messages before a cursor; one that names no message on the branch   *)
(* stands for none.                                                        *)
PageBefore(ids, before, limit) ==
    LET at == {i \in DOMAIN ids : ids[i] = before}
        end == IF at = {} THEN Len(ids) ELSE (CHOOSE i \in at : TRUE) - 1
        start == IF end > limit THEN end - limit ELSE 0
    IN [messages |-> SubSeq(ids, start + 1, end), more |-> start > 0,
        before |-> IF start > 0 THEN ids[start + 1] ELSE 0]

(* loadOmpHistory.page: the journal is read anew. *)
OmpPage(lines, activeLeaf, before, limit) == PageBefore(IdsShown(lines, activeLeaf), before, limit)

OmpPages(lines, activeLeaf, limit) ==
    LET pages[before \in Nat] ==
            LET page == OmpPage(lines, activeLeaf, before, limit)
            IN (IF page.more THEN pages[page.before] ELSE <<>>) \o page.messages
    IN pages

(* branchMessages: a tool call is shown with its message, and its result,  *)
(* a record of its own, is joined to it by the call's id.                  *)

(* Slip: a result goes to the first call that had its id. *)
ToTheFirstCall(parts, record, k) ==
    IF record.call \in DOMAIN parts THEN parts
    ELSE [c \in DOMAIN parts \cup {record.call} |-> IF c = record.call THEN k ELSE parts[c]]

(* toolParts.set *)
Remember(parts, record, k) ==
    [c \in DOMAIN parts \cup {record.call} |-> IF c = record.call THEN k ELSE parts[c]]

Joined(branch) ==
    LET seen[n \in 0..Len(branch)] ==
            IF n = 0 THEN [parts |-> <<>>, status |-> <<>>]
            ELSE LET record == branch[n]
                     parts == seen[n - 1].parts
                     status == seen[n - 1].status
                 IN IF record.kind = "call"
                    THEN [parts |-> Remember(parts, record, n), status |-> Append(status, "incomplete")]
                    ELSE [parts |-> parts,
                          status |-> Append([k \in DOMAIN status |->
                                               IF record.call \in DOMAIN parts /\ k = parts[record.call]
                                               THEN record.kind ELSE status[k]], "none")]
    IN seen

ToolStatus(branch) == Joined(branch)[Len(branch)].status

-----------------------------------------------------------------------------
(* Bounded inputs. *)

Files == UNION {[1..n -> Bytes] : n \in 0..6}
ChunkSizes == 1..3
Limits == 1..2

Records(k) == [id : {k}, parent : 0..(k - 1), shown : BOOLEAN, readable : {TRUE}]
Unreadable == [id |-> 0, parent |-> 0, shown |-> FALSE, readable |-> FALSE]
Unnumbered == [id : {0}, parent : {0}, shown : BOOLEAN, readable : BOOLEAN]

Trees[n \in Nat] ==
    IF n = 0 THEN {<<>>}
    ELSE {Append(s, r) : s \in Trees[n - 1], r \in Records(n) \cup {Unreadable}}
Journals == UNION {Trees[n] : n \in 0..4}
FirstVersion == UNION {[1..n -> Unnumbered] : n \in 0..4}

Results == [kind : {"call", "completed", "error"}, call : {"c", "d"}]
Branches == UNION {[1..n -> Results] : n \in 0..4}

-----------------------------------------------------------------------------
(* The pages of a Codex rollout, read with any chunk, are the messages of  *)
(* the rollout read whole with any other, under the same ids.              *)
RolloutPagesAreTheFile ==
    \A file \in Files :
        LET whole == CodexMessages(file, 1)
        IN \A chunk \in ChunkSizes :
              /\ CodexMessages(file, chunk) = whole
              /\ \A limit \in Limits : CodexPages(file, limit, chunk)[Len(file)] = whole

(* PI's pages are the branch that was shown when the first was read.  What *)
(* PI appends in between lies behind every cursor.                         *)
PiPagesAreTheBranch ==
    \A records \in Journals, limit \in Limits :
        PiPages(records, limit)[NewestPage] = PiMessagesOf(records)

(* After more was written, and on whatever branch, OMP's older pages go on *)
(* where the page before ended, as long as its oldest message is shown.    *)
OmpPagesContinue ==
    \A lines \in Journals \cup FirstVersion, limit \in Limits :
        \A n \in 0..Len(lines), leaf \in {NoLeaf} \cup {lines[k].id : k \in DOMAIN lines} :
            LET before == UpTo(lines, n)
                page == OmpPage(before, NoLeaf, 0, limit)
            IN (page.more /\ page.before \in ToSet(IdsShown(lines, leaf)))
                 => OmpPages(lines, leaf, limit)[page.before] \o page.messages = IdsShown(before, NoLeaf)

(* A tool call has the status of the last result that names it, up to the  *)
(* next call that takes the same id.                                       *)
ResultsJoinTheirCalls ==
    \A branch \in Branches : \A k \in DOMAIN branch : branch[k].kind = "call" =>
        LET again == {i \in (k + 1)..Len(branch) : branch[i] = branch[k]}
            own == {i \in (k + 1)..Len(branch) :
                       branch[i].call = branch[k].call /\ \A j \in again : i < j}
        IN ToolStatus(branch)[k] = IF own = {} THEN "incomplete" ELSE branch[WrittenLast(own)].kind

=============================================================================
