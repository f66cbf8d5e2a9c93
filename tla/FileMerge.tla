---------------------------- MODULE FileMerge ----------------------------
(***************************************************************************)
(* The three merges that turn collected files into the ones the loaders    *)
(* read: scripts/merge_monitoring.py, scripts/merge_latency_daily.py and   *)
(* scripts/merge_billing.py.  Each is a function of the files on disk; it  *)
(* returns Stop where the script leaves without (all of) its output.       *)
(* Texts are small values: what matters is which are equal.  A value that  *)
(* may be missing is a set, {} for a missing one.                          *)
(***************************************************************************)
EXTENDS Integers, Sequences, FiniteSets, SequencesExt
CONSTANT Stop    \* what a script that stops leaves

Total(s) == FoldLeft(LAMBDA a, x : a + x, 0, s)

(***************************************************************************)
(* Folders of pulls.  A name is a day and a tail; only the tail that       *)
(* the production pull gives its folders is read unless folders are named. *)
(***************************************************************************)
PullDir(dir) == dir.tail = "1m"

\* Names in reverse: of one day, a longer name before the production pull's.
NewestFirst(d, e) ==
  \/ d.day > e.day
  \/ d.day = e.day /\ ~PullDir(d) /\ PullDir(e)

SelectBatches(dirs, names) == IF names # {} THEN names ELSE {d \in dirs : PullDir(d)}

(***************************************************************************)
(* merge_monitoring.  A file is [cols, lines], a line [key, num, form]:    *)
(* all columns but the value, the number in the value column and the way   *)
(* it is written.  A held line remembers where it stands, and the text the *)
(* newest pull gave for its key.                                           *)
(***************************************************************************)
Text(line) == <<line.num, line.form>>

\* Variant: the newest pull is right, larger or not.
ReadLine_Newest(found, line) ==
  IF line.key \in DOMAIN found.best THEN [found EXCEPT !.duplicates = @ + 1]
  ELSE [found EXCEPT !.best = (line.key :> [line EXCEPT !.newest = line.num]) @@ @]

ReadLine(found, line) ==
  LET k == line.key
      known == k \in DOMAIN found.best
      cur == found.best[k]
      larger == line.num > cur.num
      clash == [key |-> k, was |-> cur.num, new |-> line.num,
                kept |-> IF larger THEN line.num ELSE cur.num, newest |-> cur.newest]
  IN IF ~known
     THEN [found EXCEPT !.best = (k :> [line EXCEPT !.newest = line.num]) @@ @]
     ELSE IF Text(cur) = Text(line) THEN [found EXCEPT !.duplicates = @ + 1]
     ELSE [found EXCEPT !.duplicates = @ + 1, !.clashes = Append(@, clash),
             !.best = IF larger THEN [@ EXCEPT ![k] = [line EXCEPT !.newest = cur.newest]] ELSE @]

\* The lines of some files in reading order, each with its place.
Reading(files) ==
  FlattenSeq([i \in DOMAIN files |->
    [j \in DOMAIN files[i].lines |->
       [key |-> files[i].lines[j].key, num |-> files[i].lines[j].num,
        form |-> files[i].lines[j].form, newest |-> 0, place |-> <<i, j>>]]])

MergeProject(files) ==
  LET all == Reading(files)
      found == FoldLeft(ReadLine, [best |-> <<>>, duplicates |-> 0, clashes |-> <<>>], all)
      wins(line) == found.best[line.key].place = line.place
  IN [lines |-> SelectSeq(all, wins), duplicates |-> found.duplicates, clashes |-> found.clashes]

\* disk: folder -> (project -> file).  The first file of another shape stops everything.
MergeMonitoring(disk, names) ==
  LET chosen == SelectBatches(DOMAIN disk, names)
      pulls == SetToSortSeq(chosen, NewestFirst)
      projects == UNION {DOMAIN disk[d] : d \in chosen}
      filesOf(p) == LET having == SelectSeq(pulls, LAMBDA d : p \in DOMAIN disk[d])
                    IN [i \in DOMAIN having |-> disk[having[i]][p]]
      oneShape(p) == \A i \in DOMAIN filesOf(p) : filesOf(p)[i].cols = filesOf(p)[1].cols
  IN IF chosen = {} \/ ~(chosen \subseteq DOMAIN disk) THEN Stop
     ELSE IF \E p \in projects : ~oneShape(p) THEN Stop
     ELSE [p \in projects |-> MergeProject(filesOf(p))]

(***************************************************************************)
(* merge_latency_daily.  A point is [key, day, project, count, buckets,    *)
(* options]: count is {} in a minute without calls, buckets lack their     *)
(* trailing zeros, options is <<scale, growth, finite buckets>>.           *)
(***************************************************************************)
BucketCount(options) == options[3] + 2

BucketBounds(options) == [i \in 1 .. options[3] + 1 |-> options[1] * options[2] ^ (i - 1)]

PadZeros(counts, want) ==
  IF Len(counts) > want THEN Stop ELSE counts \o [i \in 1 .. want - Len(counts) |-> 0]

(***************************************************************************)
(* Where q percent of the samples end: the bucket, its ends and how far    *)
(* into it, part out of whole.  The last bucket has no upper end.          *)
(***************************************************************************)
PercentileFromHistogram(counts, bounds, q) ==
  LET total == Total(counts)
      before(i) == Total(SubSeq(counts, 1, i - 1))
      reaches(i) == counts[i] > 0 /\ 100 * (before(i) + counts[i]) >= q * total
      b == CHOOSE i \in DOMAIN counts : reaches(i) /\ \A j \in 1 .. i - 1 : ~reaches(j)
  IN IF total = 0 THEN {}
     ELSE IF b > Len(bounds)
          THEN {[bucket |-> b, lo |-> bounds[Len(bounds)], hi |-> {}, part |-> 0, whole |-> 1]}
     ELSE {[bucket |-> b, lo |-> IF b = 1 THEN 0 ELSE bounds[b - 1], hi |-> {bounds[b]},
            part |-> q * total - 100 * before(b), whole |-> 100 * counts[b]]}

ReadPoint(found, p) ==
  LET counted == p.count # {} /\ p.buckets # {}
      n == CHOOSE x \in p.count : TRUE
      known == p.key \in DOMAIN found.best
      cur == found.best[p.key]
      held == p.key :> [p EXCEPT !.count = n]
  IN IF found.stopped \/ ~counted THEN found
     ELSE IF found.options \notin {{}, {p.options}} THEN [found EXCEPT !.stopped = TRUE]
     ELSE IF ~known THEN [found EXCEPT !.options = {p.options}, !.best = held @@ @]
     ELSE [found EXCEPT !.duplicates = @ + 1,
             !.clashes = IF cur.count = n THEN @
                         ELSE Append(@, [key |-> p.key, was |-> cur.count, new |-> n]),
             !.best = IF n > cur.count THEN held @@ @ ELSE @]

\* disk: folder -> sequence of points; pulls: the folders to read, newest first.
ReadBatch(disk, pulls) ==
  FoldLeft(ReadPoint, [best |-> <<>>, options |-> {}, stopped |-> FALSE,
                       duplicates |-> 0, clashes |-> <<>>],
           FlattenSeq([i \in DOMAIN pulls |-> disk[pulls[i]]]))

MergeLatency(disk, byMethod) ==
  LET pulls == SetToSortSeq({d \in DOMAIN disk : PullDir(d)}, NewestFirst)
      found == ReadBatch(disk, pulls)
      options == CHOOSE o \in found.options : TRUE
      want == BucketCount(options)
      points == {found.best[k] : k \in DOMAIN found.best}
      counts(p) == CHOOSE b \in p.buckets : TRUE
      rowOf(p) == IF byMethod THEN <<p.day, p.project, p.method>> ELSE <<p.day, p.project>>
      tooLong == \E p \in points : PadZeros(counts(p), want) = Stop
      sum(r) == [i \in 1 .. want |->
                   Total([j \in DOMAIN SetToSeq(points) |->
                     LET p == SetToSeq(points)[j] IN IF rowOf(p) = r THEN PadZeros(counts(p), want)[i] ELSE 0])]
  IN IF pulls = <<>> \/ found.stopped \/ found.options = {} THEN Stop
     ELSE IF tooLong THEN Stop
     ELSE [r \in {rowOf(p) : p \in points} |->
             LET h == sum(r) IN
             [counts |-> h, samples |-> Total(h),
              p |-> [q \in {50, 95, 99} |-> PercentileFromHistogram(h, BucketBounds(options), q)]]]

(***************************************************************************)
(* merge_billing.  Money is counted in mills; a console export holds       *)
(* rows [day, sku, words, quantity, cost, list, commit, other, invoiced],  *)
(* its name ends in the display name of a project ({} without a comma).    *)
(***************************************************************************)
HalfUp(x) == IF x < 0 THEN -((5 - x) \div 10) ELSE (x + 5) \div 10

\* Cached before output before input: a name may say all three.
GuessKind(words) ==
  CASE "cached" \in words -> {"cached"}
    [] "cached" \notin words /\ "output" \in words -> {"output"}
    [] words \cap {"cached", "output"} = {} /\ "input" \in words -> {"input"}
    [] OTHER -> {}

\* A price in whole cents is what the sheet gives for all but the cost itself.
Discounted(d) == d.commit # 0 \/ d.other # 0

CheckTier1(d) ==
  /\ HalfUp(d.list - d.commit - d.other) * 10 = d.invoiced
  /\ ~Discounted(d) => d.list = HalfUp(d.cost) * 10
  /\ HalfUp(d.cost) * 10 = d.invoiced

CostOf(rows) == Total([i \in DOMAIN rows |-> rows[i].cost])

\* Every file against the rows the result has for its project.
CheckTier2(files, projectOf, records) ==
  \A f \in DOMAIN files :
    LET mine == SelectSeq(records, LAMBDA d : d.project = projectOf[f])
    IN Len(mine) = Len(files[f]) /\ CostOf(mine) = CostOf(files[f])

RowBefore(records, i, j) ==
  LET d == records[i]
      e == records[j]
  IN \/ d.project < e.project
     \/ d.project = e.project /\ d.day < e.day
     \/ d.project = e.project /\ d.day = e.day /\ d.sku < e.sku
     \/ d.project = e.project /\ d.day = e.day /\ d.sku = e.sku /\ i < j

SortRecords(records) ==
  LET order == SetToSortSeq(DOMAIN records, LAMBDA i, j : RowBefore(records, i, j))
  IN [i \in DOMAIN order |-> records[order[i]]]

\* Every project id of the map is an agent's.
MapKnown(map, agents) == {map[n] : n \in DOMAIN map} \subseteq agents

\* There are files, and the name of each is in the map.
FilesNamed(files, map) == DOMAIN files # {} /\ DOMAIN files \subseteq DOMAIN map

ReadFile(rows, project) ==
  [i \in DOMAIN rows |-> [project |-> project, kind |-> GuessKind(rows[i].words)] @@ rows[i]]

\* files: display name -> rows; map: display name -> project; agents: projects known.
MergeBilling(files, map, agents) ==
  LET names == SetToSortSeq(DOMAIN files, LAMBDA f, g : f < g)
      records == FlattenSeq([i \in DOMAIN names |-> ReadFile(files[names[i]], map[names[i]])])
  IN IF ~MapKnown(map, agents) \/ ~FilesNamed(files, map) THEN Stop
     ELSE IF records = <<>> \/ \E i \in DOMAIN records : records[i].kind = {} THEN Stop
     ELSE IF \E i \in DOMAIN records : ~CheckTier1(records[i]) THEN Stop
     ELSE IF ~CheckTier2(files, map, records) THEN Stop
     ELSE SortRecords(records)
==========================================================================
