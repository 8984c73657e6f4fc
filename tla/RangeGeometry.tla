---------------------------- MODULE RangeGeometry ----------------------------
(***************************************************************************)
(* The owner of the exact geometry of one source (src/src/range_geometry/  *)
(* exact/): the job that scans, the target that waits for an index, the    *)
(* index, the target that is complete, and the answers of the host to the  *)
(* pages a job asks for.  The scanner is GeometryScan.                     *)
(*                                                                         *)
(* An index job scans the whole source and keeps checkpoints; a target job *)
(* scans from the last checkpoint before the lines it is for, and ends     *)
(* when they are laid out and its anchor is reached.  The end of an index  *)
(* job starts the target job the widget names with the answer.             *)
(***************************************************************************)
EXTENDS GeometryScan

CONSTANTS
  Sources,       \* the sources the owner is bound to, one after another
  PageBytes,     \* ExactGeometryLimits::max_page_bytes
  Goals,         \* BlockTarget: the line the screen begins with, lines of it, lines around it
  Anchors,       \* the positions a target may have to reach
  MaxJobs,       \* BOUND: job identities, one more for the target that follows an index
  MaxChanges     \* BOUND: replacements of the inputs

ASSUME OwnerAssumption ==
  /\ \A S \in Range(Sources) :
       /\ \A k \in DOMAIN S.text : S.text[k] \in Kinds
       /\ \A i \in DOMAIN S.atoms : S.atoms[i].lo < S.atoms[i].hi /\ S.atoms[i].hi <= Extent(S)
       /\ \A i, k \in DOMAIN S.atoms : i < k => S.atoms[i].hi <= S.atoms[k].lo
       /\ \A i, k \in DOMAIN S.objects : i < k => S.objects[i] <= S.objects[k]
       /\ \A i \in DOMAIN S.objects :
            /\ S.objects[i] <= Extent(S)
            /\ \A k \in DOMAIN S.atoms : ~(S.atoms[k].lo < S.objects[i] /\ S.objects[i] < S.atoms[k].hi)
  /\ PageBytes \in Nat \ {0} /\ MaxJobs \in Nat /\ MaxChanges \in Nat
  /\ Goals \subseteq [block : Nat, view : Nat \ {0}, over : Nat]

VARIABLES
  source,      \* OwnerInputs: which of Sources
  changes,     \* replacements of the inputs so far
  active,      \* active: none, or the job that scans
  desired,     \* desired_target: none, or the target that waits for an index
  index,       \* index: none, or the complete index
  target,      \* target: none, or the complete target
  view,        \* the checkpoint of the target on the screen: SurfaceTarget of the widget
  jobs,        \* highest_job
  released     \* the ExactGeometryRelease of the last step: jobs, and the request

vars == <<source, changes, active, desired, index, target, view, jobs, released>>

Src == Sources[source]

-----------------------------------------------------------------------------
(* Jobs and targets.                                                       *)

Nothing == [jobs |-> {}, request |-> "None"]
NoGoal == [block |-> 0, view |-> 1, over |-> 0]

\* ActiveJob.  at is ActivePageUse::Traverse, need ActivePageUse::Context; page is
\* text_page; asked is the anchor the target began with (history).
Job(id, kind, goal, anchor, checkpoint, pending) ==
  Scanner(checkpoint) @@
    [id |-> id, kind |-> kind, goal |-> goal, anchor |-> anchor, asked |-> anchor,
     pred |-> checkpoint, at |-> checkpoint.source.at, page |-> {}, pending |-> pending]

IndexJob(id, pending) ==
  [Job(id, "Index", NoGoal, {}, Origin, pending) EXCEPT !.checkpoints = <<Origin>>]

\* The identities the owner holds.
Held == UNION {{h.id : h \in active}, {h.id : h \in desired}, {h.id : h \in index}, {h.id : h \in target}}

\* consumed_page_release, consumed_object_release, and the release of a job with its request.
Answered(job) == [Nothing EXCEPT !.request = job.pending]
Retired(job) == [jobs |-> {job.id}, request |-> job.pending]

\* The release of every job, as preview_release_all and release_all.
RetiredAll ==
  [jobs |-> Held, request |-> IF active = {} THEN "None" ELSE (CHOOSE a \in active : TRUE).pending]

\* MUTANT of RetiredTargets: the target that waits is not named.
RetiredScans(retires) ==
  LET scans == {a \in active : retires \/ a.kind = "Target"}
  IN  [jobs |-> {h.id : h \in scans \cup target},
       request |-> IF scans = {} THEN "None" ELSE (CHOOSE a \in scans : TRUE).pending]

\* preview_target_replacement_release: the target jobs, of an index job only if retires.
RetiredTargets(retires) ==
  LET scans == {a \in active : retires \/ a.kind = "Target"}
  IN  [jobs |-> {h.id : h \in scans \cup desired \cup target},
       request |-> IF scans = {} THEN "None" ELSE (CHOOSE a \in scans : TRUE).pending]

\* MUTANT of Eligibly: a checkpoint inside the first line is as good.
EligiblyInLine(S, checkpoint, first, goal, anchor) ==
  first \/ (checkpoint.block <= goal.block /\ \A a \in anchor : Leads(checkpoint.source, a))

\* target_predecessor_is_eligible
Eligibly(S, checkpoint, first, goal, anchor) ==
  /\ first \/ checkpoint.block + 1 <= Lead(goal)
  /\ \A a \in anchor :
       /\ Leads(checkpoint.source, a)
       /\ checkpoint.source = a =>
            /\ a.gap[1] = Null
            /\ Extent(S) = 0 \/ a.at < Extent(S)

\* select_target_predecessor: the last of them.
Predecessor(S, checkpoints, goal, anchor) ==
  LET able == {i \in DOMAIN checkpoints : Eligibly(S, checkpoints[i], i = 1, goal, anchor)}
  IN  checkpoints[Max(able)]

\* prepare_target_replacement_from_checkpoint: there is nothing behind the checkpoint.
AtOnce(S, checkpoint, anchor) ==
  checkpoint.source.at = Extent(S) /\ \A a \in anchor : a.gap = NoGap

\* BlockTargetPublication
Published(id, goal, asked, pred, from, cont, kept) ==
  [id |-> id, goal |-> goal, asked |-> asked, pred |-> pred, from |-> from, cont |-> cont, kept |-> kept]

Empty(id, goal, anchor, pred) ==
  Published(id, goal, anchor, pred, pred.source,
            [at |-> pred.source, block |-> pred.block, ordinal |-> pred.ordinal], {})

\* commit_prepared_transition of a target from a checkpoint.
Retarget(S, id, goal, anchor, checkpoint, pending) ==
  /\ active' = IF AtOnce(S, checkpoint, anchor) THEN {}
               ELSE {Job(id, "Target", goal, anchor, checkpoint, pending)}
  /\ target' = IF AtOnce(S, checkpoint, anchor) THEN {Empty(id, goal, anchor, checkpoint)} ELSE {}
  /\ desired' = {}

\* A position of a source is between its objects, or away from them.
IsPlace(S, p) ==
  LET here == {o \in DOMAIN S.objects : S.objects[o] = p.at}
      objects == {p.gap[1], p.gap[2]} \ {Null}
  IN  /\ p.at <= Extent(S) /\ objects \subseteq here
      /\ objects = {} => here = {}
      /\ objects # {} /\ p.gap[1] = Null => p.gap[2] = Min(here)
      /\ objects # {} /\ p.gap[2] = Null => p.gap[1] = Max(here)
      /\ Cardinality(objects) = 2 => p.gap[2] = p.gap[1] + 1

AnchorsOf(S) == {{}} \cup {{p} : p \in {q \in Anchors : IsPlace(S, q)}}

SameInputs == UNCHANGED <<source, changes>>

-----------------------------------------------------------------------------
(* The widget's calls.                                                     *)

\* new; the widget starts an index at once.
Init ==
  /\ source \in DOMAIN Sources
  /\ changes = 0 /\ jobs = 0 /\ released = Nothing
  /\ active = {} /\ desired = {} /\ index = {} /\ target = {} /\ view = {}

\* prepare_initial_index and commit_initial_index.  An index job needs an identity left
\* for the target that follows it.
InitialIndex ==
  /\ active = {}
  /\ jobs + 2 <= MaxJobs
  /\ jobs' = jobs + 1
  /\ active' = {IndexJob(jobs + 1, "None")}
  /\ released' = Nothing
  /\ SameInputs /\ UNCHANGED <<desired, index, target, view>>

\* prepare_start_index and its commit: what waits and what is complete goes, unnamed.
StartIndex ==
  /\ active = {}
  /\ jobs + 2 <= MaxJobs
  /\ jobs' = jobs + 1
  /\ active' = {IndexJob(jobs + 1, "Text")}
  /\ desired' = {} /\ target' = {}
  /\ released' = Nothing
  /\ SameInputs /\ UNCHANGED <<index, view>>

\* prepare_target_replacement and its commit: without an index, or while one is made,
\* the target waits.
ReplaceTarget ==
  \E goal \in Goals, anchor \in AnchorsOf(Src) :
    LET indexing == index = {} \/ \E a \in active : a.kind = "Index"
    IN  /\ jobs < MaxJobs
        /\ jobs' = jobs + 1
        /\ released' = RetiredTargets(FALSE)
        /\ \/ /\ indexing
              /\ desired' = {[id |-> jobs + 1, goal |-> goal, anchor |-> anchor]}
              /\ active' = {a \in active : a.kind = "Index"}
              /\ target' = {}
           \/ /\ ~indexing
              /\ \E i \in index : Retarget(Src, jobs + 1, goal, anchor,
                                           Predecessor(Src, i.checkpoints, goal, anchor), "Text")
        /\ SameInputs /\ UNCHANGED <<index, view>>

\* prepare_local_target_replacement and its commit, which the widget calls while there is
\* no index: from the checkpoint on the screen, or from the origin.
ReplaceLocal ==
  \E goal \in Goals, anchor \in AnchorsOf(Src) :
    LET near == {c \in view : Eligibly(Src, c, c = Origin, goal, anchor)}
        checkpoint == IF near = {} THEN Origin ELSE CHOOSE c \in near : TRUE
    IN  /\ index = {}
        /\ jobs < MaxJobs
        /\ jobs' = jobs + 1
        /\ released' = RetiredTargets(TRUE)
        /\ Retarget(Src, jobs + 1, goal, anchor, checkpoint, "Text")
        /\ SameInputs /\ UNCHANGED <<index, view>>

\* layout, presentation or binding replaced, with an index or a target from the origin.
ReplaceInputs(job) ==
  /\ changes < MaxChanges
  /\ changes' = changes + 1
  /\ source' \in DOMAIN Sources
  /\ jobs' = jobs + 1
  /\ active' = {job}
  /\ desired' = {} /\ index' = {} /\ target' = {} /\ view' = {}
  /\ released' = RetiredAll

ReplaceAndIndex == jobs + 2 <= MaxJobs /\ ReplaceInputs(IndexJob(jobs + 1, "Text"))

ReplaceAndTarget ==
  \E goal \in Goals :
    jobs < MaxJobs /\ ReplaceInputs(Job(jobs + 1, "Target", goal, {}, Origin, "Text"))

\* request_page, request_object_page: of a job whose request was deferred.
Request ==
  \E a \in active :
    /\ a.pending = "None"
    /\ active' = {[a EXCEPT !.pending = IF a.page = {} THEN "Text" ELSE "Object"]}
    /\ released' = Nothing
    /\ SameInputs /\ UNCHANGED <<desired, index, target, view, jobs>>

\* cancel, fail_page, fail_object_page
CancelJob ==
  \E a \in active :
    /\ active' = {}
    /\ released' = Retired(a)
    /\ SameInputs /\ UNCHANGED <<desired, index, target, view, jobs>>

CancelDesired ==
  \E d \in desired :
    /\ desired' = {}
    /\ released' = [Nothing EXCEPT !.jobs = {d.id}]
    /\ SameInputs /\ UNCHANGED <<active, index, target, view, jobs>>

\* take_target: the widget puts it on the screen.
TakeTarget ==
  \E t \in target :
    /\ target' = {}
    /\ view' = {t.pred}
    /\ released' = Nothing
    /\ SameInputs /\ UNCHANGED <<active, desired, index, jobs>>

-----------------------------------------------------------------------------
(* The host's answers, and the next request, which may be deferred.        *)

\* prepare_terminal_failure_for_active_input: what waits for an index stays.
Fails(a) ==
  /\ active' = {}
  /\ released' = Retired(a)
  /\ UNCHANGED <<desired, index, target, jobs>>

\* finish_active_target_response
Goes(a, job, request) ==
  /\ \E pending \in {"None", request} : active' = {[job EXCEPT !.pending = pending]}
  /\ released' = Answered(a)
  /\ UNCHANGED <<desired, index, target, jobs>>

\* finish_target_publication
Publishes(a, job) ==
  /\ active' = {}
  /\ target' = {Published(job.id, job.goal, job.asked, job.pred,
                          IF job.origins = {} THEN job.line.at ELSE CHOOSE p \in job.origins : TRUE,
                          job.cont, job.kept)}
  /\ released' = Retired(a)
  /\ UNCHANGED <<desired, index, jobs>>

\* exact_document_selection
DocumentSelection(S, job) ==
  [anchor |-> IF job.first # Null /\ S.objects[job.first] = 0 THEN Before(S, job.first) ELSE Plain(0),
   head |-> IF job.object # Null /\ S.objects[job.object] = Extent(S)
            THEN Behind(S, job.object, Null) ELSE Plain(Extent(S))]

\* MUTANT of Leading: the checkpoint of the origin stays without the objects there.
Unled(S, job, checkpoint) == checkpoint

\* A checkpoint at the place of the first object is before it, once that is known.
Leading(S, job, checkpoint) ==
  IF job.first # Null /\ checkpoint.source = Plain(S.objects[job.first])
  THEN [checkpoint EXCEPT !.source = Before(S, job.first)] ELSE checkpoint

\* The checkpoints of the index, retained anew.
Rewritten(S, job) ==
  FoldLeft(LAMBDA kept, c : IF kept = <<>> THEN <<c>> ELSE Retain(kept, c), <<>>,
           [i \in DOMAIN job.checkpoints |-> Leading(S, job, job.checkpoints[i])])

\* finish_index_publication: the index, and the target that follows it; selects is
\* select_all, which ends at the last line.
Indexes(S, a, job) ==
  \E goal \in Goals, anchor \in AnchorsOf(S), selects \in BOOLEAN :
    LET checkpoints == Rewritten(S, job)
        selection == DocumentSelection(S, job)
        bottom == [goal EXCEPT !.block = job.cont.block]
        last == Predecessor(S, checkpoints, bottom, {selection.head})
        final == IF Extent(S) > 0 THEN [bottom EXCEPT !.block = last.block] ELSE bottom
        next == jobs + 1
        Successor(g, p) == \E pending \in {"None", "Text"} :
          Retarget(S, next, g, p, Predecessor(S, checkpoints, g, p), pending)
    IN  /\ selects => anchor = {} /\ goal.block = 0
        /\ IF selects THEN Successor(final, {selection.head}) ELSE Successor(goal, anchor)
        /\ index' = {[id |-> job.id, checkpoints |-> checkpoints, lines |-> job.cont.block,
                      selection |-> selection]}
        /\ jobs' = next
        /\ released' = [jobs |-> {job.id} \cup {h.id : h \in index \cup desired \cup target},
                        request |-> a.pending]

\* prepare_context_page: the text before the offset the scanner asks for, on a page that
\* ends there.
ContextPage(S, a) ==
  \E need \in a.need : \E lo \in Nat \cap ((need.end - PageBytes)..(need.end - 1)) :
    LET from == MaxOf(lo, a.origin)
        torn == \E k \in DOMAIN S.atoms : S.atoms[k].hi > from /\ S.atoms[k].lo < need.end
    IN  IF from >= need.end \/ torn THEN Fails(a)
        ELSE Goes(a, [a EXCEPT !.cursor = Informed(S, @, a.origin, lo), !.at = need.replay,
                               !.need = {}], "Text")

\* prepare_response_page of a page of text to scan.
TextPage(S, a) ==
  \E hi \in (a.at + 1)..(a.at + PageBytes) \cup {Extent(S)} :
    /\ hi <= Extent(S) /\ hi <= a.at + PageBytes
    /\ a.at < Extent(S) => hi > a.at
    /\ Goes(a, [a EXCEPT !.page = {[lo |-> a.at, hi |-> hi]}], "Object")

\* The source is scanned.
Ends(S, a, job) ==
  IF job.fault THEN Fails(a)
  ELSE IF job.kind = "Index" THEN Indexes(S, a, job)
  ELSE Publishes(a, job)

\* finish_response_text_page: the page is scanned.
PageDone(S, a, job, page, ready) ==
  IF page.hi = Extent(S) THEN Ends(S, a, FinalizeSource(S, job))
  ELSE IF ready THEN Publishes(a, job)
  ELSE Goes(a, [job EXCEPT !.at = page.hi], "Text")

\* target_scan_ready
Ready(job) ==
  /\ job.kind = "Target"
  /\ \A a \in job.anchor : Leads(a, job.cont.at)
  /\ job.origins # {}
  /\ job.cont.block + 1 >= Foot(job.goal)

\* A target with an anchor before an object may end inside a page of objects.
EndsInside(job) == Ready(job) /\ \E a \in job.anchor : a.gap[2] # Null

\* finalize_object_response
ObjectsDone(S, a, scanned, page, complete) ==
  LET off == [scanned EXCEPT !.page = {}]
  IN  IF scanned.fault THEN Fails(a)
      ELSE IF scanned.need # {} THEN Goes(a, off, "Text")
      ELSE IF EndsInside(scanned) THEN Publishes(a, off)
      ELSE IF ~complete THEN Goes(a, scanned, "Object")
      ELSE PageDone(S, a, off, page, Ready(scanned))

\* prepare_response_object_page: some of the objects of the page, or all that are left.
ObjectPage(S, a, page) ==
  LET objects == Eligible(S, page, a.object)
  IN  \E n \in 0..Len(objects) :
        /\ n = 0 => objects = <<>>
        /\ ObjectsDone(S, a, ProcessObjectPage(S, a, page, SubSeq(objects, 1, n), n = Len(objects)),
                       page, n = Len(objects))

AnswerText ==
  \E a \in active :
    /\ a.pending = "Text"
    /\ IF a.need # {} THEN ContextPage(Src, a) ELSE TextPage(Src, a)
    /\ SameInputs /\ UNCHANGED view

AnswerObjects ==
  \E a \in active, page \in UNION {j.page : j \in active} :
    /\ a.pending = "Object"
    /\ ObjectPage(Src, a, page)
    /\ SameInputs /\ UNCHANGED view

Next ==
  \/ InitialIndex \/ StartIndex \/ ReplaceTarget \/ ReplaceLocal
  \/ ReplaceAndIndex \/ ReplaceAndTarget
  \/ Request \/ CancelJob \/ CancelDesired \/ TakeTarget
  \/ AnswerText \/ AnswerObjects

Spec == Init /\ [][Next]_vars

-----------------------------------------------------------------------------
(* The properties.                                                         *)

\* The scan of a whole source from one page of text and one of objects.
Whole(S) ==
  FinalizeSource(S, ProcessObjectPage(S, IndexJob(1, "None"), [lo |-> 0, hi |-> Extent(S)],
                                      Offsets(1, Len(S.objects) + 1), TRUE))

Wholes == [s \in DOMAIN Sources |-> Whole(Sources[s]).log]

\* The pieces of the source, as a set to range over: evaluated once in a state.
Scans == {Wholes[source]}

\* What is admitted is the pieces of the source from the checkpoint on.
Agrees(job, pieces) ==
  ~job.fault /\ job.log = SubSeq(pieces, job.pred.ordinal + 1, job.cont.ordinal)

\* A page is scanned, and the source is ended by its last page.
Follows(S, page, complete, scanned, pieces) ==
  /\ Agrees(scanned, pieces)
  /\ complete /\ page.hi = Extent(S) /\ scanned.need = {} => Agrees(FinalizeSource(S, scanned), pieces)

\* What a job admits to the layout, and what the next page can make it admit, is what the
\* scan of the whole source in one page admits, from its checkpoint on: neither where pages
\* end, nor how the objects of a page are divided, nor text asked for before a page, nor the
\* checkpoint shows; and no page is refused for where it ends.
CutsDoNotMatter ==
  \A a \in active, pieces \in Scans :
    /\ Agrees(a, pieces)
    /\ \A page \in a.page :
         LET objects == Eligible(Src, page, a.object)
         IN  \A n \in {k \in 0..Len(objects) : k = 0 => objects = <<>>} :
               Follows(Src, page, n = Len(objects),
                       ProcessObjectPage(Src, a, page, SubSeq(objects, 1, n), n = Len(objects)), pieces)

\* No grapheme goes on over b: an atom or an object is there, or the rules part it.
Edge(S, b) ==
  \/ b \in {0, Extent(S)} \cup Range(S.objects)
  \/ \E i \in DOMAIN S.atoms : b \in {S.atoms[i].lo, S.atoms[i].hi}
  \/ ~Joined(S, Max({0} \cup {S.atoms[i].hi : i \in {k \in DOMAIN S.atoms : S.atoms[k].hi <= b}}), b)

Sound(S, piece) ==
  LET lo == piece.from.at
      hi == piece.to.at
      inside == (lo + 1)..(hi - 1)
  IN  /\ IsPlace(S, piece.from) /\ IsPlace(S, piece.to)
      /\ piece.type # "object" => piece.from.gap[2] = Null
      /\ piece.type \in {"text", "compact", "line"} =>
           /\ lo < hi /\ piece.body = Offsets(lo, hi)
           /\ Edge(S, lo) /\ Edge(S, hi) /\ inside \cap Range(S.objects) = {}
      /\ \/ /\ piece.type = "text" /\ hi - lo <= SegmentBytes
            /\ \A k \in lo..(hi - 1) :
                 Kind(S, k) # "n" /\ \A i \in DOMAIN S.atoms : k \notin S.atoms[i].lo..(S.atoms[i].hi - 1)
         \/ /\ piece.type = "compact"
            /\ \/ [lo |-> lo, hi |-> hi] \in Range(S.atoms)
               \/ hi - lo > SegmentBytes /\ \A b \in inside : ~Edge(S, b)
         \/ piece.type = "line" /\ hi = lo + 1 /\ Kind(S, lo) = "n"
         \/ /\ piece.type = "object" /\ piece.from.gap[2] = piece.body[1] /\ piece.to.gap[1] = piece.body[1]
         \/ piece.type = "end" /\ piece.from = piece.to /\ lo = Extent(S)

Chained(S, log) ==
  \A i \in DOMAIN log : Sound(S, log[i]) /\ (i > 1 => log[i].from = log[i - 1].to)

\* The pieces of a source cover it from end to end, and those a job has admitted cover it
\* from its checkpoint to where it is, every byte and object once and in order: text of whole
\* graphemes up to a segment without a line break, an atom or a longer grapheme alone, a
\* break alone, an object between its neighbours.
PiecesAreSound ==
  /\ \A pieces \in Scans :
       /\ Chained(Src, pieces)
       /\ pieces[1].from.at = 0 /\ Last(pieces).type = "end"
       /\ Cardinality({i \in DOMAIN pieces : pieces[i].type = "object"}) = Len(Src.objects)
  /\ \A a \in active :
       /\ Chained(Src, a.log)
       /\ a.log # <<>> => /\ a.log[1].from.at = a.pred.source.at
                          /\ a.pred.source.gap # NoGap => a.log[1].from = a.pred.source
                          /\ a.log[Len(a.log)].to = a.cont.at

\* A checkpoint carries what a scan from the origin has where it is: the position, the line,
\* the objects passed, and where graphemes are looked for from.
Resumes(S, pieces, c) ==
  LET past == SubSeq(pieces, 1, c.ordinal)
      Of(types) == SelectSeq(past, LAMBDA piece : piece.type \in types)
      atoms == {i \in DOMAIN past : \E k \in DOMAIN S.atoms : past[i].to.at = S.atoms[k].hi
                                                            /\ past[i].type = "compact"
                                                            /\ past[i].from.at = S.atoms[k].lo}
  IN  /\ c.ordinal > 0 => c.source = pieces[c.ordinal].to
      /\ c.block = Len(Of({"line", "end"}))
      /\ c.object = Len(Of({"object"}))
      /\ c.origin = Max({0} \cup {past[i].to.at : i \in atoms})
      /\ c.cursor.at = c.source.at

\* Every checkpoint an index job or an index keeps is one to resume from; the first is the
\* origin, there are at most so many, in order, and the index ends with the source, its
\* selection between the objects at both ends.
CheckpointsResume ==
  /\ \A pieces \in Scans, kept \in {a.checkpoints : a \in active} \cup {i.checkpoints : i \in index} :
       /\ \A k \in DOMAIN kept : Resumes(Src, pieces, kept[k])
       /\ \A k \in DOMAIN kept : k > 1 => kept[k - 1].ordinal < kept[k].ordinal
       /\ Len(kept) <= MaxCheckpoints
       /\ kept # <<>> => kept[1].ordinal = 0
  /\ \A i \in index, pieces \in Scans :
       /\ i.checkpoints[1].source = pieces[1].from
       /\ Last(i.checkpoints).ordinal = Len(pieces)
       /\ i.selection = [anchor |-> pieces[1].from, head |-> Last(pieces).to]

\* Whatever a job has done of the scan is sound, and so is what is kept to go on from.
ScansAreSound == PiecesAreSound /\ CheckpointsResume

\* A complete target has every piece of the lines asked for but of the last, which may go on
\* behind its end, and the objects of the lines before (an empty source is complete without
\* its one empty line); it begins where its first line begins, and has its anchor.
ViewCovered ==
  \A t \in target, pieces \in Scans :
    /\ \A i \in DOMAIN pieces :
         Intersects(pieces[i], t.goal, {}) /\ (Extent(Src) = 0 => pieces[i].type # "end") =>
           \/ i - 1 \in t.kept
           \/ i > t.cont.ordinal /\ pieces[i].block >= Foot(t.goal) - 1
    /\ \A i \in DOMAIN pieces :
         pieces[i].block = t.goal.block /\ (i = 1 \/ pieces[i - 1].block < t.goal.block)
           => t.from = pieces[i].from
    /\ \A a \in t.asked :
         /\ Leads(a, t.cont.at)
         /\ (\E i \in DOMAIN pieces : Maps(pieces[i], a) /\ pieces[i].block >= t.goal.block)
              => \E i \in t.kept : Maps(pieces[i + 1], a)

\* Who loses a job or a request is told: what the owner no longer holds is named by the
\* release of the step, and nothing named is still held.  The widget takes a target itself;
\* StartIndex tells nothing of what it drops.
ReleasesNameJobs ==
  [][/\ Held \ Held' \subseteq released'.jobs \/ TakeTarget \/ StartIndex
     /\ released'.jobs \cap Held' \subseteq {h.id : h \in index' \cup target'}
     /\ \A a \in active :
          a.pending # "None" => \/ released'.request = a.pending
                                \/ \E b \in active' : b.id = a.id /\ b.pending = a.pending]_vars
=============================================================================
