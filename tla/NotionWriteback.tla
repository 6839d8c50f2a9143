---------------------------- MODULE NotionWriteback ----------------------------
(***************************************************************************)
(* Writing person pages to a Notion database                               *)
(* (src/adapter/writeback/notion/client.rs; the write-back loop at the end *)
(* of sync_all and notion_review_sync in src/self_host/app.rs).            *)
(*                                                                         *)
(* The database is external; every API call is one step.  A write of a     *)
(* person is a sequence of such calls: look the page up, create it if      *)
(* there is none, patch its properties, read its blocks, delete those of   *)
(* the old section one by one, and append the new section.  Any call can   *)
(* fail, the process can die between two of them, other syncs do the same  *)
(* at the same time, and people type into the pages.                       *)
(*                                                                         *)
(* A page's body is a sequence of blocks: notes people typed (text: no     *)
(* dividers, no images, which the bot would take for its own), and of the  *)
(* bot an image (the thumbnail), a divider (the section's marker), text    *)
(* (the rendered profile, named by its version) and a toggle that archives *)
(* the text of the section it replaced.                                    *)
(*                                                                         *)
(* A page's properties hold, per field, the version whose text it shows,   *)
(* 0 for none.  A profile sends the fields it has text for and no others:  *)
(* the text an earlier version left in a field a later one lacks stays.    *)
(***************************************************************************)
EXTENDS Naturals, Sequences, FiniteSets, SequencesExt

CONSTANTS Writer,       \* threads that write pages
          Reviewer,     \* those that may run notion_review_sync as well
          Entity,       \* entity ids of write records
          MaxVersion,   \* bound on the versions of a profile
          Pictured,     \* versions of a profile that have a thumbnail
          Field,        \* fields of a profile beside the title and the email
          Filled,       \* the fields each version of a profile has text for
          MaxPage,      \* bound on page ids
          MaxBlock,     \* bound on block ids
          MaxNotes,     \* bound on the notes people type
          MaxStarts,    \* bound on the write-backs started
          MaxFailures   \* bound on failing calls

ASSUME WriterAssumption ==
  /\ Reviewer \subseteq Writer
  /\ MaxVersion \in Nat /\ MaxPage \in Nat /\ MaxBlock \in Nat
  /\ Filled \in [1..MaxVersion -> SUBSET Field]

VARIABLES snapshot,  \* version of each person's profile in the projection, 0: none
          pages,     \* the live pages of the database, by id
          job,       \* what each writer is doing
          notes,     \* notes people typed above the section: <<page, block id>>
          typed,     \* number of notes typed
          crowded,   \* entities two writers ever worked on at the same time
          written,   \* the last write of each entity that ran alone and succeeded
          starts,    \* number of write-backs started
          failures

vars == <<snapshot, pages, job, notes, typed, crowded, written, starts, failures>>

NoPage == 0
Nothing == [page |-> NoPage, version |-> 0]

Idle == [at |-> "idle", review |-> FALSE, todo |-> {}, entity |-> CHOOSE e \in Entity : TRUE,
         version |-> [e \in Entity |-> 0], page |-> NoPage,
         queue |-> <<>>, archive |-> FALSE, alone |-> TRUE]

Block(id, kind, of) == [id |-> id, kind |-> kind, of |-> of]

Ids(blocks) == {blocks[n].id : n \in 1..Len(blocks)}
PagesOf(e) == {p \in DOMAIN pages : pages[p].entity = e}

(* Ids nobody knows, that a new page or block may get. *)
UnknownPages ==
  (1..MaxPage) \ (DOMAIN pages \cup {job[w].page : w \in Writer} \cup {t[1] : t \in notes})
UnknownBlocks ==
  (1..MaxBlock) \ UNION ({Ids(pages[p].blocks) : p \in DOMAIN pages}
                         \cup {Range(job[w].queue) : w \in Writer} \cup {{t[2] : t \in notes}})
SectionSize == 4
FreshIds ==
  LET f[n \in 1..SectionSize] == Min(UnknownBlocks \ {f[k] : k \in 1..(n - 1)}) IN f
EnoughIds == Cardinality(UnknownBlocks) >= SectionSize

Markers(blocks) == {n \in 1..Len(blocks) : blocks[n].kind = "divider"}

-----------------------------------------------------------------------------
(* Plausible faults, swapped in one at a time by the mutant runs. *)
BlockBeforeMarker(blocks, m) == IF m > 1 THEN <<blocks[m - 1].id>> ELSE <<>>
FindNothing(e) == {NoPage}
KeepOldSection(blocks) == <<>>

-----------------------------------------------------------------------------
(* find_page: the first result of a query by the entity's email.           *)
Found(e) == IF PagesOf(e) = {} THEN {NoPage} ELSE PagesOf(e)

(* The managed thumbnail right before the marker, if there is one.         *)
Thumbnail(blocks, m) ==
  IF m > 1 /\ blocks[m - 1].kind = "image" THEN <<blocks[m - 1].id>> ELSE <<>>

(* delete_queue: the thumbnail, the first marker, and all that follows it. *)
DeleteQueue(blocks) ==
  IF Markers(blocks) = {}
  THEN <<>>
  ELSE LET m == CHOOSE n \in Markers(blocks) : \A k \in Markers(blocks) : n <= k
       IN  Thumbnail(blocks, m) \o [n \in 1..(Len(blocks) - m + 1) |-> blocks[m + n - 1].id]

(* previous_content_blocks is not empty: something below the marker has    *)
(* text.  What the archive then holds is left out.                         *)
HasOldContent(blocks) ==
  \E m \in Markers(blocks) : \E k \in m..Len(blocks) :
    blocks[k].kind \in {"text", "note", "toggle"}

(* render_payload_blocks: the blocks of a profile, here one, never none.   *)
Rendered == <<"text">>

(* build_thumbnail_block: of a profile that has a thumbnail, here or on the web. *)
Picture(version) == IF version \in Pictured THEN <<"image">> ELSE <<>>

(* build_property_updates and the PATCH: a blank field is left out of it,  *)
(* and a property the PATCH does not name keeps its value.                 *)
Patched(old, version) ==
  [f \in Field |-> IF f \in Filled[version] THEN version ELSE old[f]]

(* The children of the append: thumbnail, marker, profile, archive.        *)
Section(version, archive, ids) ==
  LET kinds == Picture(version) \o <<"divider">> \o Rendered \o (IF archive THEN <<"toggle">> ELSE <<>>)
  IN  [n \in 1..Len(kinds) |->
         Block(ids[n], kinds[n], IF kinds[n] = "text" THEN version ELSE 0)]

-----------------------------------------------------------------------------
Init ==
  /\ snapshot = [e \in Entity |-> 0]
  /\ pages = <<>>
  /\ job = [w \in Writer |-> Idle]
  /\ notes = {}
  /\ typed = 0
  /\ crowded = {}
  /\ written = [e \in Entity |-> Nothing]
  /\ starts = 0
  /\ failures = 0

(* The projection is rebuilt with a new version of a profile. *)
Rebuild(e) ==
  /\ snapshot[e] < MaxVersion
  /\ snapshot' = [snapshot EXCEPT ![e] = @ + 1]
  /\ UNCHANGED <<pages, job, notes, typed, crowded, written, starts, failures>>

(* A person types a note, above the section or at the end of the page.     *)
TypeNote(p) ==
  /\ typed < MaxNotes
  /\ EnoughIds
  /\ LET note == Block(FreshIds[1], "note", 0) IN
       \/ /\ pages' = [pages EXCEPT ![p].blocks = <<note>> \o @]
          /\ notes' = notes \cup {<<p, note.id>>}
       \/ /\ pages' = [pages EXCEPT ![p].blocks = Append(@, note)]
          /\ UNCHANGED notes
  /\ typed' = typed + 1
  /\ UNCHANGED <<snapshot, job, crowded, written, starts, failures>>

(* A review takes so many entities, those with the latest activity: any of them. *)
Candidates(all) == SUBSET all

(* The write records are taken from the snapshot. *)
StartWriteback(w) ==
  /\ job[w].at = "idle" /\ starts < MaxStarts
  /\ LET all == {e \in Entity : snapshot[e] > 0} IN
       \E review \in {FALSE} \cup {w \in Reviewer} :
         \E todo \in (IF review THEN Candidates(all) ELSE {all}) \ {{}} :
           job' = [job EXCEPT ![w] = [Idle EXCEPT !.at = "next", !.review = review,
                                                  !.todo = todo, !.version = snapshot]]
  /\ starts' = starts + 1
  /\ UNCHANGED <<snapshot, pages, notes, typed, crowded, written, failures>>

(* The sync writes to the page found, the review trashes it first; both look again
   when there is none. *)
AfterFinding(review, p) ==
  IF p = NoPage THEN "find" ELSE IF review THEN "trash" ELSE "update"

(* find_existing, for the next record. *)
FindExisting(w, e) ==
  /\ job[w].at = "next" /\ e \in job[w].todo
  /\ LET others == {v \in Writer \ {w} :
                      job[v].at \notin {"idle", "next"} /\ job[v].entity = e} IN
     /\ crowded' = IF others = {} THEN crowded ELSE crowded \cup {e}
     /\ \E p \in Found(e) :
         job' = [v \in Writer |->
                 CASE v = w ->
                        [job[w] EXCEPT !.at = AfterFinding(job[w].review, p),
                                       !.entity = e, !.page = p, !.alone = others = {}]
                   [] v \in others -> [job[v] EXCEPT !.alone = FALSE]
                   [] OTHER -> job[v]]
  /\ written' = [written EXCEPT ![e] = Nothing]
  /\ UNCHANGED <<snapshot, pages, notes, typed, starts, failures>>

(* delete_record *)
TrashPage(w) ==
  /\ job[w].at = "trash" /\ job[w].page \in DOMAIN pages
  /\ pages' = [p \in DOMAIN pages \ {job[w].page} |-> pages[p]]
  /\ job' = [job EXCEPT ![w].at = "find", ![w].page = NoPage]
  /\ UNCHANGED <<snapshot, notes, typed, crowded, written, starts, failures>>

(* The properties of a page create_page made. *)
NoText == [f \in Field |-> 0]

(* write_record without an external id *)
FindPage(w) ==
  /\ job[w].at = "find"
  /\ \E p \in Found(job[w].entity) :
       job' = [job EXCEPT ![w].at = IF p = NoPage THEN "create" ELSE "update",
                          ![w].page = p]
  /\ UNCHANGED <<snapshot, pages, notes, typed, crowded, written, starts, failures>>

CreatePage(w) ==
  /\ job[w].at = "create"
  /\ \E p \in UnknownPages :
       /\ \A q \in UnknownPages : p <= q
       /\ pages' = [q \in DOMAIN pages \cup {p} |->
                      IF q = p THEN [entity |-> job[w].entity, properties |-> NoText, blocks |-> <<>>]
                      ELSE pages[q]]
       /\ job' = [job EXCEPT ![w].at = "update", ![w].page = p]
  /\ UNCHANGED <<snapshot, notes, typed, crowded, written, starts, failures>>

Writes(w) == job[w].version[job[w].entity]

UpdateProperties(w) ==
  /\ job[w].at = "update" /\ job[w].page \in DOMAIN pages
  /\ pages' = [pages EXCEPT ![job[w].page].properties = Patched(@, Writes(w))]
  /\ job' = [job EXCEPT ![w].at = "read"]
  /\ UNCHANGED <<snapshot, notes, typed, crowded, written, starts, failures>>

(* get_children; the thumbnail is uploaded before anything is deleted.     *)
ReadChildren(w) ==
  /\ job[w].at = "read" /\ job[w].page \in DOMAIN pages
  /\ LET blocks == pages[job[w].page].blocks IN
       job' = [job EXCEPT ![w].at = "replace", ![w].queue = DeleteQueue(blocks),
                          ![w].archive = HasOldContent(blocks)]
  /\ UNCHANGED <<snapshot, pages, notes, typed, crowded, written, starts, failures>>

DeleteBlock(w) ==
  /\ job[w].at = "replace" /\ job[w].queue # <<>> /\ job[w].page \in DOMAIN pages
  /\ LET blocks == pages[job[w].page].blocks IN
       \E n \in 1..Len(blocks) :
         /\ blocks[n].id = Head(job[w].queue)
         /\ pages' = [pages EXCEPT ![job[w].page].blocks = RemoveAt(@, n)]
  /\ job' = [job EXCEPT ![w].queue = Tail(@)]
  /\ UNCHANGED <<snapshot, notes, typed, crowded, written, starts, failures>>

(* append_children; then the next record, or the sync is done. *)
AppendChildren(w) ==
  /\ job[w].at = "replace" /\ job[w].queue = <<>> /\ job[w].page \in DOMAIN pages
  /\ EnoughIds
  /\ pages' = [pages EXCEPT ![job[w].page].blocks =
                 @ \o Section(Writes(w), job[w].archive, FreshIds)]
  /\ written' = [written EXCEPT ![job[w].entity] =
                   IF job[w].alone THEN [page |-> job[w].page, version |-> Writes(w)] ELSE @]
  /\ LET rest == job[w].todo \ {job[w].entity} IN
       job' = [job EXCEPT ![w] =
                 IF rest = {} THEN Idle
                 ELSE [Idle EXCEPT !.at = "next", !.review = job[w].review,
                                   !.todo = rest, !.version = job[w].version]]
  /\ UNCHANGED <<snapshot, notes, typed, crowded, starts, failures>>

(* An error, or the death of the process, ends the sync where it is ...    *)
Fail(w) ==
  /\ job[w].at # "idle" /\ failures < MaxFailures
  /\ job' = [job EXCEPT ![w] = Idle]
  /\ failures' = failures + 1
  /\ UNCHANGED <<snapshot, pages, notes, typed, crowded, written, starts>>

(* ... and so does a call on a page or a block that is gone. *)
FailGone(w) ==
  /\ \/ job[w].at \in {"trash", "update", "read", "replace"} /\ job[w].page \notin DOMAIN pages
     \/ /\ job[w].at = "replace" /\ job[w].queue # <<>> /\ job[w].page \in DOMAIN pages
        /\ Head(job[w].queue) \notin Ids(pages[job[w].page].blocks)
  /\ job' = [job EXCEPT ![w] = Idle]
  /\ UNCHANGED <<snapshot, pages, notes, typed, crowded, written, starts, failures>>

WriterStep(w) ==
  \/ StartWriteback(w)
  \/ \E e \in Entity : FindExisting(w, e)
  \/ TrashPage(w) \/ FindPage(w) \/ CreatePage(w) \/ UpdateProperties(w)
  \/ ReadChildren(w) \/ DeleteBlock(w) \/ AppendChildren(w) \/ FailGone(w)

Next ==
  \/ \E e \in Entity : Rebuild(e)
  \/ \E p \in DOMAIN pages : TypeNote(p)
  \/ \E w \in Writer : WriterStep(w) \/ Fail(w)

Spec == Init /\ [][Next]_vars

-----------------------------------------------------------------------------
TextAt(p) == {n \in 1..Len(pages[p].blocks) : pages[p].blocks[n].kind = "text"}

(* What people type above the section goes only with its page: no          *)
(* write-back deletes it, whatever earlier or concurrent ones left behind. *)
NotesKept ==
  \A t \in notes : t[1] \in DOMAIN pages => t[2] \in Ids(pages[t[1]].blocks)

(* A page shows a version's text in every field that version fills. *)
Carries(page, version) ==
  \A f \in Field : f \in Filled[version] => page.properties[f] = version

(* A write that no other write of the entity overlapped leaves a page that *)
(* shows its text in every field it fills (a field it does not fill keeps  *)
(* what an earlier write put there), with the profile it wrote as the only *)
(* text below the first marker, and one section marker: it repairs what    *)
(* failed or concurrent writes left below it.                              *)
LastWriteIsShown ==
  \A e \in Entity : LET last == written[e] IN
    last # Nothing =>
      /\ last.page \in DOMAIN pages
      /\ Carries(pages[last.page], last.version)
      /\ LET blocks == pages[last.page].blocks IN
           \E m \in Markers(blocks) :
             /\ Markers(blocks) = {m}
             /\ {blocks[n].of : n \in {k \in TextAt(last.page) : k > m}} = {last.version}
             /\ last.version \in Pictured => m > 1 /\ blocks[m - 1].kind = "image"

(* A person two write-backs never worked on at once has at most one page,  *)
(* however often looking up, creating, trashing or writing it failed       *)
(* half-way.                                                               *)
OnePagePerEntity == \A e \in Entity \ crowded : Cardinality(PagesOf(e)) <= 1
=============================================================================
