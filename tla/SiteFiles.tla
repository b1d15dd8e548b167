------------------------------ MODULE SiteFiles -----------------------------
(***************************************************************************)
(* What ffc reads from a site into files, and files it puts there: export, *)
(* list-docs --all and api --paginate page by page (internal/cmd/export.go,*)
(* render.go, api.go), download, pdf and the Excel workbooks (files.go,    *)
(* pdf.go, internal/client/files.go), and upload.  Documents are made,     *)
(* changed and deleted between two pages, requests fail and commands that  *)
(* write to one file meet.                                                 *)
(***************************************************************************)
EXTENDS Integers, Sequences, FiniteSets, SequencesExt

CONSTANTS
  Readers,     \* bound: the ffc commands
  Wants,       \* bound: what each may do, [Readers -> the commands]
  FirstDocs,      \* bound: the documents there are at first
  MaxChanged,  \* bound: how often people change them meanwhile
  PageSize,    \* --page-size
  MetaFields,  \* the fields of the DocType and its tables
  MaxDownloads \* the attempts of a download

ReaderWants ==
  [kind : {"export", "pages", "api", "workbook", "pdf", "download", "upload"}, to : {"file", "out"}, force : BOOLEAN,
   limit : Nat, order : {"default", "own"}, field : BOOLEAN,
   sel : [fields : SUBSET [table : STRING, name : STRING], tables : SUBSET STRING]]

ASSUME SizesAreNat == FirstDocs \in Nat /\ PageSize \in Nat \ {0}
ASSUME ReadersAreNamed == "none" \notin Readers /\ "before" \notin Readers
ASSUME WantsAreWants == Wants \in [Readers -> SUBSET ReaderWants]

VARIABLES
  list,      \* the documents on the site, in the order they were made in
  gone,      \* how many were deleted since the start
  names,     \* how many were ever made
  files,     \* the File documents on the site
  linked,    \* the Attach field of the document to upload to
  there,     \* whether that document is there
  disk,      \* what the output file holds
  links,     \* whether its file system has hard links
  reader     \* [Readers -> where each command is and what it has read]

readerVars == <<list, gone, names, files, linked, there, disk, links, reader>>

NoUrl == "none"
NoListed == [name |-> 0]
Before == [by |-> "before"]
NoOutput == [by |-> "none"]

ReaderAt(c, at) == reader[c].at = at
ReaderTo(c, at) == reader' = [reader EXCEPT ![c].at = at]
ReaderEnds(c, exit) ==
  reader' = [reader EXCEPT ![c].at = "over", ![c].exit = exit, ![c].page = <<>>, ![c].first = NoListed, ![c].start = 0, ![c].tries = 0]
SiteStays == UNCHANGED <<list, gone, names, files, linked, there, links>>

Ids(docs) == {docs[i].name : i \in DOMAIN docs}

-----------------------------------------------------------------------------
(* The columns (buildExportLayout).  A field is of the document or of one  *)
(* of its tables; what it is and whether it may be read is the meta's.     *)

\* unexportable, readable.
May(f) == f.readable /\ f.kind = "data"

\* The tables that --fields, --tables and --no-tables leave.
AllTables == {f.name : f \in {g \in MetaFields : g.kind = "table"}}
Tables(sel) ==
  LET named == {p.table : p \in sel.fields} \ {""}
  IN  IF sel.tables # {"all"} THEN sel.tables ELSE IF named # {} THEN named ELSE AllTables
Explicit(sel, t) == sel.tables # {"all"} \/ \E p \in sel.fields : p.table = t
Opens(t) == \E f \in MetaFields : f.kind = "table" /\ f.name = t /\ f.readable

\* What the flags name is there, not left out by another flag, and readable.
PicksRefused(sel) ==
  \/ ~(Tables(sel) \subseteq AllTables)
  \/ \E p \in sel.fields :
       \/ p.table \notin {""} \cup Tables(sel)
       \/ p.name # "*" /\ ~\E f \in MetaFields : f.table = p.table /\ f.name = p.name /\ May(f)
  \/ \E t \in Tables(sel) : Explicit(sel, t) /\ ~Opens(t)

\* All that may be read, of the document and of each table, or the picks.
Layout(sel) ==
  LET picks(t) == {p.name : p \in {q \in sel.fields : q.table = t}}
      whole(t) == IF t = "" THEN sel.fields = {} ELSE picks(t) = {} \/ "*" \in picks(t)
  IN  {f \in MetaFields :
         /\ May(f)
         /\ f.table = "" \/ (f.table \in Tables(sel) /\ Opens(f.table))
         /\ whole(f.table) \/ f.name \in picks(f.table)}

\* loadExportLayout.
LoadLayout(c) ==
  /\ ReaderAt(c, "layout")
  /\ LET sel == reader[c].want.sel IN
     \/ ReaderEnds(c, "failed")
     \/ PicksRefused(sel) /\ ReaderEnds(c, "refused")
     \/ ~PicksRefused(sel) /\ reader' = [reader EXCEPT ![c].cols = Layout(sel),
                                                  ![c].at = IF reader[c].want.kind = "workbook" THEN "get" ELSE "page"]
  /\ SiteStays /\ UNCHANGED disk

-----------------------------------------------------------------------------
(* Pages.                                                                  *)

\* creation asc, name asc; --order-by has name behind it (sortsByName).
Order(want, docs) ==
  IF want.order = "default" THEN docs
  ELSE SortSeq(docs, LAMBDA a, b : a.key < b.key \/ (a.key = b.key /\ a.name < b.name))

Size(c) ==
  LET limit == reader[c].want.limit
  IN  IF limit = 0 THEN PageSize ELSE Min({PageSize, limit - Len(reader[c].out)})

\* checkTarget, before any request: an existing file needs --force.
StartReader(c, want) ==
  /\ ReaderAt(c, "idle") /\ want \in Wants[c]
  /\ reader' = [reader EXCEPT ![c] =
       [at |-> IF want.to = "file" /\ ~want.force /\ disk # NoOutput THEN "over"
               ELSE CASE want.kind \in {"export", "workbook"} -> "layout"
                      [] want.kind = "pages" -> "page"
                      [] want.kind = "upload" -> "look"
                      [] OTHER -> "get",
        exit |-> IF want.to = "file" /\ ~want.force /\ disk # NoOutput THEN "exists" ELSE "none",
        want |-> want, cols |-> {}, out |-> <<>>, start |-> 0, page |-> <<>>, first |-> NoListed, tries |-> 0,
        were |-> Ids(list), gone |-> gone]]
  /\ SiteStays /\ UNCHANGED disk

\* GetList: a page from the offset; one that begins as the last did is an
\* offset ignored.
ReadPage(c) ==
  /\ ReaderAt(c, "page")
  /\ \/ ReaderEnds(c, "failed")
     \/ LET r    == reader[c]
            page == SubSeq(Order(r.want, list), r.start + 1, Min({r.start + Size(c), Len(list)}))
        IN  IF page # <<>> /\ page[1] = r.first THEN ReaderEnds(c, "repeats")
            ELSE reader' = [reader EXCEPT ![c].page = page,
                                          ![c].first = IF page = <<>> THEN @ ELSE page[1],
                                          ![c].at = IF r.want.kind = "export" /\ page # <<>> THEN "rows" ELSE "write"]
  /\ SiteStays /\ UNCHANGED disk
\* exportChildren: the rows of the page's documents, as they are by now.
ReadRows(c) ==
  /\ ReaderAt(c, "rows")
  /\ \/ ReaderEnds(c, "failed")
     \/ LET rows(name) == {doc.rows : doc \in {d \in ToSet(list) : d.name = name}}
            page == reader[c].page
        IN  reader' = [reader EXCEPT
              ![c].page = [i \in DOMAIN page |->
                 [page[i] EXCEPT !.rows = IF rows(page[i].name) = {} THEN 0 ELSE CHOOSE n \in rows(page[i].name) : TRUE]],
              ![c].at = "write"]
  /\ SiteStays /\ UNCHANGED disk
\* A short page is the last one; so is the one that reaches --limit.
WritePage(c) ==
  /\ ReaderAt(c, "write")
  /\ LET r == reader[c]
         last == Len(r.page) < Size(c) \/ (r.want.limit > 0 /\ Len(r.out \o r.page) >= r.want.limit)
     IN  reader' = [reader EXCEPT ![c].out = @ \o r.page, ![c].start = @ + Len(r.page), ![c].page = <<>>,
                                  ![c].at = IF ~last THEN "page" ELSE IF r.want.to = "file" THEN "save" ELSE "over",
                                  ![c].exit = IF last /\ r.want.to # "file" THEN "ok" ELSE @]
  /\ SiteStays /\ UNCHANGED disk

-----------------------------------------------------------------------------
(* Downloads.                                                              *)

\* FrappeClient.download: retried while the deadline allows; a workbook is a
\* POST and is not (DownloadTemplate, Raw).
Fetch(c) ==
  /\ ReaderAt(c, "get")
  /\ \/ ReaderEnds(c, "failed")
     \/ /\ reader[c].want.kind # "workbook" /\ reader[c].tries + 1 < MaxDownloads
        /\ reader' = [reader EXCEPT ![c].tries = @ + 1]
     \/ ReaderTo(c, "answer")
  /\ SiteStays /\ UNCHANGED disk

\* An error is read, never saved; checkPDF, checkXLSX.
Accepted(want, answer) ==
  answer = "file" \/ (answer = "page" /\ want.kind \in {"download", "api"})
TakeAnswer(c) ==
  /\ ReaderAt(c, "answer")
  /\ \E answer \in {"file", "page", "error", "cut"} :
       IF Accepted(reader[c].want, answer)
       THEN reader' = [reader EXCEPT ![c].out = <<answer>>,
                                     ![c].at = IF reader[c].want.to = "file" THEN "save" ELSE "over",
                                     ![c].exit = IF reader[c].want.to = "file" THEN @ ELSE "ok"]
       ELSE ReaderEnds(c, IF answer = "cut" THEN "cut" ELSE "refused")
  /\ SiteStays /\ UNCHANGED disk

-----------------------------------------------------------------------------
(* The output file: written beside it and moved into place.                *)
ReaderResult(c) == [by |-> c, out |-> reader[c].out]

\* Mutant of MoveInto: looked for, and then replaced.
MoveOver(c) ==
  /\ ReaderAt(c, "save")
  /\ disk' = ReaderResult(c) /\ ReaderEnds(c, "ok")
  /\ SiteStays
\* writeAtomic: renamed with --force, else linked; without links, looked for
\* and renamed by Rename.
MoveInto(c) ==
  /\ ReaderAt(c, "save")
  /\ \/ ReaderEnds(c, "failed") /\ UNCHANGED disk
     \/ reader[c].want.force /\ disk' = ReaderResult(c) /\ ReaderEnds(c, "ok")
     \/ ~reader[c].want.force /\ disk # NoOutput /\ ReaderEnds(c, "exists") /\ UNCHANGED disk
     \/ /\ ~reader[c].want.force /\ disk = NoOutput
        /\ IF links THEN disk' = ReaderResult(c) /\ ReaderEnds(c, "ok") ELSE ReaderTo(c, "rename") /\ UNCHANGED disk
  /\ SiteStays
Rename(c) ==
  /\ ReaderAt(c, "rename")
  /\ disk' = ReaderResult(c) /\ ReaderEnds(c, "ok")
  /\ SiteStays

-----------------------------------------------------------------------------
(* upload.                                                                 *)

\* MaxFileSize and openUpload, then UploadFile: the document is read first,
\* since the site would take a file for one that is not there.
LookForDoc(c) ==
  /\ ReaderAt(c, "look")
  /\ \/ ReaderEnds(c, "failed")      \* too large, or a request failed
     \/ IF there THEN ReaderTo(c, "send") ELSE ReaderEnds(c, "failed")
  /\ SiteStays /\ UNCHANGED disk
UploadFile(c) ==
  /\ ReaderAt(c, "send")
  /\ \/ ReaderEnds(c, "failed") /\ UNCHANGED files
     \/ /\ files' = files \cup {[by |-> c, attached |-> there]}
        /\ \/ ReaderEnds(c, "lost")
           \/ IF reader[c].want.field THEN ReaderTo(c, "field") ELSE ReaderEnds(c, "ok")
  /\ UNCHANGED <<list, gone, names, linked, there, disk, links>>
SetField(c) ==
  /\ ReaderAt(c, "field")
  /\ \/ ReaderEnds(c, "uploaded") /\ UNCHANGED linked
     \/ /\ there /\ linked' = c
        /\ ReaderEnds(c, "ok") \/ ReaderEnds(c, "uploaded")
  /\ UNCHANGED <<list, gone, names, files, there, disk, links>>

-----------------------------------------------------------------------------
(* Others, on the site.                                                    *)
\* Bound: while one command pages, or uploads to the document, alone.
OnlyAt(places) == \E c \in Readers : reader[c].at \in places /\ \A d \in Readers \ {c} : ReaderAt(d, "idle")
Paging == OnlyAt({"page", "rows", "write"})
Without(seq, i) == SubSeq(seq, 1, i - 1) \o SubSeq(seq, i + 1, Len(seq))
ChangeList ==
  /\ gone + names < MaxChanged + FirstDocs
  /\ \/ /\ Paging
        /\ names' = names + 1
        /\ list' = Append(list, [name |-> names + 1, key |-> 0, rows |-> 1])
        /\ UNCHANGED <<gone, there>>
     \/ /\ Paging
        /\ \E i \in DOMAIN list : list' = Without(list, i)
        /\ gone' = gone + 1 /\ UNCHANGED <<names, there>>
     \/ /\ OnlyAt({"look", "send", "field"}) /\ there
        /\ there' = FALSE /\ UNCHANGED <<gone, list, names>>
  /\ UNCHANGED <<files, linked, disk, links, reader>>
Touch(i) ==
  /\ Paging /\ list[i].key = 0
  /\ list' = [list EXCEPT ![i].key = 1, ![i].rows = 2]
  /\ UNCHANGED <<gone, names, files, linked, there, disk, links, reader>>

FirstList == [i \in 1 .. FirstDocs |-> [name |-> i, key |-> 0, rows |-> 1]]
FileInit ==
  /\ list = FirstList
  /\ gone = 0 /\ names = FirstDocs
  /\ files = {} /\ linked = NoUrl /\ there = TRUE
  /\ disk \in {NoOutput, Before} /\ links \in BOOLEAN
  /\ reader = [c \in Readers |-> [at |-> "idle"]]

FileNext ==
  \/ \E c \in Readers :
       \/ list = FirstList /\ \E want \in Wants[c] : StartReader(c, want)
       \/ LoadLayout(c) \/ ReadPage(c) \/ ReadRows(c) \/ WritePage(c)
       \/ Fetch(c) \/ TakeAnswer(c) \/ MoveInto(c) \/ Rename(c)
       \/ LookForDoc(c) \/ UploadFile(c) \/ SetField(c)
  \/ ChangeList \/ \E i \in DOMAIN list : Touch(i)

FileSpec == FileInit /\ [][FileNext]_readerVars

-----------------------------------------------------------------------------
ReaderOver(c, exit) == ReaderAt(c, "over") /\ reader[c].exit = exit
\* A list that ended well, in the order of creation, has no document twice,
\* and, without a limit, all that were there the whole time, unless one was
\* deleted meanwhile: the offsets of those behind it change.  In an order of
\* the user's own a document may move from page to page: nothing is claimed.
PagesAreWhole ==
  \A c \in Readers :
    ReaderOver(c, "ok") /\ reader[c].want.kind \in {"export", "pages"} /\ reader[c].want.order = "default" =>
      LET r == reader[c] IN
      /\ \A i, j \in DOMAIN r.out : i # j => r.out[i].name # r.out[j].name
      /\ r.gone = gone /\ r.want.limit = 0 => r.were \subseteq Ids(r.out)

\* The output file is one command's whole result or what was there before,
\* which only --force replaces, whoever made it meanwhile (on file systems
\* with hard links); and only what was asked for is saved.
OutputIsWhole ==
  /\ \A c \in Readers : disk.by = c => ReaderOver(c, "ok") /\ disk.out = reader[c].out
  /\ \A c \in Readers :
       ReaderOver(c, "ok") /\ reader[c].want.kind \in {"pdf", "workbook"} => reader[c].out = <<"file">>
OnlyForced ==
  disk' # disk => disk = NoOutput \/ ~links \/ \E c \in Readers : disk'.by = c /\ reader[c].want.force

\* What upload says is what it did: "ok" with --field only with the field
\* set, and a File is left that it does not tell of only when its answer was
\* lost.
UploadIsTold ==
  \A c \in Readers :
    ReaderAt(c, "over") /\ reader[c].want.kind = "upload" =>
      /\ (\E f \in files : f.by = c) <=> reader[c].exit \in {"ok", "uploaded", "lost"}

\* An export has the columns asked for that the user may read, and no others.
ColumnsAreAsked ==
  \A c \in Readers :
    ReaderOver(c, "ok") /\ reader[c].want.kind \in {"export", "workbook"} =>
      /\ \A f \in reader[c].cols : f.kind = "data" /\ f.readable
      /\ \A p \in reader[c].want.sel.fields :
           p.name # "*" => \E f \in reader[c].cols : f.table = p.table /\ f.name = p.name

\* A list in the order of creation repeats no document and, while none is
\* deleted, leaves none out; a file is one command's whole result; and what is
\* told of an upload is so (export.go, runExport; files.go, writeAtomic,
\* UploadFile).
FilesAreWhole == [](PagesAreWhole /\ OutputIsWhole /\ UploadIsTold /\ ColumnsAreAsked) /\ [][OnlyForced]_readerVars
=============================================================================
