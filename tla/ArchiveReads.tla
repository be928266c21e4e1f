---------------------------- MODULE ArchiveReads ----------------------------
(***************************************************************************)
(* gh_list_artifact_files and gh_read_artifact_file                        *)
(* (tools/artifact_content.py): an artifact's archive is streamed to a     *)
(* file (binary_evidence.py), inspected without being extracted, and one   *)
(* page of its files or the text of one of them is returned.               *)
(***************************************************************************)
EXTENDS WorkflowRuns, PageEvidence

CONSTANTS
  HardFilesPerPage,
  MaxArchiveBytes, MaxEntries, MaxUncompressedBytes, MaxFileBytes  \* the hard limits

(***************************************************************************)
(* An entry of an archive: its raw path, split at the separators, a name   *)
(* being a positive number, 0 an empty part or ".", and -1 ".."; whether   *)
(* it is a file or a directory; whether it is encrypted, a link or         *)
(* special; the size the directory of the archive gives and the text it    *)
(* really holds, None if that is not UTF-8.  response: the bytes of the    *)
(* answer, "h" for those of the headers, "s" for the last byte of what     *)
(* separates them from the archive, and "b" for those of the archive.      *)
(***************************************************************************)
Entry ==
  [absolute : BOOLEAN, parts : Seq(Int), special : BOOLEAN, kind : {"file", "directory"},
   size : Nat, text : Seq(Char) \cup {None}]

\* A path, name by name, and the entry of a file under its path.
Path == Seq(Nat \ {0})
ListedFile == [path : Path, entry : Entry]

\* The archive is what follows byte n of the answer, which may end before.
ASSUME ArchiveAssumption ==
  /\ {HardFilesPerPage, MaxArchiveBytes, MaxEntries, MaxUncompressedBytes, MaxFileBytes} \subseteq Nat
  /\ HardFilesPerPage # 0 /\ None \notin Path \cup Seq(ListedFile)
  /\ \A s \in Scenarios :
       /\ s.response \in Seq({"h", "s", "b"}) /\ s.declared \in Nat /\ s.expired \in BOOLEAN
       /\ \E n \in 1..Len(s.response) + 1 : \A k \in DOMAIN s.response :
            s.response[k] = CASE k < n -> "h" [] k = n -> "s" [] OTHER -> "b"
       /\ s.entries \in Seq(Entry)
       /\ s.call.tool = "archive_files" =>
            s.call.page \in Nat \ {0} /\ s.call.perPage \in Nat \ {0}

VARIABLES
  response,  \* bytes of the answer still to come
  headers,   \* the headers have not all been read
  saved      \* the archive on disk

archiveVars == <<response, headers, saved>>

ArchiveInit == response = scenario.response /\ headers = TRUE /\ saved = <<>>

-----------------------------------------------------------------------------
(* Paths. *)

\* _normalize_archive_path, or None when it raises.
NormalPath(e) ==
  LET names == KeepOnly(e.parts, Nat \ {0})
  IN  IF e.absolute \/ -1 \in ToSet(e.parts) \/ names = <<>> THEN None ELSE names

Ancestors(path) == {SubSeq(path, 1, k) : k \in 1..Len(path) - 1}

\* The order in which files are listed.
PathBefore(p, q) ==
  \/ IsStrictPrefix(p, q)
  \/ \E k \in 1..Min({Len(p), Len(q)}) : SubSeq(p, 1, k - 1) = SubSeq(q, 1, k - 1) /\ p[k] < q[k]

-----------------------------------------------------------------------------
(* The inspection, entry by entry. *)

Refused == [ok |-> FALSE]

\* Mutant: the directories that earlier paths imply are not kept in mind.
AdmitWithoutImplied(inspected, e) ==
  LET path == NormalPath(e) IN
  IF \/ ~inspected.ok \/ path = None \/ e.special
     \/ path \in inspected.dirs \/ \E f \in ToSet(inspected.files) : f.path = path
     \/ \E f \in ToSet(inspected.files) : f.path \in Ancestors(path)
     \/ e.kind = "file" /\ inspected.total + e.size > MaxUncompressedBytes
  THEN Refused
  ELSE IF e.kind = "directory" THEN [inspected EXCEPT !.dirs = @ \cup {path}]
  ELSE [inspected EXCEPT !.files = Append(@, [path |-> path, entry |-> e]),
                         !.total = @ + e.size]

\* One turn of the loop of _inspect_archive.
Admit(inspected, e) ==
  LET path == NormalPath(e)
  IN  CASE ~inspected.ok -> inspected
        [] inspected.ok /\ (path = None \/ e.special) -> Refused
        [] OTHER ->
             LET implied == inspected.implied \cup Ancestors(path)
                 taken == {f.path : f \in ToSet(inspected.files)}
             IN  CASE path \in taken \cup inspected.dirs -> Refused
                   [] path \notin taken \cup inspected.dirs /\ taken \cap Ancestors(path) # {} -> Refused
                   [] path \notin taken \cup inspected.dirs /\ taken \cap Ancestors(path) = {} ->
                        CASE e.kind = "directory" ->
                               [inspected EXCEPT !.dirs = @ \cup {path}, !.implied = implied]
                          [] e.kind = "file" /\ (path \in implied \/ inspected.total + e.size > MaxUncompressedBytes) ->
                               Refused
                          [] OTHER ->
                               [inspected EXCEPT !.files = Append(@, [path |-> path, entry |-> e]),
                                                 !.total = @ + e.size, !.implied = implied]

\* The loop.
NoneYet == [ok |-> TRUE, files |-> <<>>, dirs |-> {}, implied |-> {}, total |-> 0]
Admitted(entries) ==
  LET after[k \in 0..Len(entries)] ==
        IF k = 0 THEN NoneYet ELSE Admit(after[k - 1], entries[k])
  IN  after[Len(entries)]

\* _inspect_archive, or None when it raises.
Inspected(entries) ==
  LET all == Admitted(entries)
      earlier == {p \in ToSet(all.files) \X ToSet(all.files) : PathBefore(p[1].path, p[2].path)}
  IN  IF Len(entries) > MaxEntries \/ ~all.ok THEN None ELSE Sorted(all.files, earlier)

-----------------------------------------------------------------------------
(* The calls. *)

\* _require_retrievable_artifact
ReadArtifact ==
  /\ pc = "artifact"
  /\ IF scenario.expired \/ scenario.declared > MaxArchiveBytes THEN Raise ELSE Goto("download")
  /\ UNCHANGED archiveVars

\* Mutant: what follows the headers in their last chunk is lost.
DownloadAfterHeaders ==
  /\ pc = "download" /\ response # <<>>
  /\ \E n \in 1..Len(response) :
       LET chunk == SubSeq(response, 1, n)
           body == IF headers THEN <<>> ELSE chunk
       IN  IF Len(saved) + Len(body) > MaxArchiveBytes THEN Raise /\ UNCHANGED archiveVars
           ELSE /\ response' = SubSeq(response, n + 1, Len(response))
                /\ headers' = (headers /\ "s" \notin ToSet(chunk))
                /\ saved' = saved \o body
                /\ UNCHANGED callVars

\* A chunk of the answer (_stream_bytes_once): behind the headers it reaches the
\* sink of _download_archive.
Download ==
  /\ pc = "download" /\ response # <<>>
  /\ \E n \in 1..Len(response) :
       LET chunk == SubSeq(response, 1, n)
           body == IF headers THEN KeepOnly(chunk, {"b"}) ELSE chunk
       IN  IF Len(saved) + Len(body) > MaxArchiveBytes THEN Raise /\ UNCHANGED archiveVars
           ELSE /\ response' = SubSeq(response, n + 1, Len(response))
                /\ headers' = (headers /\ "s" \notin ToSet(chunk))
                /\ saved' = saved \o body
                /\ UNCHANGED callVars

\* gh exits 0.
EndDownload ==
  /\ pc = "download" /\ response = <<>>
  /\ IF headers THEN Raise ELSE Goto("inspect")
  /\ UNCHANGED archiveVars

\* A page of the files.
ListFiles(files) ==
  LET per == PerPage(call.perPage, HardFilesPerPage)
      first == (call.page - 1) * per + 1
      selected == SubSeq(files, first, Min({first + per - 1, Len(files)}))
      page == PageEvidence(call.page, call.perPage, HardFilesPerPage, Len(files), Len(selected))
  IN  Deliver([files |-> [k \in DOMAIN selected |-> selected[k].path], hasMore |-> page.hasMore])

\* _read_utf8_file and bound_text_evidence, for the path asked for.
ReadFile(files) ==
  LET found == {f \in ToSet(files) : f.path = call.path} IN
  IF \/ found = {}
     \/ \E f \in found : \/ f.entry.text = None
                         \/ f.entry.size > MaxFileBytes
                         \/ Bytes(f.entry.text) # f.entry.size
  THEN Raise
  ELSE \E f \in found :
         Deliver([evidence |-> Bounded(f.entry.text, Min({call.sel.max, MaxFileBytes}))])

\* The rest happens without another request.
InspectArchive ==
  /\ pc = "inspect"
  /\ LET files == Inspected(scenario.entries) IN
     CASE files = None -> Raise
       [] files # None /\ call.tool = "archive_files" -> ListFiles(files)
       [] files # None /\ call.tool = "read_file" -> ReadFile(files)
  /\ UNCHANGED archiveVars

-----------------------------------------------------------------------------
ArchiveNext == ReadArtifact \/ Download \/ EndDownload \/ InspectArchive

\* What an entry counts, and all of them.
SizeOf(e) == IF e.kind = "file" THEN e.size ELSE 0
TotalSize(entries) ==
  LET size[k \in 0..Len(entries)] ==
        IF k = 0 THEN 0 ELSE size[k - 1] + SizeOf(entries[k])
  IN  size[Len(entries)]

\* The reference: what an archive must be, whatever the order of its entries.
IsFileTree(entries) ==
  LET PathOf(k) == NormalPath(entries[k])
  IN  /\ Len(entries) <= MaxEntries
      /\ \A k \in DOMAIN entries : PathOf(k) # None /\ ~entries[k].special
      /\ \A k, l \in DOMAIN entries : PathOf(k) = PathOf(l) => k = l
      /\ \A k, l \in DOMAIN entries :
           entries[k].kind = "file" /\ k # l => ~IsPrefix(PathOf(k), PathOf(l))
      /\ TotalSize(entries) <= MaxUncompressedBytes
=============================================================================
