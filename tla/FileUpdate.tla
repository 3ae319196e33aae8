----------------------------- MODULE FileUpdate -----------------------------
(***************************************************************************)
(* How the edge client downloads the files it is told of                   *)
(* (edge_client/client_app/edge_app: MessageHandler::onReadBody,           *)
(* SysUpdateHandler, fileinfos_rw.cpp).                                    *)
(*                                                                         *)
(* A file's content is a sequence of chunks and its md5 is that content:   *)
(* two contents have the same md5 only if they are equal.  A client step   *)
(* is the code between two effects on the disk or the server; the process  *)
(* may crash at every such point and is then started again by the daemon.  *)
(***************************************************************************)
EXTENDS Integers, Sequences, FiniteSets, SequencesExt

CONSTANTS
  Infos,        \* the FileInfo_t records uploads may announce
  LostType,     \* what loadFileInfosFromStr makes of a type
  ErrorPage,    \* the chunk that is the body of a "416" response
  NoFile,       \* no file under this path
  NoInfo,       \* no upload under this url
  MaxEvents,    \* bound: uploads and crashes of the client, together
  InboxCap,     \* bound: notifications on their way to the client
  MaxTmp,       \* bound: chunks of a .tmp file that are looked at
  MaxBlind      \* bound: chunks in a .tmp file when a length request fails

Content == {t.md5 : t \in Infos}
Url     == {t.remotefile_url : t \in Infos}
Path    == {t.save_path : t \in Infos} \union Url
Unknown == -1

ASSUME InfosAssumption ==
  /\ IsFiniteSet(Infos)
  /\ \A t \in Infos :
       /\ DOMAIN t = {"filename", "type", "save_path", "remotefile_url", "md5"}
       /\ t.md5 \in Seq(STRING) /\ t.md5 # <<>> /\ ~Contains(t.md5, ErrorPage)
ASSUME UrlAssumption ==
  \A s, t \in Infos :
    s.remotefile_url = t.remotefile_url <=> s.filename = t.filename /\ s.type = t.type
ASSUME BoundAssumption ==
  /\ MaxEvents \in Nat
  /\ InboxCap \in Nat /\ MaxTmp \in Nat /\ \A c \in Content : Len(c) < MaxTmp
  /\ MaxBlind \in Nat

VARIABLES
  upload_info,     \* server: the last upload under each url
  inbox,           \* kUpdateFileNtf messages the client has not handled
  file,            \* client disk: content of each save_path
  tmp,             \* client disk: content of each save_path + ".tmp"
  file_infos,      \* client disk: file_infos.json
  m_fileInfo_vec,  \* client memory
  s_totalSize,     \* client memory, shared by all downloads
  pc,              \* "idle", "download", "finish", "check", "save", or "down"
  cur,             \* the FileInfo_t being handled
  fileLength,      \* GetDownloadFileLength()
  events           \* uploads and crashes so far

memoryVars == <<m_fileInfo_vec, s_totalSize>>
vars == <<upload_info, inbox, file, tmp, file_infos, memoryVars, pc, cur, fileLength, events>>

(* file_infos.json: absent, not a whole JSON document, or a list of infos. *)
Absent == [st |-> "absent", infos |-> <<>>]
Torn   == [st |-> "torn", infos |-> <<>>]
Saved(v) == [st |-> "saved", infos |-> v]

Init ==
  /\ upload_info = [u \in Url |-> NoInfo]
  /\ inbox = <<>>
  /\ file = [p \in Path |-> NoFile]
  /\ tmp = [p \in Path |-> NoFile]
  /\ file_infos = Absent
  /\ m_fileInfo_vec = <<>>
  /\ s_totalSize = 0
  /\ pc = "idle"
  /\ cur = NoInfo
  /\ fileLength = Unknown
  /\ events = 0

(***************************************************************************)
(* The server: service_upload.run stores a file, remembers its info and    *)
(* may push it; service_pushfile.run pushes a remembered info again.       *)
(***************************************************************************)

Push(t) == IF Len(inbox) < InboxCap /\ pc # "down" THEN Append(inbox, t) ELSE inbox

Counted == events < MaxEvents /\ events' = events + 1

Upload(t) ==
  /\ Counted
  /\ upload_info' = [upload_info EXCEPT ![t.remotefile_url] = t]
  /\ \E need_push \in BOOLEAN : inbox' = IF need_push THEN Push(t) ELSE inbox
  /\ UNCHANGED <<file, tmp, file_infos, memoryVars, pc, cur, fileLength>>

PushFile(u) ==
  /\ inbox' = IF upload_info[u] = NoInfo THEN inbox ELSE Push(upload_info[u])
  /\ UNCHANGED <<upload_info, file, tmp, file_infos, memoryVars, pc, cur, fileLength, events>>

(* The file server's answer to a request for the bytes from pos on, up to  *)
(* length if it is known; a range that holds nothing is answered "416".    *)
Body(u, pos, length) ==
  LET full == upload_info[u].md5
      end  == IF length = Unknown \/ length > Len(full) THEN Len(full) ELSE length
  IN  IF pos < end THEN SubSeq(full, pos + 1, end) ELSE <<ErrorPage>>

(***************************************************************************)
(* The client                                                              *)
(***************************************************************************)

(* Mutant of isNeedDownload: the loop is left after the first record. *)
isNeedDownload_first(t) ==
  ~ \E i \in DOMAIN m_fileInfo_vec \cap {1} :
      LET f == m_fileInfo_vec[i]
      IN  /\ f.filename = t.filename /\ f.save_path = t.save_path /\ f.md5 = t.md5
          /\ file[f.save_path] # NoFile

(* isNeedDownload *)
isNeedDownload(t) ==
  ~ \E i \in DOMAIN m_fileInfo_vec :
      LET f == m_fileInfo_vec[i]
      IN  /\ f.filename = t.filename /\ f.save_path = t.save_path /\ f.md5 = t.md5
          /\ file[f.save_path] # NoFile

(* onReadBody, kUpdateFileNtf for a file that is there already. *)
Skip(t) ==
  /\ pc = "idle" /\ inbox # <<>> /\ t = Head(inbox)
  /\ ~isNeedDownload(t)
  /\ inbox' = Tail(inbox)
  /\ UNCHANGED <<upload_info, file, tmp, file_infos, memoryVars, pc, cur, fileLength, events>>

(* downloadFile(url, dst) opens the .tmp file for appending and asks for   *)
(* the length, which may fail.                                             *)
StartDownload(t, reachable) ==
  /\ pc = "idle" /\ inbox # <<>> /\ t = Head(inbox)
  /\ isNeedDownload(t)
  /\ inbox' = Tail(inbox)
  /\ cur' = t
  /\ tmp' = [tmp EXCEPT ![t.save_path] = IF @ = NoFile THEN <<>> ELSE @]
  /\ reachable \/ Len(tmp'[t.save_path]) <= MaxBlind
  /\ fileLength' = IF reachable THEN Len(upload_info[t.remotefile_url].md5) ELSE Unknown
  /\ pc' = "download"
  /\ UNCHANGED <<upload_info, file, file_infos, memoryVars, events>>

(* s.Download(of): appends as much of the answer as arrives.  A file longer *)
(* than every content matches none and is resumed with a 416 only: of such *)
(* a file the first MaxTmp chunks are kept, for the code does the same     *)
(* with all of them.                                                       *)
Download(complete) ==
  /\ pc = "download"
  /\ LET body == Body(cur.remotefile_url, Len(tmp[cur.save_path]), fileLength)
     IN  \E k \in IF complete THEN {Len(body)} ELSE 0..(Len(body) - 1) :
           /\ LET c == tmp[cur.save_path] \o SubSeq(body, 1, k)
              IN  tmp' = [tmp EXCEPT ![cur.save_path] = SubSeq(c, 1, Min({Len(c), MaxTmp}))]
           /\ s_totalSize' = s_totalSize + k
  /\ pc' = "finish"
  /\ UNCHANGED <<upload_info, inbox, file, file_infos, m_fileInfo_vec, cur, fileLength, events>>

(* s_totalSize >= fileLength; the comparison is unsigned. *)
IsComplete == fileLength # Unknown /\ s_totalSize >= fileLength

(* Mutant of Rename: s_totalSize keeps counting. *)
Rename_keeps_total ==
  /\ pc = "finish" /\ IsComplete
  /\ s_totalSize' = s_totalSize
  /\ file' = [file EXCEPT ![cur.save_path] = tmp[cur.save_path]]
  /\ tmp' = [tmp EXCEPT ![cur.save_path] = NoFile]
  /\ pc' = "check"
  /\ UNCHANGED <<upload_info, inbox, file_infos, m_fileInfo_vec, cur, fileLength, events>>

(* Mutant of Rename: the .tmp file is copied. *)
Rename_copies ==
  /\ pc = "finish" /\ IsComplete
  /\ s_totalSize' = 0
  /\ file' = [file EXCEPT ![cur.save_path] = tmp[cur.save_path]]
  /\ pc' = "check"
  /\ UNCHANGED <<upload_info, inbox, tmp, file_infos, m_fileInfo_vec, cur, fileLength, events>>

Rename ==
  /\ pc = "finish" /\ IsComplete
  /\ s_totalSize' = 0
  /\ file' = [file EXCEPT ![cur.save_path] = tmp[cur.save_path]]
  /\ tmp' = [tmp EXCEPT ![cur.save_path] = NoFile]
  /\ pc' = "check"
  /\ UNCHANGED <<upload_info, inbox, file_infos, m_fileInfo_vec, cur, fileLength, events>>

(* The handler returns; what is left in its local variables is forgotten. *)
Returns == pc' = "idle" /\ cur' = NoInfo /\ fileLength' = Unknown

(* The download counts as failed; the .tmp file stays for the next time. *)
Incomplete ==
  /\ pc = "finish" /\ ~IsComplete
  /\ Returns
  /\ UNCHANGED <<upload_info, inbox, file, tmp, file_infos, memoryVars, events>>

(* downloadFile(t): md5 and size of the file under save_path. *)
Matches(t) == file[t.save_path] = t.md5

(* A file that differs is not removed (a TODO in the code). *)
Mismatch ==
  /\ pc = "check" /\ ~Matches(cur)
  /\ Returns
  /\ UNCHANGED <<upload_info, inbox, file, tmp, file_infos, memoryVars, events>>

(* updateFileInfos: t replaces the first record with its md5, or with its  *)
(* filename and type, or is added.                                         *)
WithRecord(v, t) ==
  LET same(f) == f.md5 = t.md5 \/ (f.filename = t.filename /\ f.type = t.type)
      at == {i \in DOMAIN v : same(v[i])}
  IN  IF at = {} THEN Append(v, t)
      ELSE [v EXCEPT ![CHOOSE i \in at : \A j \in at : i <= j] = t]

(* updateFileInfos up to the removal of the old file_infos.json *)
UpdateFileInfos ==
  /\ pc = "check" /\ Matches(cur)
  /\ m_fileInfo_vec' = WithRecord(m_fileInfo_vec, cur)
  /\ file_infos' = Absent
  /\ pc' = "save"
  /\ UNCHANGED <<upload_info, inbox, file, tmp, s_totalSize, cur, fileLength, events>>

(* writeFileInfos2File writes the new one. *)
WriteFileInfos ==
  /\ pc = "save"
  /\ file_infos' = Saved(m_fileInfo_vec)
  /\ Returns
  /\ UNCHANGED <<upload_info, inbox, file, tmp, memoryVars, events>>

(***************************************************************************)
(* Crash and restart                                                       *)
(***************************************************************************)

(* What is lost: the memory, the connection, a tail of a file renamed      *)
(* before its stream was flushed, part of a file_infos.json being written. *)
Crash ==
  /\ pc # "down" /\ Counted
  /\ pc' = "down"
  /\ inbox' = <<>>
  /\ m_fileInfo_vec' = <<>> /\ s_totalSize' = 0
  /\ cur' = NoInfo /\ fileLength' = Unknown
  /\ IF pc = "check"
     THEN \E c \in Prefixes(file[cur.save_path]) : file' = [file EXCEPT ![cur.save_path] = c]
     ELSE UNCHANGED file
  /\ file_infos' \in IF pc = "save" THEN {Absent, Torn} ELSE {file_infos}
  /\ UNCHANGED <<upload_info, tmp>>

(* checkFileInfos keeps the records whose file is intact; it looks for the *)
(* file under remotefile_url.                                              *)
checkFileInfos(v) == SelectSeq(v, LAMBDA f : file[f.remotefile_url] = f.md5)

(* loadFileInfosFromStr: a type that is not a number is left out.          *)
loadFileInfosFromStr(j) ==
  [i \in DOMAIN j.infos |-> [j.infos[i] EXCEPT !.type = LostType]]

(* The daemon starts the client again: loadLocalFileInfos. *)
Restart ==
  /\ pc = "down"
  /\ pc' = "idle"
  /\ m_fileInfo_vec' = checkFileInfos(loadFileInfosFromStr(file_infos))
  /\ UNCHANGED <<upload_info, inbox, file, tmp, file_infos, s_totalSize, cur, fileLength, events>>

(***************************************************************************)
(* Specification                                                           *)
(***************************************************************************)

Work == (\E complete \in BOOLEAN : Download(complete))
          \/ Rename \/ Incomplete \/ Mismatch \/ UpdateFileInfos \/ WriteFileInfos \/ Restart

Handle == \E t \in Infos :
            Skip(t) \/ \E reachable \in BOOLEAN : StartDownload(t, reachable)

Next ==
  \/ \E t \in Infos : Upload(t)
  \/ \E u \in Url : PushFile(u)
  \/ Handle
  \/ Work
  \/ Crash

Spec == Init /\ [][Next]_vars

(* The client's thread makes progress.  The rest is what "pushed again and *)
(* again over a network that works in the end" means: from some time on    *)
(* the length is always answered and answers arrive whole.                 *)
Fairness ==
  /\ WF_vars(Work) /\ WF_vars(Handle)
  /\ \A u \in Url : SF_vars(PushFile(u))
  /\ <>[][~Download(FALSE) /\ \A t \in Infos : ~StartDownload(t, FALSE)]_vars

FairSpec == Spec /\ Fairness

(***************************************************************************)
(* Properties                                                              *)
(***************************************************************************)

(* The chunks in all .tmp files. *)
TmpTotal == MapThenSumSet(LAMBDA p : IF tmp[p] = NoFile THEN 0 ELSE Len(tmp[p]), Path)

(* The types of the variables. *)
TypeOK ==
  /\ upload_info \in [Url -> Infos \union {NoInfo}]
  /\ inbox \in Seq(Infos) /\ Len(inbox) <= InboxCap
  /\ DOMAIN file = Path /\ DOMAIN tmp = Path
  /\ file_infos.st \in {"absent", "torn", "saved"}
  /\ s_totalSize \in Nat
  /\ pc \in {"idle", "download", "finish", "check", "save", "down"}
  /\ cur \in Infos \union {NoInfo}
  /\ fileLength \in Nat \union {Unknown}
  /\ events \in 0..MaxEvents

(* s_totalSize, which all downloads share, counts chunks that are in some   *)
(* .tmp file still, also after failed downloads, other files' downloads    *)
(* and crashes: otherwise a download would count as complete too early.    *)
CountsWhatIsThere == s_totalSize <= TmpTotal

(* A file whose record says that it is there while its content is another. *)
Stale(t) == ~isNeedDownload(t) /\ file[t.save_path] # t.md5

(* A file that is pushed again and again is installed in the end, whatever *)
(* crashes, broken transfers, other files' downloads and mixtures of its   *)
(* versions left on the disk and in s_totalSize, unless it is replaced or  *)
(* a stale record hides the damage.                                        *)
EventuallyInstalled ==
  \A t \in Infos :
    upload_info[t.remotefile_url] = t ~>
      \/ file[t.save_path] = t.md5
      \/ upload_info[t.remotefile_url] # t
      \/ Stale(t)

(* However often files are pushed, each is recorded in the end and no      *)
(* longer downloaded (readme.md:13), also after a restart that lost its    *)
(* record or its type.  This needs files that differ in content: of two    *)
(* equal ones each takes the other's record (updateFileInfos).             *)
DownloadsCease == <>[](pc # "download")

=============================================================================
