------------------------------ MODULE Archives ------------------------------
(***************************************************************************)
(* A backup as a file: the archive the server writes and reads             *)
(* (backup/format.ts), the document in it and how what is missing is       *)
(* repaired, the old server's .tachibk (backup/tachibk.ts), what a backup  *)
(* needs that is not here (backup/restore.ts), and the upload that carries *)
(* one (graphql/multipart.ts).  What the document holds of a library, and  *)
(* what is restored of it, are modules Library and ChapterList.            *)
(*                                                                         *)
(* A file is a sequence of cells: a header of the format is one cell, and  *)
(* so is a byte of what it carries.                                        *)
(***************************************************************************)
EXTENDS Integers, Sequences, SequencesExt, FiniteSets

CONSTANTS
    MaxComment,   \* how far from the end the end record may start
    MaxBytes      \* bound: bytes of an entry

ASSUME ArchivesAssumption == MaxComment \in Nat /\ MaxBytes \in Nat

VARIABLES
    source,    \* what was to be kept, or was kept by others
    file,      \* the cells of it as they are
    outcome    \* what came of reading

archiveVars == <<source, file, outcome>>

NoFile == [kind |-> "nothing"]
Refused == [kind |-> "refused"]
Read(value) == [kind |-> "read", value |-> value]
FirstOf(S) == CHOOSE i \in S : \A j \in S : i <= j
LastOf(S) == CHOOSE i \in S : \A j \in S : i >= j

-----------------------------------------------------------------------------
(* The archive.                                                            *)

Byte(c) == [cell |-> "byte", c |-> c]
Junk == [cell |-> "junk"]
Runs(c, n) == [cell |-> "runs", c |-> c, n |-> n]
EndRecord(count, at) == [cell |-> "end", count |-> count, at |-> at]

\* deflateRawSync and inflateRawSync: a run of one byte is what it shortens.
Deflate(data) ==
    IF Len(data) > 1 /\ \A k \in DOMAIN data : data[k] = data[1] /\ data[k].cell = "byte"
    THEN <<Runs(data[1].c, Len(data))>> ELSE data
Inflates(cells) == Len(cells) = 1 /\ cells[1].cell = "runs"
Inflate(cells) == [k \in 1..cells[1].n |-> Byte(cells[1].c)]

\* crc32: no two contents of the model share one.
Crc(data) == data

\* One entry more: its header and payload, and its line of the directory.
\* Stored where deflating has not made it shorter.
EntryWritten(zip, entry) ==
    LET deflated == Deflate(entry.data)
        stored == Len(deflated) >= Len(entry.data)
        payload == IF stored THEN entry.data ELSE deflated
        head == [cell |-> "local", name |-> entry.name]
        line == [cell |-> "central", name |-> entry.name, stored |-> stored,
                 crc |-> Crc(entry.data), length |-> Len(payload), size |-> Len(entry.data),
                 at |-> Len(zip.locals)]
    IN  [locals |-> zip.locals \o <<head>> \o payload,
         directory |-> zip.directory \o <<line>>]

WriteZip(entries) ==
    LET zip == FoldLeft(EntryWritten, [locals |-> <<>>, directory |-> <<>>], entries)
    IN  zip.locals \o zip.directory \o <<EndRecord(Len(entries), Len(zip.locals))>>

Ends(cells) ==
    {k \in DOMAIN cells : cells[k].cell = "end" /\ k >= Len(cells) - MaxComment}

\* Mutant: the first end record in reach is taken.
FirstEnd(cells) == IF Ends(cells) = {} THEN 0 ELSE FirstOf(Ends(cells))
\* From the back, for a payload may hold what reads like one.
FindEndRecord(cells) == IF Ends(cells) = {} THEN 0 ELSE LastOf(Ends(cells))

\* The k-th entry the directory lists.
Line(cells, end, k) == cells[cells[end].at + k]
PayloadOf(cells, line) ==
    SubSeq(cells, line.at + 2, IF line.at + 1 + line.length <= Len(cells)
                               THEN line.at + 1 + line.length ELSE Len(cells))
Unpacked(cells, line) ==
    IF line.stored THEN PayloadOf(cells, line) ELSE Inflate(PayloadOf(cells, line))

\* Mutant: what comes out is not compared with its checksum.
Unsummed(data, line) == Len(data) = line.size
SumsUp(data, line) == Len(data) = line.size /\ Crc(data) = line.crc

EntryReads(cells, end, k) ==
    /\ cells[end].at + k \in DOMAIN cells /\ Line(cells, end, k).cell = "central"
    /\ LET line == Line(cells, end, k)
       IN  /\ line.at + 1 \in DOMAIN cells /\ cells[line.at + 1].cell = "local"
           /\ Len(PayloadOf(cells, line)) = line.length
           /\ line.stored \/ Inflates(PayloadOf(cells, line))
           /\ SumsUp(Unpacked(cells, line), line)

\* name -> bytes; a later entry of a name takes the place of an earlier one.
ReadZip(cells) ==
    LET end == FindEndRecord(cells)
    IN  IF end = 0 THEN Refused
        ELSE IF \E k \in 1..cells[end].count : ~EntryReads(cells, end, k) THEN Refused
        ELSE LET names == {Line(cells, end, k).name : k \in 1..cells[end].count}
             IN  Read([name \in names |->
                    LET k == LastOf({j \in 1..cells[end].count : Line(cells, end,
                                                                      j).name = name})
                    IN  Unpacked(cells, Line(cells, end, k))])

LooksLikeZip(cells) == cells # <<>> /\ cells[1].cell = "local"

\* The one entry every backup has.
ReadBackupZip(cells) ==
    LET zip == ReadZip(cells)
    IN  IF zip = Refused THEN Refused
        ELSE IF "backup.json" \notin DOMAIN zip.value THEN Refused
        ELSE Read(zip.value["backup.json"])

\* readBackup of a file that is not gzip.
ReadBackup(cells) == IF LooksLikeZip(cells) THEN ReadBackupZip(cells) ELSE Refused

-----------------------------------------------------------------------------
(* Files come to harm between the writing and the reading: a byte changed, *)
(* the rest of it missing, something after it.                             *)

WriteBackupZip ==
    /\ source = NoFile
    /\ \E data \in UNION {[1..n -> {Byte(0), Byte(1), EndRecord(0, 0)}] : n \in 1..MaxBytes} :
          /\ source' = [kind |-> "archive", data |-> data, harm |-> "none"]
          /\ \E more \in {<<>>, <<[name |-> "covers", data |-> <<Byte(0)>>]>>} :
                file' = WriteZip(<<[name |-> "backup.json", data |-> data]>> \o more)
    /\ UNCHANGED outcome

HarmFile ==
    /\ source.kind = "archive" /\ source.harm = "none" /\ outcome = NoFile
    /\ \/ /\ \E k \in DOMAIN file : file' = [file EXCEPT ![k] = Junk]
          /\ source' = [source EXCEPT !.harm = "changed"]
       \/ /\ \E n \in 0..(Len(file) - 1) : file' = SubSeq(file, 1, n)
          /\ source' = [source EXCEPT !.harm = "cut"]
       \/ /\ \E n \in 1..(MaxComment + 1) :
                /\ file' = file \o [k \in 1..n |-> Byte(0)]
                /\ source' = [source EXCEPT !.harm = IF n > MaxComment THEN "far" ELSE "after"]
    /\ UNCHANGED outcome

OpenArchive ==
    /\ source.kind = "archive" /\ outcome = NoFile
    /\ outcome' = ReadBackup(file)
    /\ UNCHANGED <<source, file>>

-----------------------------------------------------------------------------
(* The document.  A member is "absent", of another type ("junk") or good.  *)

AsBoolean(v) == v = "yes"
AsText(v, fallback) == IF v \in {"absent", "junk"} THEN fallback ELSE v

ChapterFrom(raw) ==
    IF raw.url \in {"absent", "junk", ""} THEN <<>>
    ELSE <<[url |-> raw.url, name |-> AsText(raw.name, raw.url),
            isRead |-> AsBoolean(raw.isRead)]>>

TrackFrom(raw) ==
    IF raw.trackerId <= 0 \/ raw.remoteId = "" THEN <<>> ELSE <<raw>>

\* Without a source and a url an entry could only be inserted again each time.
MangaFrom(raw) ==
    IF raw.sourceId = "" \/ raw.url \in {"absent", "junk", ""} THEN <<>>
    ELSE <<[sourceId |-> raw.sourceId, url |-> raw.url,
            inLibrary |-> raw.inLibrary = "absent" \/ AsBoolean(raw.inLibrary),
            chapters |-> FlattenSeq([k \in DOMAIN raw.chapters |-> ChapterFrom(raw.chapters[k])]),
            tracking |-> FlattenSeq([k \in DOMAIN raw.tracking |-> TrackFrom(raw.tracking[k])])]>>

\* 0 where the file does not say which format it is in; ours is 1.
ParseDocument(raw) ==
    IF raw.version # 1 \/ AsText(raw.app, "stremio4manga") # "stremio4manga" THEN Refused
    ELSE Read(FlattenSeq([k \in DOMAIN raw.manga |-> MangaFrom(raw.manga[k])]))

RawChapters == [url : {"absent", "a", "b"}, name : {"absent", "one"},
                isRead : {"absent", "junk", "yes"}]
RawTracks == {[trackerId |-> 0, remoteId |-> "5"], [trackerId |-> 2, remoteId |-> "5"],
              [trackerId |-> 1, remoteId |-> ""]}
RawManga ==
    [sourceId : {"", "s"}, url : {"absent", "u"}, inLibrary : {"absent", "no", "yes"},
     chapters : {<<>>} \cup {<<c, [url |-> "z", name |-> "last",
                                   isRead |-> "yes"]>> : c \in RawChapters},
     tracking : {<<>>} \cup {<<x>> : x \in RawTracks}]

OpenDocument ==
    /\ source = NoFile
    /\ \E version \in 0..2, app \in {"absent", "stremio4manga", "other"}, m \in RawManga :
          LET kept == [sourceId |-> "s", url |-> "v", inLibrary |-> "no", chapters |-> <<>>,
                       tracking |-> <<>>]
              raw == [version |-> version, app |-> app, manga |-> <<m, kept>>]
          IN  source' = [kind |-> "document", raw |-> raw] /\ outcome' = ParseDocument(raw)
    /\ UNCHANGED file

-----------------------------------------------------------------------------
(* The old server's backup.  What equals its default there is not written. *)

\* Suwayomi counts chapters from 1 and Tachiyomi from 0.
Lowest(chapters) == FirstOf({chapters[k].order : k \in DOMAIN chapters})
Shift(chapters) == IF Lowest(chapters) = 0 THEN 1 ELSE 0

\* The latest of the stamps kept under a chapter's url.
LastReadAt(history, url) == LastOf({0} \cup {h.at : h \in {g \in history : g.url = url}})

ToChapters(old) ==
    LET listed == SelectSeq(old.chapters, LAMBDA c : c.url # "")
    IN  [k \in DOMAIN listed |->
            [url |-> listed[k].url, sourceOrder |-> listed[k].order + Shift(old.chapters),
             lastReadAt |-> LastReadAt(old.history, listed[k].url)]]

\* The work's id, or else the reader's list entry for it.
RemoteId(track) == IF track.mediaId # 0 THEN track.mediaId ELSE track.libraryId
ToTracking(old) ==
    [records |-> {[remoteId |-> RemoteId(x)] : x \in {y \in old.tracking : y.syncId = 2 /\ RemoteId(y) # 0}},
     others |-> {x.syncId : x \in {y \in old.tracking : y.syncId \notin {0, 2}}}]

\* By the mark of the AniList entries, by name, by where the title is read
\* from; what is none of ours keeps its id.
ResolveSource(id, name, host) ==
    IF id = "1" \/ host = "anilist" THEN "anilist"
    ELSE IF name = "Ours" \/ host = "ours" THEN "ours"
    ELSE id

\* An order that is not written is taken from the place in the list.  The
\* Default of the old server is a row; here it is what no category has.
Ordered(categories) ==
    [k \in DOMAIN categories |->
        [name |-> categories[k].name,
         order |-> IF categories[k].order = "absent" THEN k - 1 ELSE categories[k].place]]
ToCategories(old) ==
    SelectSeq(Ordered(old.categories),
              LAMBDA c : c.name # "" /\ ~(c.name = "Default" /\ c.order = 0))

ReadTachibk(old) ==
    [inLibrary |-> old.favorite # "no", sourceId |-> ResolveSource(old.id, old.name, old.host),
     chapters |-> ToChapters(old), tracking |-> ToTracking(old), categories |-> ToCategories(old),
     filed |-> old.filed]

OldChapters == {<<>>} \cup
    {<<[url |-> u, order |-> first], [url |-> "c2", order |-> first + 1]>> :
        u \in {"", "c1"}, first \in 0..1}
OldHistory == SUBSET {[url |-> "c1", at |-> 3], [url |-> "c1", at |-> 5],
                      [url |-> "c2", at |-> 4]}
OldTracks == SUBSET {[syncId |-> 2, mediaId |-> 7, libraryId |-> 9],
                     [syncId |-> 2, mediaId |-> 0, libraryId |-> 8],
                     [syncId |-> 4, mediaId |-> 6, libraryId |-> 0]}
\* Written in order; the first has the default order.
OldCategories ==
    {[k \in 1..2 |-> [name |-> names[k], place |-> k - 1,
                      order |-> IF k = 1 THEN "absent" ELSE "written"]] :
        names \in {<<"Default", "A">>, <<"A", "B">>, <<"A", "Default">>, <<"Default", "">>}}

OpenTachibk ==
    /\ source = NoFile
    /\ \E id \in {"1", "9"}, name \in {"Ours", "Theirs"}, host \in {"anilist", "ours", "other"},
          favorite \in {"absent", "no"}, chapters \in OldChapters, history \in OldHistory,
          tracking \in OldTracks, categories \in OldCategories :
          /\ chapters = <<>> \/ (tracking = {} /\ host = "other" /\ name = "Theirs" /\ id = "9")
          /\ chapters # <<>> \/ history = {}
          /\ LET old == [id |-> id, name |-> name, host |-> host, favorite |-> favorite,
                         chapters |-> chapters, history |-> history, tracking |-> tracking,
                         categories |-> categories, filed |-> {1}]
             IN  source' = [kind |-> "tachibk", old |-> old] /\ outcome' = Read(ReadTachibk(old))
    /\ UNCHANGED file

-----------------------------------------------------------------------------
(* What a backup needs that is not here: AniList is tracker 2.             *)

MissingSources(entries, defined) == {e.sourceId : e \in entries} \ (defined \cup {"anilist"})
MissingTrackers(entries, unsupported, signedIn) ==
    (unsupported \cup UNION {e.trackers : e \in entries}) \ (IF signedIn THEN {2} ELSE {})

ValidateBackup ==
    /\ source = NoFile
    /\ \E entries \in SUBSET [sourceId : {"anilist", "ours", "9"}, trackers : SUBSET {1, 2}],
          unsupported \in SUBSET {4}, signedIn \in BOOLEAN :
          /\ Cardinality(entries) <= 2
          /\ source' = [kind |-> "validate", entries |-> entries, unsupported |-> unsupported,
                        signedIn |-> signedIn]
          /\ outcome' = Read([sources |-> MissingSources(entries, {"ours"}),
                              trackers |-> MissingTrackers(entries, unsupported, signedIn)])
    /\ UNCHANGED file

-----------------------------------------------------------------------------
(* The upload.  The cells of a body: "mark" (a line break, two dashes and  *)
(* the boundary), "dashes", "break", "blank" (an empty line), the headers  *)
(* of a part, and bytes.                                                   *)

Body(parts) ==
    FlattenSeq([k \in DOMAIN parts |->
        <<"mark", "break", parts[k].name, "blank">> \o parts[k].data]) \o <<"mark", "dashes">>

NextOf(cells, cell, from) ==
    LET at == {k \in DOMAIN cells : k > from /\ cells[k] = cell}
    IN  IF at = {} THEN 0 ELSE FirstOf(at)
CellAt(cells, k) == IF k \in DOMAIN cells THEN cells[k] ELSE "none"

\* Mutant: a part ends at the first line break.
LineEnd(cells, from) == NextOf(cells, "break", from)
PartEnd(cells, from) == NextOf(cells, "mark", from)

\* Where the k-th delimiter stands; 0 where the body is not in order before.
SplitParts(cells) ==
    LET stands[k \in 0..Len(cells)] ==
            IF k = 0 THEN IF CellAt(cells, 1) = "mark" THEN 1 ELSE 0
            ELSE LET before == stands[k - 1]
                     headerEnd == NextOf(cells, "blank", before)
                 IN  IF before = 0 THEN 0
                     ELSE IF CellAt(cells, before + 1) # "break" \/ headerEnd = 0 THEN 0
                     ELSE PartEnd(cells, headerEnd)
        last == {k \in 0..Len(cells) : stands[k] # 0 /\ CellAt(cells, stands[k] + 1) = "dashes"}
    IN  IF last = {} THEN Refused
        ELSE Read([k \in 1..FirstOf(last) |->
                [name |-> cells[stands[k - 1] + 2],
                 data |-> SubSeq(cells, NextOf(cells, "blank", stands[k - 1]) + 1,
                                 stands[k] - 1)]])

\* The file goes to a variable of its own: one inside another was not sent.
InjectAt(path) == path = <<"variables", "backup">>

ReadMultipartRequest(cells, path) ==
    LET parts == SplitParts(cells)
        named(name) == SelectSeq(parts.value, LAMBDA p : p.name = name)
    IN  IF parts = Refused THEN Refused
        ELSE IF \E name \in {"operations", "map", "0"} : named(name) = <<>> THEN Refused
        ELSE IF ~InjectAt(path) THEN Refused
        ELSE Read(Last(named("0")).data)

UploadGraphQL ==
    /\ source = NoFile
    /\ \E data \in UNION {[1..n -> {"break", "dashes", "blank", "byte"}] : n \in 0..MaxBytes},
          path \in {<<"variables", "backup">>, <<"variables", "input", "backup">>} :
          LET parts == <<[name |-> "operations", data |-> <<"byte">>],
                         [name |-> "map", data |-> <<"byte">>], [name |-> "0", data |-> data]>>
          IN  \E n \in {Len(Body(parts))} \cup (Len(Body(parts)) - 4)..(Len(Body(parts)) - 1) :
                 /\ source' = [kind |-> "upload", data |-> data, path |-> path,
                               cut |-> n < Len(Body(parts))]
                 /\ outcome' = ReadMultipartRequest(SubSeq(Body(parts), 1, n), path)
    /\ UNCHANGED file

-----------------------------------------------------------------------------
ArchivesInit == source = NoFile /\ file = <<>> /\ outcome = NoFile

ArchivesNext ==
    \/ WriteBackupZip \/ HarmFile \/ OpenArchive
    \/ OpenDocument \/ OpenTachibk \/ ValidateBackup \/ UploadGraphQL

ArchivesSpec == ArchivesInit /\ [][ArchivesNext]_archiveVars

-----------------------------------------------------------------------------
\* What is read is one of the kinds there are.
ArchivesTypeOK ==
    /\ source.kind \in {"nothing", "archive", "document", "tachibk", "validate", "upload"}
    /\ outcome.kind \in {"nothing", "read", "refused"}
    /\ file # <<>> => source.kind = "archive"

\* An archive is read back as it was written or refused, whatever happened to
\* the file, and one that nothing happened to, or that only something short
\* was put after, is read (format.ts:67-70).
ArchiveIsWholeOrRefused ==
    source.kind = "archive" /\ outcome # NoFile =>
        /\ outcome = Refused \/ outcome = Read(source.data)
        /\ source.harm \in {"none", "after"} => outcome = Read(source.data)

\* A document of this format and application brings every title that can be
\* told from others, in order, read marks and links that can be used, and one
\* that does not say is in the library; no other document is read at all.
DocumentIsRepaired ==
    source.kind = "document" =>
        LET raw == source.raw
            lawful == raw.version = 1 /\ raw.app # "other"
            named == raw.manga[1].sourceId # "" /\ raw.manga[1].url = "u"
        IN  /\ (outcome = Refused) = ~lawful
            /\ lawful =>
                  /\ Len(outcome.value) = (IF named THEN 2 ELSE 1)
                  /\ Last(outcome.value).url = "v" /\ ~Last(outcome.value).inLibrary
                  /\ named => LET m == outcome.value[1] IN
                        /\ m.inLibrary = (raw.manga[1].inLibrary # "no")
                        /\ raw.manga[1].chapters # <<>> => Last(m.chapters).url = "z"
                        /\ \A x \in ToSet(m.tracking) : x.trackerId > 0 /\ x.remoteId # ""
                        /\ \A c \in ToSet(m.chapters) : c.isRead =>
                              \E r \in ToSet(raw.manga[1].chapters) : r.url = c.url /\ r.isRead = "yes"

\* A title of the old server comes with its chapters in their order and from
\* one, when each was last read, the categories it was filed under and every
\* link to AniList; a source that is one of ours is (tachibk.ts:15-31).
TachibkIsMapped ==
    source.kind = "tachibk" =>
        LET old == source.old
            new == outcome.value
        IN  /\ new.inLibrary = (old.favorite = "absent")
            /\ \A k \in DOMAIN new.chapters :
                  /\ new.chapters[k].sourceOrder >= 1
                  /\ k > 1 => new.chapters[k].sourceOrder > new.chapters[k - 1].sourceOrder
                  /\ \A h \in old.history :
                        h.url = new.chapters[k].url => new.chapters[k].lastReadAt >= h.at
            /\ {c.url : c \in ToSet(new.chapters)} = {c.url : c \in ToSet(old.chapters)} \ {""}
            /\ \A n \in new.filed : old.categories[n + 1].name # "" =>
                  \E c \in ToSet(new.categories) :
                     c.order = n /\ c.name = old.categories[n + 1].name
            /\ \A c \in ToSet(new.categories) : c.name = "Default" => c.order # 0
            /\ Cardinality(new.tracking.records) = Cardinality({x \in old.tracking : x.syncId = 2})
            /\ old.host = "ours" /\ old.id # "1" => new.sourceId = "ours"
            /\ old.host = "other" /\ old.name = "Theirs" => new.sourceId \in {"anilist", old.id}

\* What a confirmation names is what will not work: no source that is here
\* and none twice, AniList only to who is not signed in to it.
MissingIsNamed ==
    source.kind = "validate" =>
        LET used == UNION {e.trackers : e \in source.entries} \cup source.unsupported
        IN  /\ \A e \in source.entries :
                  e.sourceId \in outcome.value.sources <=> e.sourceId \notin {"ours", "anilist"}
            /\ 2 \in outcome.value.trackers <=> 2 \in used /\ ~source.signedIn
            /\ outcome.value.trackers \ {2} = used \ {2}

\* An uploaded file arrives byte for byte or the request is refused
\* (multipart.ts:12-20).
UploadArrives ==
    source.kind = "upload" =>
        /\ outcome = Refused \/ outcome = Read(source.data)
        /\ ~source.cut /\ Len(source.path) = 2 => outcome = Read(source.data)

\* All that is asked of a backup as a file.
BackupsAreReadable ==
    /\ ArchiveIsWholeOrRefused /\ DocumentIsRepaired /\ TachibkIsMapped
    /\ MissingIsNamed /\ UploadArrives
=============================================================================
