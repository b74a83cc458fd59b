--------------------------- MODULE HttpStaticFile ---------------------------
(***************************************************************************)
(* handleStaticFileRequest() of src/src/HttpServer.cpp and the cache of    *)
(* files below it.  The connections of a server ask for files from several *)
(* threads; only staticFileCacheMutex_ is held, for a lookup or a store,   *)
(* and the files change while they are looked at and read.                 *)
(***************************************************************************)
EXTENDS Integers, FiniteSets, SequencesExt

CONSTANTS
    Threads,
    Directory,    \* the canonical path that files are served from
    Canonical,    \* the canonical path of a requested one, <<>> if it has none
    Sizes,        \* of a version of a file
    CacheLimits,  \* values of staticFileCacheLimit_
    FileRequests, \* [path, method, kind, from, to, any, tags, since]: the Range header is
                  \* "none", "bad" or a "range", with -1 for a number that is left out;
                  \* the conditions are If-None-Match, with * or tags, and
                  \* If-Modified-Since
    MaxWrites     \* bound on the changes of files

VARIABLE f   \* the files, how often they changed, the cache, its limit, the threads

Missing == [version |-> 0, size |-> 0]
NoEntry == [size |-> -1, lastWriteTime |-> 0, body |-> <<>>]
Idle == [pc |-> "idle", seen |-> 0]
FilePaths == {Canonical[p] : p \in DOMAIN Canonical}

FilesInit ==
    f = [files |-> [p \in FilePaths |-> Missing], writes |-> 0,
         cache |-> [p \in FilePaths |-> NoEntry], limit |-> Max(CacheLimits),
         at |-> [t \in Threads |-> Idle]]

-----------------------------------------------------------------------------

\* A version is written at a time of its own.  It has the bytes <<version, 0>>, ...
Bytes(version, offset, length) == [i \in 1..length |-> <<version, offset + i - 1>>]

Tag(size, lastWriteTime) == <<size, lastWriteTime>>      \* buildStaticFileEtag()

IsNotModified(r, etag, lastWriteTime) ==
    r.any \/ etag \in r.tags \/ r.since = lastWriteTime

\* parseRangeHeader(): the offset and the length, or none.
ParseRange(range, fileSize) ==
    LET length == Min({range.to, fileSize})
        end == Min({IF range.to = -1 THEN fileSize - 1 ELSE range.to, fileSize - 1})
        none == [offset |-> 0, length |-> 0]
    IN  IF fileSize = 0 \/ range.kind = "bad" THEN none
        ELSE IF range.from = -1
        THEN IF range.to = 0 THEN none ELSE [offset |-> fileSize - length, length |-> length]
        ELSE IF range.from >= fileSize \/ (range.to # -1 /\ range.to < range.from) THEN none
        ELSE [offset |-> range.from, length |-> end - range.from + 1]

Answered(t, status, length, body) ==
    [f EXCEPT !.at[t] = [pc |-> "done", seen |-> @.seen, r |-> @.r, status |-> status,
                         length |-> length, body |-> body]]

\* The path, and whether a file is there.
HandleStaticFileRequest(t, r) ==
    LET path == Canonical[r.path]
        asked == [f EXCEPT !.at[t] = [pc |-> "time", r |-> r, path |-> path,
                                      seen |-> f.files[path].version]]
        Fails(status) == [asked EXCEPT !.at[t] = [pc |-> "done", seen |-> 0, r |-> r,
                                          status |-> status, length |-> 0, body |-> <<>>]]
    IN  /\ f.at[t].pc \in {"idle", "done"}
        /\ f' = IF path = <<>> THEN Fails(404)
                ELSE IF ~IsPrefix(Directory, path) THEN Fails(403)
                ELSE IF f.files[path] = Missing THEN Fails(404)
                ELSE asked

LastWriteTime(t) ==
    LET file == f.files[f.at[t].path] IN
    /\ f.at[t].pc = "time"
    /\ f' = IF file = Missing THEN Answered(t, 500, 0, <<>>)
            ELSE [f EXCEPT !.at[t] = [pc |-> "size", seen |-> @.seen, r |-> @.r, path |-> @.path,
                                      time |-> file.version]]

\* file_size() and the choice of an answer.  What is longer than the limit is left to
\* TcpServer, which sends it from the file.
FileSize(t) ==
    LET q == f.at[t]
        r == q.r
        size == f.files[q.path].size
        ranged == r.kind # "none" /\ r.method \in {"GET", "HEAD"}
        part == IF ranged THEN ParseRange(r, size) ELSE [offset |-> 0, length |-> size]
        status == IF ranged THEN 206 ELSE 200
    IN  /\ q.pc = "size"
        /\ f' = IF f.files[q.path] = Missing THEN Answered(t, 500, 0, <<>>)
                ELSE IF ~ranged /\ IsNotModified(r, Tag(size, q.time), q.time)
                     THEN Answered(t, 304, 0, <<>>)
                ELSE IF ranged /\ part.length = 0 THEN Answered(t, 416, 0, <<>>)
                ELSE IF r.method = "HEAD" \/ part.length > f.limit
                     THEN Answered(t, status, part.length, <<>>)
                ELSE [f EXCEPT !.at[t] =
                         [pc |-> IF ranged THEN "read" ELSE "lookup", seen |-> q.seen, r |-> r,
                          path |-> q.path, time |-> q.time, part |-> part, size |-> size]]

\* Mutation of CacheHit: an entry is taken for its size alone.
CacheHitOfSize(entry, size, lastWriteTime) == entry.size = size

CacheHit(entry, size, lastWriteTime) ==
    entry.size = size /\ entry.lastWriteTime = lastWriteTime

\* loadStaticFile(): the lookup under the mutex ...
Lookup(t) ==
    LET q == f.at[t]
        entry == f.cache[q.path]
    IN  /\ q.pc = "lookup"
        /\ f' = IF q.size > f.limit THEN [f EXCEPT !.at[t].pc = "read"]
                ELSE IF CacheHit(entry, q.size, q.time) THEN Answered(t, 200, q.size, entry.body)
                ELSE [f EXCEPT !.at[t].pc = "fill"]

\* ... readFileSegment(), which fails on a file that has become too short ...
ReadFileSegment(t) ==
    LET q == f.at[t]
        file == f.files[q.path]
        body == Bytes(file.version, q.part.offset, q.part.length)
    IN  /\ q.pc \in {"read", "fill"}
        /\ f' = IF file = Missing \/ file.size < q.part.offset + q.part.length
                THEN Answered(t, 500, 0, <<>>)
                ELSE IF q.pc = "read"
                THEN Answered(t, IF q.r.kind # "none" THEN 206 ELSE 200, q.part.length, body)
                ELSE [f EXCEPT !.at[t] = [pc |-> "store", seen |-> q.seen, r |-> q.r, path |-> q.path,
                                          time |-> q.time, size |-> q.size, body |-> body]]

\* ... and the store, with the time and the size seen before the file was read.
Store(t) ==
    LET q == f.at[t] IN
    /\ q.pc = "store"
    /\ f' = [Answered(t, 200, q.size, q.body) EXCEPT
                !.cache[q.path] = [size |-> q.size, lastWriteTime |-> q.time, body |-> q.body]]

\* setStaticFileCacheLimit(), and with the same limit stop() or
\* registerStaticFileHandler(), which empty the cache.
ClearCache ==
    \E limit \in CacheLimits :
        f' = [f EXCEPT !.limit = limit, !.cache = [p \in FilePaths |-> NoEntry]]

\* Somebody writes a file, or removes it.
FileChanges ==
    /\ f.writes < MaxWrites
    /\ \E p \in FilePaths \ {<<>>}, new \in {Missing} \cup [version : {f.writes + 1}, size : Sizes] :
           f' = [f EXCEPT !.files[p] = new, !.writes = @ + 1]

FilesNext ==
    \/ \E t \in Threads :
           \/ \E r \in FileRequests : HandleStaticFileRequest(t, r)
           \/ LastWriteTime(t) \/ FileSize(t) \/ Lookup(t) \/ ReadFileSegment(t) \/ Store(t)
    \/ ClearCache \/ FileChanges

-----------------------------------------------------------------------------
\* The bytes that a Range header asks for of a file.
Wanted(range, size) ==
    {i \in 0..(size - 1) :
        IF range.kind = "none" THEN TRUE
        ELSE IF range.from = -1 THEN i >= size - range.to
        ELSE i >= range.from /\ (range.to = -1 \/ i <= range.to)}

\* A file is never served stale: the body of a 200 or 206 is of one version, not older
\* than the file was when the request came, and has the bytes asked for and the length
\* announced; a 304 goes only to who has a version as new as that.
FilesFresh ==
    \A t \in Threads :
        LET q == f.at[t] IN
        q.pc = "done" =>
            /\ q.body # <<>> =>
                   /\ q.length = Len(q.body)
                   /\ \A i \in DOMAIN q.body : q.body[i][1] = q.body[1][1] /\ q.body[1][1] >= q.seen
                   /\ \E size \in Sizes :
                          {q.body[i][2] : i \in DOMAIN q.body} = Wanted(q.r, size)
            /\ q.status = 304 =>
                   q.r.any \/ q.r.since >= q.seen \/ \E tag \in q.r.tags : tag[2] >= q.seen
            /\ q.status = 416 => q.r.kind = "bad" \/ \E size \in Sizes : Wanted(q.r, size) = {}

=============================================================================
