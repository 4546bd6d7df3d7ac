-------------------------------- MODULE Feed --------------------------------
(***************************************************************************)
(* The feed: getUserFeedHandler (cmd/api/feed.go) and GetUserFeed          *)
(* (store/posts.go), read page by page by one client while posts are made, *)
(* edited and deleted, and users follow and unfollow.                      *)
(*                                                                         *)
(* A page is one SELECT, a snapshot of its own.  created_at has a          *)
(* resolution of a second and nothing breaks ties.  The loop over the rows *)
(* asks neither rows.Err nor the error of Scan, so a result that breaks    *)
(* off is a shorter page, or one that ends in a post without contents.     *)
(* since and until are parsed and then not used.                           *)
(***************************************************************************)
EXTENDS Pagination, FiniteSets, Sequences, SequencesExt

CONSTANTS Users,
          reader,      \* the client of the feed
          MaxStored,   \* bound: posts stored before the first page
          MaxPosts,    \* bound: ids given out
          MaxTime,     \* bound: seconds
          MaxChanges,  \* bound: changes to the tables while the feed is read
          Forms,       \* posts that may be written
          FollowRows,  \* rows of followers that may exist: <<follower, followed>>
          Queries      \* query strings of the first request

\* matches: the search term of the client is in the title and in the content.
\* readable: tags is NULL; otherwise the object that an empty list is stored as.
Contents == [author : Users, matches : BOOLEAN, readable : BOOLEAN]

ASSUME FeedAssumption == /\ reader \in Users
                         /\ Forms \subseteq Contents
                         /\ FollowRows \subseteq Users \X Users
                         /\ MaxStored \in 0..MaxPosts
\* The ids of posts are integers of the program's width too.
ASSUME BoundsAssumption == /\ MaxPosts \in 0..MaxInt
                           /\ MaxTime \in Nat \ {0} /\ MaxChanges \in Nat

VARIABLES posts,    \* table posts: id |-> [content, created]
          nextId,   \* the sequence of its ids
          follows,  \* table followers
          now,      \* the last second in which a post was made
          changes,
          pc,       \* "idle", "reading", "read", "refused", "failed"
          asked,    \* the query string of the first request
          page,     \* the page of the next request
          answer,   \* the last answer with status 200
          cut,      \* history: a result broke off
          got,      \* history: ids received
          twice,    \* history: times of rows received on two pages
          tied,     \* history: times that two rows of the feed shared
          gone,     \* history: times of rows that left the feed
          came      \* history: times of rows that entered it

tables == <<posts, nextId, follows, now, changes>>
client == <<pc, asked, page, answer, cut, got, twice, tied>>
vars == <<tables, client, gone, came>>

Times == 1..MaxTime
Rows == [content : Contents, created : Times]

\* The id of a post that Scan has not filled in.
Blank == 0

NoAnswer == [posts |-> <<>>, metadata |-> NoMetadata]

-----------------------------------------------------------------------------
\* LEFT JOIN followers f ON f.follower_id = users.id ... p.user_id = f.user_id:
\* the row of an author who follows himself.
Joined(author) == \E f \in follows : f[1] = author /\ f[2] = author

\* The WHERE clause.  tags is never an array, so ?| never holds.
Shown(c) == /\ c.author = reader \/ Joined(c.author)
            /\ asked.search # Absent => c.matches
            /\ asked.tags = Absent

FeedIds == {p \in DOMAIN posts : Shown(posts[p].content)}

Before(t, u) == IF Descending(asked) THEN t > u ELSE t < u

\* ORDER BY created_at: any order of the rows that agrees with their times.
Sorted(s) ==
    \A i, j \in 1..Len(s) : i < j => ~Before(posts[s[j]].created, posts[s[i]].created)

Orders == {s \in SetToSeqs(FeedIds) : Sorted(s)}

Skipped == Offset(page, PageSize(asked))

\* LIMIT and OFFSET; PostgreSQL refuses a negative one.
Slice(s) == SubSeq(s, Skipped + 1, Min({Len(s), Skipped + Limit(PageSize(asked))}))

Slices == IF Skipped < 0 THEN {} ELSE {Slice(s) : s \in Orders}

-----------------------------------------------------------------------------
\* Any tables that the program can have left, and any first request.
Init == /\ nextId \in 1..MaxStored + 1
        /\ posts \in [1..nextId - 1 -> [content : Forms, created : Times]]
        /\ follows \in SUBSET FollowRows
        /\ now = Max({1} \cup {posts[p].created : p \in DOMAIN posts})
        /\ changes = 0
        /\ pc = "idle"
        /\ asked \in Queries
        /\ page = Page(asked)
        /\ answer = NoAnswer
        /\ cut = FALSE
        /\ got = {} /\ twice = {} /\ tied = {} /\ gone = {} /\ came = {}

\* Parse returns an error: badRequestResponse.
Refuse ==
    /\ pc = "idle"
    /\ ~Accepted(asked)
    /\ pc' = "refused"
    /\ UNCHANGED <<tables, asked, page, answer, cut, got, twice, tied, gone, came>>

\* Rows counted by the program: the pages before, and this one if it is short.
TotalByShortPage(rows) ==
    IF Len(rows) \in 1..PageSize(asked) - 1
    THEN (page - 1) * PageSize(asked) + Len(rows)
    ELSE IF rows = <<>> THEN 0 ELSE Cardinality(FeedIds)

\* The total is a column of every row: without rows it is 0.
TotalRead(rows) == IF rows = <<>> THEN 0 ELSE Cardinality(FeedIds)

\* The client has an answer, the rows and perhaps a blank post behind them, and
\* asks for the next page up to the last one.
Receive(rows, blank) ==
    /\ answer' = [posts |-> rows \o blank,
                  metadata |-> calculateMetadata(TotalRead(rows), page, PageSize(asked))]
    /\ got' = got \cup ToSet(rows)
    /\ twice' = twice \cup {posts[p].created : p \in got \cap ToSet(rows)}
    /\ tied' = tied \cup {posts[p].created : p \in {p \in FeedIds :
                              \E q \in FeedIds \ {p} : posts[q].created = posts[p].created}}
    /\ IF page < answer'.metadata.last_page
       THEN pc' = "reading" /\ page' = page + 1
       ELSE pc' = "read" /\ UNCHANGED page
    /\ UNCHANGED <<tables, asked, gone, came>>

Asking == pc \in {"idle", "reading"} /\ Accepted(asked)

AllReadable(rows) == \A p \in ToSet(rows) : posts[p].content.readable

\* One page, complete.
ServePage ==
    /\ Asking
    /\ \E rows \in Slices : AllReadable(rows) /\ Receive(rows, <<>>)
    /\ UNCHANGED cut

\* The connection breaks, or the context ends, before a row: rows.Next is false,
\* or it is true and Scan fails, and the loop ends as if there were no more.
ServeCutPage ==
    /\ Asking
    /\ \E rows \in Slices : \E n \in 0..Len(rows) - 1 :
           /\ AllReadable(SubSeq(rows, 1, n))
           /\ \E blank \in {<<>>, <<Blank>>} : Receive(SubSeq(rows, 1, n), blank)
    /\ cut' = TRUE

\* The statement fails, as it must with a negative offset, or the tags of a row
\* do not decode: serverErrorResponse.
FailPage ==
    /\ Asking
    /\ pc' = "failed"
    /\ UNCHANGED <<tables, asked, page, answer, cut, got, twice, tied, gone, came>>

-----------------------------------------------------------------------------
\* What others do to the tables between two pages.
Change ==
    /\ pc = "reading"
    /\ changes < MaxChanges
    /\ changes' = changes + 1
    /\ UNCHANGED client

Moved == /\ gone' = gone \cup {posts[p].created : p \in FeedIds \ FeedIds'}
         /\ came' = came \cup {posts'[p].created : p \in FeedIds' \ FeedIds}

CreatePost ==
    /\ Change
    /\ nextId <= MaxPosts
    /\ nextId' = nextId + 1
    /\ now' \in now..MaxTime
    /\ \E c \in Forms :
           posts' = [p \in DOMAIN posts \cup {nextId} |->
                         IF p = nextId THEN [content |-> c, created |-> now'] ELSE posts[p]]
    /\ UNCHANGED follows
    /\ Moved

\* Only a post that can be read can be patched or deleted.
Writable == {p \in DOMAIN posts : posts[p].content.readable}

EditPost ==
    /\ Change
    /\ \E p \in Writable :
           posts' = [posts EXCEPT ![p].content.matches = ~@]
    /\ UNCHANGED <<nextId, follows, now>>
    /\ Moved

DeletePost ==
    /\ Change
    /\ \E p \in Writable : posts' = Restrict(posts, DOMAIN posts \ {p})
    /\ UNCHANGED <<nextId, follows, now>>
    /\ Moved

FollowOrUnfollow ==
    /\ Change
    /\ \E f \in FollowRows : follows' = SymDiff(follows, {f})
    /\ UNCHANGED <<posts, nextId, now>>
    /\ Moved

\* The reading is over.
Quiet == pc \in {"read", "refused", "failed"} /\ UNCHANGED vars

Next == \/ Refuse \/ ServePage \/ ServeCutPage \/ FailPage
        \/ CreatePost \/ EditPost \/ DeletePost \/ FollowOrUnfollow
        \/ Quiet

Spec == Init /\ [][Next]_vars

-----------------------------------------------------------------------------
(* Properties *)

\* Rows, answers and histories are well formed; metadata, where there is any, has
\* at least one page and one record.
TypeOK ==
    /\ nextId \in 1..MaxPosts + 1
    /\ DOMAIN posts \subseteq 1..nextId - 1
    /\ \A p \in DOMAIN posts : posts[p] \in Rows
    /\ follows \subseteq FollowRows
    /\ now \in Times
    /\ changes \in 0..MaxChanges
    /\ pc \in {"idle", "reading", "read", "refused", "failed"}
    /\ asked \in Queries
    /\ page \in Ints
    /\ ToSet(answer.posts) \subseteq got \cup {Blank}
    /\ \/ answer.metadata = NoMetadata
       \/ /\ answer.metadata.last_page >= 1
          /\ answer.metadata.total_records >= Len(answer.posts)
    /\ cut \in BOOLEAN
    /\ got \subseteq 1..MaxPosts
    /\ \A h \in {twice, tied, gone, came} : h \subseteq Times

\* The page at which the reading began.
FromTheStart == Page(asked) = 1

\* A client who reads all pages has missed a post of the feed only if a post
\* before it left the feed meanwhile, if it came in itself, if it shares its
\* second with another one, or if a result broke off.
NothingMissed ==
    pc = "read" /\ FromTheStart /\ ~cut =>
        \A p \in FeedIds \ got :
            LET t == posts[p].created
            IN  \/ t \in came \cup tied
                \/ \E u \in gone : ~Before(t, u)

\* A client receives a post twice only if a post before it came into the feed
\* meanwhile, or if it shares its second with another one.
NothingTwice ==
    FromTheStart => \A t \in twice : t \in tied \/ \E u \in came : ~Before(t, u)

\* Rows and metadata of a complete page agree although they are computed apart:
\* as long as the offset does not overflow, the page has the rows that remain
\* after the pages before it, and it has metadata exactly if it has rows.
PagesTile ==
    [][ServePage /\ ~OffsetOverflows(page, PageSize(asked)) =>
         LET rest == Cardinality(FeedIds) - (page - 1) * PageSize(asked)
             m == answer'.metadata
         IN  /\ Len(answer'.posts) = Max({0, Min({rest, PageSize(asked)})})
             /\ IF rest <= 0 THEN m = NoMetadata
                ELSE /\ page \in m.first_page..m.last_page
                     /\ page = m.last_page <=> rest <= PageSize(asked)]_vars

\* Rows behind the page that is asked for.
MoreBehind == Cardinality(FeedIds) > page * PageSize(asked)

\* Wherever a result breaks off, and whatever the offset wraps to, an answer sends
\* the client on exactly while the feed has rows behind the page.  Only a broken
\* result without any row, which carries no count, may end the reading too early.
ReadingEndsWithFeed ==
    [][/\ UNCHANGED tables /\ pc' \in {"reading", "read"}
       /\ cut' => ~(ToSet(answer'.posts) \subseteq {Blank})
       => (pc' = "reading" <=> MoreBehind)]_vars

\* paginate.go: "It returns a PaginateQueryFilter and any conversion errors."
\* A query string with a value that does not convert is refused.
ConversionErrorsReturned == ConversionFails(asked) => pc \in {"idle", "refused"}
=============================================================================
