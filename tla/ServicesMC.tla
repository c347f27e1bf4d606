---------------------------- MODULE ServicesMC ------------------------------
(***************************************************************************)
(* The services beside audits, backfill and the inbox, each on a small     *)
(* instance for TLC.  They share no state that the model has, so `part`    *)
(* picks the one that runs, and all of them keep their variables in        *)
(* s1, ..., s14.                                                           *)
(***************************************************************************)
EXTENDS Integers, Sequences, FiniteSets, FiniteSetTheorems, TLAPS

CONSTANTS
    Parts,      \* the instances to be checked
    u, worker, noJob, noPage

ASSUME NotTheirs == worker \notin {"x", "y"} /\ noJob # "j" /\ noPage # "p"

VARIABLES part, s1, s2, s3, s4, s5, s6, s7, s8, s9, s10, s11, s12, s13, s14

serviceVars == <<part, s1, s2, s3, s4, s5, s6, s7, s8, s9, s10, s11, s12, s13, s14>>

\* What a service with n variables does not use.
Blank(n) ==
    /\ n < 4 => s4 = 0
    /\ n < 5 => s5 = 0
    /\ n < 6 => s6 = 0
    /\ n < 7 => s7 = 0
    /\ n < 8 => s8 = 0
    /\ n < 9 => s9 = 0
    /\ n < 10 => s10 = 0
    /\ n < 11 => s11 = 0
    /\ n < 12 => s12 = 0
    /\ n < 14 => s13 = 0 /\ s14 = 0
Still(n) ==
    /\ n < 4 => s4' = s4
    /\ n < 5 => s5' = s5
    /\ n < 6 => s6' = s6
    /\ n < 7 => s7' = s7
    /\ n < 8 => s8' = s8
    /\ n < 9 => s9' = s9
    /\ n < 10 => s10' = s10
    /\ n < 11 => s11' = s11
    /\ n < 12 => s12' = s12
    /\ n < 14 => s13' = s13 /\ s14' = s14

---------------------------------------------------------------------------
\* Baskets and stock: two warehouses, the second variant in one of them only.
Carts == {<<<<"v", 1>>>>, <<<<"v", 2>>>>, <<<<"v", 1>>, <<"w", 1>>>>, <<<<"w", 1>>, <<"v", 1>>>>,
          <<<<"v", 1>>, <<"v", 1>>>>}
Level == [r \in {"v", "w"} \X {"a", "b"} |-> IF r = <<"w", "b">> THEN 0 ELSE 1]

\* "Nhẫn Kim Hoa", "Dây chuyền Kim", "Mặt dây chuyền Hoa".
Catalog == <<[name |-> <<"nhan", "kim", "hoa">>, sku |-> "sk1", long |-> TRUE],
             [name |-> <<"day", "chuyen", "kim">>, sku |-> "sk2", long |-> TRUE],
             [name |-> <<"mat", "day", "chuyen", "hoa">>, sku |-> "sk3", long |-> TRUE]>>

\* What the monitor finds: unanswered, answered, thanked for, and of the other platform.
Platform == [x \in {"p", "q"} |-> IF x = "p" THEN "messenger" ELSE "instagram"]
Chat(platform, msgs) == [platform |-> platform, msgs |-> msgs]
Asks == [from |-> "customer", text |-> "words"]
Thanks == [from |-> "customer", text |-> "closing"]
Answers == [from |-> "page", text |-> "words"]
Box(messenger, instagram) == [messenger |-> messenger, instagram |-> instagram]
Boxes == {Box(<<>>, <<>>), Box(<<Chat("messenger", <<Asks, Answers>>)>>, <<>>),
          Box(<<Chat("messenger", <<Thanks, Answers>>), Chat("messenger", <<Answers, Asks>>)>>,
              <<Chat("instagram", <<Thanks>>)>>),
          Box(<<>>, <<Chat("instagram", <<Asks>>), Chat("instagram", <<Answers>>)>>)}

\* Photos sent one by one, close together; an album in two messages; a photo after an album.
Single == <<[at |-> 0, photos |-> <<1>>], [at |-> 2, photos |-> <<2>>], [at |-> 7, photos |-> <<3>>]>>
Album == <<[at |-> 0, photos |-> <<1, 2>>], [at |-> 1, photos |-> <<3>>]>>
Later == <<[at |-> 0, photos |-> <<1, 2>>], [at |-> 6, photos |-> <<3>>]>>

---------------------------------------------------------------------------
Posts == INSTANCE InstagramThread WITH
    People <- {u}, MaxComments <- 2, Hooks <- {"hook"}, Writers <- {u}, Repliers <- {"staff"},
    CommentFaults <- {}, comments <- s1, announced <- s2, stored <- s3, threads <- s4,
    threadOf <- s5, work <- s6
Media == INSTANCE InstagramThread WITH
    People <- {u}, MaxComments <- 2, Hooks <- {"hook"}, Writers <- {u}, Repliers <- {},
    CommentFaults <- {}, comments <- s1, announced <- s2, stored <- s3, threads <- s4,
    threadOf <- s5, work <- s6
Replies == INSTANCE InstagramThread WITH
    People <- {u}, MaxComments <- 2, Hooks <- {}, Writers <- {u}, Repliers <- {"staff"},
    CommentFaults <- {}, comments <- s1, announced <- s2, stored <- s3, threads <- s4,
    threadOf <- s5, work <- s6
Events == INSTANCE Realtime WITH
    MaxMessages <- 2, MaxEvents <- 3, EventFaults <- {"analysis fails"}, messages <- s1,
    events <- s2, channel <- s3, recent <- s4, emitted <- s5, intents <- s6, cached <- s7,
    pending <- s8, analyses <- s9, rtShown <- s10
Alone == INSTANCE Realtime WITH
    MaxMessages <- 2, MaxEvents <- 3, EventFaults <- {"no redis"}, messages <- s1,
    events <- s2, channel <- s3, recent <- s4, emitted <- s5, intents <- s6, cached <- s7,
    pending <- s8, analyses <- s9, rtShown <- s10
Tokens == INSTANCE PancakeToken WITH
    UserTokens <- {1, 2}, Callers <- {"a", "b"}, MaxGenerations <- 2,
    TokenFaults <- {"limited"}, session <- s1, pagesCache <- s2, inFlight <- s3,
    snapshots <- s4, pageToken <- s5, valid <- s6, caller <- s7, overlapped <- s8, late <- s9
Lost == INSTANCE PancakeToken WITH
    UserTokens <- {1}, Callers <- {"a", "b"}, MaxGenerations <- 4,
    TokenFaults <- {"limited", "foreign", "db"}, session <- s1, pagesCache <- s2,
    inFlight <- s3, snapshots <- s4, pageToken <- s5, valid <- s6, caller <- s7,
    overlapped <- s8, late <- s9
Leads == INSTANCE PancakeLeads WITH
    Others <- {"staff"}, LeadFaults <- {"hand"}, InApi <- FALSE, lead <- s1, chat <- s2,
    work <- s3, disturbed <- s4, born <- s5
FailedLeads == INSTANCE PancakeLeads WITH
    Others <- {"staff"}, LeadFaults <- {"pancake fails"}, InApi <- FALSE, lead <- s1,
    chat <- s2, work <- s3, disturbed <- s4, born <- s5
Sapo == INSTANCE SapoSync WITH
    ShopProducts <- {"p", "q"}, Nameless <- {"q"}, ShopOrders <- {"o"},
    LinesOf <- [o \in {"o"} |-> {"p", "q"}],
    MaxCustomers <- 2, PageSize <- 1, Syncs <- {"sync"}, SapoFaults <- {"fails"}, shop <- s1,
    stored <- s2, lines <- s3, sync <- s4
Stock == INSTANCE StockOrders WITH
    Variants <- {"v", "w"}, Warehouses <- {"a", "b"}, Buyers <- {"x", "y"}, Carts <- Carts,
    Level <- Level, level <- s1, tx <- s2, sold <- s3, reading <- s4, cached <- s5
Orders == INSTANCE OmsOrders WITH
    Staff <- {"x", "y"}, MaxOrders <- 2, MaxPresses <- 3,
    OmsFaults <- {"warehouse", "lost reply", "no token"}, warehouse <- s1, counted <- s2,
    dataset <- s3, conv <- s4, press <- s5, presses <- s6
Suggestions == INSTANCE OmsSuggest WITH
    Words <- {"nhan", "day", "chuyen", "mat", "kim", "hoa", "sk2", "bach"}, MaxWords <- 4,
    Catalog <- Catalog,
    Generic <- {"nhan", "day", "chuyen", "mat", "bach", "bong", "tai", "lac"}, said <- s1,
    ranked <- s2, answered <- s3
Hints == INSTANCE PageConnect WITH
    MaxTokens <- 1, Refreshes <- {"r"}, Slow <- {"hint"}, ConnectFaults <- {"staff", "old row"},
    row <- s1, session <- s2, sees <- s3, oauthSync <- s4, task <- s5, slow <- s6,
    subscribed <- s7
Restarts == INSTANCE PageConnect WITH
    MaxTokens <- 1, Refreshes <- {"r"}, Slow <- {}, ConnectFaults <- {"fails", "restart", "old row"},
    row <- s1, session <- s2, sees <- s3, oauthSync <- s4, task <- s5, slow <- s6,
    subscribed <- s7
Spend == INSTANCE AdSpend WITH
    Accounts <- <<"a", "b">>, Nightly <- {"night"}, Scans <- {"scan"}, Readers <- {"staff"},
    MaxSpend <- 1, AdFaults <- {}, meta <- s1, grants <- s2, chosen <- s3, dayRow <- s4,
    hint <- s5, dbHint <- s6, missed <- s7, searching <- s8, insights <- s9, paused <- s10,
    caller <- s11
Refused == INSTANCE AdSpend WITH
    Accounts <- <<"a">>, Nightly <- {"night"}, Scans <- {}, Readers <- {"staff"},
    MaxSpend <- 1, AdFaults <- {"expires", "limited", "fails", "reconnects"}, meta <- s1,
    grants <- s2, chosen <- s3, dayRow <- s4, hint <- s5, dbHint <- s6, missed <- s7,
    searching <- s8, insights <- s9, paused <- s10, caller <- s11
Chats == INSTANCE AdChat WITH
    Convs <- {"c"}, Viewers <- {"v", "w"}, Clicks <- {"a"}, MaxSpend <- 2, ChatFaults <- {},
    row <- s1, spent <- s2, session <- s3, adCache <- s4, postCache <- s5, answers <- s6,
    pending <- s7, view <- s8, floor <- s9
Refreshes == INSTANCE AdChat WITH
    Convs <- {"c"}, Viewers <- {"v"}, Clicks <- {"a"}, MaxSpend <- 2,
    ChatFaults <- {"expires", "fails"}, row <- s1, spent <- s2, session <- s3, adCache <- s4,
    postCache <- s5, answers <- s6, pending <- s7, view <- s8, floor <- s9
Guessed == INSTANCE AdChat WITH
    Convs <- {"c"}, Viewers <- {"v"}, Clicks <- {"a"}, MaxSpend <- 2,
    ChatFaults <- {"expires", "fails", "connects", "guessed", "resolves"}, row <- s1,
    spent <- s2, session <- s3, adCache <- s4, postCache <- s5, answers <- s6, pending <- s7,
    view <- s8, floor <- s9
Scroll == INSTANCE InboxListing WITH
    Convs <- {1, 2, 3}, PageSize <- 1, Viewers <- {"x"}, MaxTime <- 2, Months <- {},
    Counters <- {}, ListFaults <- {}, lastAt <- s1, listed <- s2, loading <- s3, viewer <- s4,
    counts <- s5, counting <- s6, tail <- s7, counter <- s8
Shared == INSTANCE InboxListing WITH
    Convs <- {1}, PageSize <- 1, Viewers <- {"x", "y"}, MaxTime <- 2, Months <- {},
    Counters <- {}, ListFaults <- {"busy", "timeout", "mixed"}, lastAt <- s1, listed <- s2,
    loading <- s3, viewer <- s4, counts <- s5, counting <- s6, tail <- s7, counter <- s8
Counts == INSTANCE InboxListing WITH
    Convs <- {}, PageSize <- 1, Viewers <- {}, MaxTime <- 2, Months <- {"june", "july"},
    Counters <- {"x", "y"}, ListFaults <- {"timeout"}, lastAt <- s1, listed <- s2,
    loading <- s3, viewer <- s4, counts <- s5, counting <- s6, tail <- s7, counter <- s8
Busy == INSTANCE AuditScan WITH
    Histories <- {<<0>>, <<1>>, <<2, 1>>, <<2>>}, Convs <- {1, 2, 3}, MarkSets <- {{}},
    Sources <- {"api"}, Caps <- {0, 1}, PageSize <- 2, Preview <- 2, TranscriptMax <- 3,
    MaxWrites <- 1, ScanFaults <- {}, talk <- s1, saved <- s2, updated <- s3, marks <- s4,
    asked <- s5, stop <- s6, scan <- s7
Marked == INSTANCE AuditScan WITH
    Histories <- {<<0>>, <<1>>, <<1, 0>>, <<2, 1>>}, Convs <- {1, 2},
    MarkSets <- {{}, {"conv", "psid"}}, Sources <- {"api"}, Caps <- {0, 2}, PageSize <- 2,
    Preview <- 2, TranscriptMax <- 3, MaxWrites <- 0,
    ScanFaults <- {"again", "refused", "pause"}, talk <- s1, saved <- s2, updated <- s3,
    marks <- s4, asked <- s5, stop <- s6, scan <- s7
StoredScan == INSTANCE AuditScan WITH
    Histories <- {<<0>>, <<1>>, <<2, 1>>}, Convs <- {1, 2}, MarkSets <- {{}, {"conv", "psid"}},
    Sources <- {"db", "db, then api"}, Caps <- {0, 1}, PageSize <- 2, Preview <- 2,
    TranscriptMax <- 3, MaxWrites <- 1, ScanFaults <- {"pause"}, talk <- s1, saved <- s2,
    updated <- s3, marks <- s4, asked <- s5, stop <- s6, scan <- s7
Monitor == INSTANCE MonitorProofs WITH
    Monitors <- {"m"}, MonitoredPages <- {"p", "q"}, PlatformOf <- Platform,
    Inboxes <- [{"p", "q"} -> Boxes], MaxFetch <- 2, PageWorkers <- 2,
    MonitorFaults <- {"list", "plain list", "messages", "boot"}, inbox <- s1, job <- s2,
    run <- s3, items <- s4
Unsaved == INSTANCE MonitorJob WITH
    Monitors <- {"m"}, MonitoredPages <- {"p"}, PlatformOf <- Platform, Inboxes <- [{"p", "q"} -> Boxes],
    MaxFetch <- 2, PageWorkers <- 1, MonitorFaults <- {"save"}, inbox <- s1, job <- s2,
    run <- s3, items <- s4
QueuedRuns == INSTANCE BackfillProofs WITH
    Jobs <- {"j"}, Users <- {"x", "y"}, Inline <- {}, Worker <- worker, Tenants <- {"t"},
    TenantOf <- [x \in {"x", "y"} |-> "t"],
    Ops <- [x \in {"x", "y"} |-> IF x = "x" THEN {"start"} ELSE {"pause"}], Pages <- {"p"},
    MaxQueue <- 2, Redis <- TRUE, Faults <- {"page error", "push error", "restart"},
    NoJob <- noJob, NoPage <- noPage, row <- s1, queue <- s2, keys <- s3, cache <- s4,
    mem <- s5, act <- s6, purging <- s7, scanned <- s8, struck <- s9
StoppedRuns == INSTANCE BackfillProofs WITH
    Jobs <- {"j"}, Users <- {"x"}, Inline <- {}, Worker <- worker, Tenants <- {"t"},
    TenantOf <- [x \in {"x"} |-> "t"], Ops <- [x \in {"x"} |-> {"start", "cancel", "force"}],
    Pages <- {"p"}, MaxQueue <- 2, Redis <- TRUE, Faults <- {}, NoJob <- noJob,
    NoPage <- noPage, row <- s1, queue <- s2, keys <- s3, cache <- s4, mem <- s5, act <- s6,
    purging <- s7, scanned <- s8, struck <- s9
Days == INSTANCE PageStats WITH
    StatPages <- {"p"}, Listers <- {"x"}, Wants <- {"day"}, Memory <- 1, Keep <- 3, MaxNow <- 4,
    MaxCount <- 1, StatDoes <- {}, now <- s1, stored <- s2, linked <- s3, told <- s4,
    totals <- s5, bust <- s6, believed <- s7, entries <- s8, worker <- s9, refreshes <- s10,
    scheduled <- s11, lister <- s12
Totals == INSTANCE PageStats WITH
    StatPages <- {"p"}, Listers <- {"x"}, Wants <- {"plain"}, Memory <- 1, Keep <- 3,
    MaxNow <- 4, MaxCount <- 1, StatDoes <- {"numbers"}, now <- s1, stored <- s2, linked <- s3,
    told <- s4, totals <- s5, bust <- s6, believed <- s7, entries <- s8, worker <- s9,
    refreshes <- s10, scheduled <- s11, lister <- s12
Lists == INSTANCE PageStats WITH
    StatPages <- {"p", "q"}, Listers <- {"x"}, Wants <- {"plain", "lite"}, Memory <- 1,
    Keep <- 2, MaxNow <- 2, MaxCount <- 0, StatDoes <- {"connect", "numbers"}, now <- s1,
    stored <- s2, linked <- s3, told <- s4, totals <- s5, bust <- s6, believed <- s7,
    entries <- s8, worker <- s9, refreshes <- s10, scheduled <- s11, lister <- s12
Rotations == INSTANCE InboxRounds WITH
    PagesOf <- [t \in {"t"} |-> <<"a", "b", "c">>], Instagram <- {},
    PageOf <- [i \in {} |-> "a"], HotPages <- 1, RotationBatch <- 2, Pollers <- {},
    Rotators <- {"x", "y"}, MaxTaken <- 3, RoundFaults <- {}, hot <- s1, viewed <- s2,
    audit <- s3, believes <- s4, lock <- s5, backoff <- s6, polling <- s7, poller <- s8,
    rotation <- s9, rotator <- s10, taken <- s11
CatchUp == INSTANCE InboxRounds WITH
    PagesOf <- [t \in {"t"} |-> <<"a", "i">>], Instagram <- {"i"}, PageOf <- [i \in {"i"} |-> "a"],
    HotPages <- 1, RotationBatch <- 2, Pollers <- {"x", "y"}, Rotators <- {}, MaxTaken <- 3,
    RoundFaults <- {"capability", "busy"}, hot <- s1, viewed <- s2, audit <- s3, believes <- s4,
    lock <- s5, backoff <- s6, polling <- s7, poller <- s8, rotation <- s9, rotator <- s10,
    taken <- s11
Choices == INSTANCE InboxRounds WITH
    PagesOf <- [t \in {"t"} |-> <<"a", "b", "i">>], Instagram <- {"i"},
    PageOf <- [i \in {"i"} |-> "a"], HotPages <- 1, RotationBatch <- 2, Pollers <- {"x"},
    Rotators <- {}, MaxTaken <- 3, RoundFaults <- {}, hot <- s1, viewed <- s2, audit <- s3,
    believes <- s4, lock <- s5, backoff <- s6, polling <- s7, poller <- s8, rotation <- s9,
    rotator <- s10, taken <- s11
Photos == INSTANCE InboxMedia WITH
    Sent <- Single, UrlsInHook <- FALSE, Openers <- {"x"}, Near <- 8, AlbumSpan <- 15,
    Same <- 10, Close <- 5, ShotRows <- 5, MediaBatch <- 1, MediaWorkers <- 1,
    MediaRounds <- 3, MediaDoes <- {"sweep"}, MediaFaults <- {}, shots <- s1, hookAt <- s2,
    resolver <- s3, restore <- s4, sweep <- s5, raced <- s6
Albums == INSTANCE InboxMedia WITH
    Sent <- Album, UrlsInHook <- TRUE, Openers <- {"x", "y"}, Near <- 8, AlbumSpan <- 15,
    Same <- 10, Close <- 5, ShotRows <- 5, MediaBatch <- 2, MediaWorkers <- 1,
    MediaRounds <- 3, MediaDoes <- {"sweep"}, MediaFaults <- {"together"}, shots <- s1,
    hookAt <- s2, resolver <- s3, restore <- s4, sweep <- s5, raced <- s6
Restored == INSTANCE InboxMedia WITH
    Sent <- Later, UrlsInHook <- TRUE, Openers <- {"x"}, Near <- 8, AlbumSpan <- 15,
    Same <- 10, Close <- 5, ShotRows <- 5, MediaBatch <- 2, MediaWorkers <- 1,
    MediaRounds <- 3, MediaDoes <- {"restore", "sweep"}, MediaFaults <- {"together"},
    shots <- s1, hookAt <- s2, resolver <- s3, restore <- s4, sweep <- s5, raced <- s6
Errors == INSTANCE InboxThread WITH
    Texts <- {"a"}, MaxMsgs <- 2, MaxRows <- 4, Hooks <- {"hook"}, Senders <- {"send"},
    Syncs <- {}, Staff <- {}, StaffLabels <- {}, StatusLabels <- {}, Window <- 3,
    Words <- [w \in {"customer", "page", "ad", "staff"} |-> {"a"}],
    Does <- {"customer", "media", "refresh", "ad"}, Faults <- {"send error", "db error"},
    fb <- s1, delivered <- s2, rows <- s3, conv <- s4, labels <- s5, locks <- s6, hook <- s7,
    send <- s8, sync <- s9, refresh <- s10, persist <- s11, desk <- s12, seen <- s13,
    claimed <- s14
Links == INSTANCE AuditLink WITH
    Customers <- {"x"}, NameOf <- [x \in {"x"} |-> "lan"], DayEnd <- 2, MaxTalk <- 3,
    FromDb <- FALSE, LinkDoes <- {"staff", "dashboard", "cancel", "late"},
    LinkFaults <- {"db", "ai"}, talked <- s1, inbox <- s2, kept <- s3, audit <- s4, auto <- s5,
    asked <- s6, dates <- s7, matched <- s8
DbLinks == INSTANCE AuditLink WITH
    Customers <- {"x"}, NameOf <- [x \in {"x"} |-> "lan"], DayEnd <- 2, MaxTalk <- 3,
    FromDb <- TRUE, LinkDoes <- {"staff", "dashboard", "cancel", "late"},
    LinkFaults <- {"db", "ai"}, talked <- s1, inbox <- s2, kept <- s3, audit <- s4, auto <- s5,
    asked <- s6, dates <- s7, matched <- s8
Tongues == INSTANCE Translations WITH
    Kinds <- {"vi", "latin", "script"}, MaxTexts <- 3, Openings <- {"x", "y"},
    Writers <- {"staff"}, RunSize <- 2, ChunkSize <- 1, TongueFaults <- {"fails", "left out"},
    texts <- s1, shownAs <- s2, opening <- s3, tongue <- s4, writing <- s5, omitted <- s6

---------------------------------------------------------------------------
Init ==
    /\ part \in Parts
    /\ \/ part = "posts" /\ Posts!Init /\ Blank(6)
       \/ part = "media" /\ Media!Init /\ Blank(6)
       \/ part = "media replies" /\ Replies!Init /\ Blank(6)
       \/ part = "events" /\ Events!Init /\ Blank(10)
       \/ part = "events, no redis" /\ Alone!Init /\ Blank(10)
       \/ part = "tokens" /\ Tokens!Init /\ Blank(9)
       \/ part = "foreign tokens" /\ Lost!Init /\ Blank(9)
       \/ part = "leads" /\ Leads!Init /\ Blank(5)
       \/ part = "failed leads" /\ FailedLeads!Init /\ Blank(5)
       \/ part = "sapo" /\ Sapo!Init /\ Blank(4)
       \/ part = "stock" /\ Stock!Init /\ Blank(5)
       \/ part = "orders" /\ Orders!Init /\ Blank(6)
       \/ part = "suggestions" /\ Suggestions!Init /\ Blank(3)
       \/ part = "hints" /\ Hints!Init /\ Blank(7)
       \/ part = "restarts" /\ Restarts!Init /\ Blank(7)
       \/ part = "spend" /\ Spend!Init /\ Blank(11)
       \/ part = "refused spend" /\ Refused!Init /\ Blank(11)
       \/ part = "ad views" /\ Chats!Init /\ Blank(9)
       \/ part = "ad refreshes" /\ Refreshes!Init /\ Blank(9)
       \/ part = "guessed ads" /\ Guessed!Init /\ Blank(9)
       \/ part = "scroll" /\ Scroll!Init /\ Blank(8)
       \/ part = "shared list" /\ Shared!Init /\ Blank(8)
       \/ part = "counts" /\ Counts!Init /\ Blank(8)
       \/ part = "scan" /\ Busy!Init /\ Blank(7)
       \/ part = "marked scan" /\ Marked!Init /\ Blank(7)
       \/ part = "stored scan" /\ StoredScan!Init /\ Blank(7)
       \/ part = "monitor" /\ Monitor!Init /\ Blank(4)
       \/ part = "unsaved monitor" /\ Unsaved!Init /\ Blank(4)
       \/ part = "backfill queued" /\ QueuedRuns!Init /\ Blank(9)
       \/ part = "backfill stopped" /\ StoppedRuns!Init /\ Blank(9)
       \/ part = "days" /\ Days!Init /\ Blank(12)
       \/ part = "totals" /\ Totals!Init /\ Blank(12)
       \/ part = "lists" /\ Lists!Init /\ Blank(12)
       \/ part = "rotations" /\ Rotations!Init /\ Blank(11)
       \/ part = "catch-up" /\ CatchUp!Init /\ Blank(11)
       \/ part = "catch-up choices" /\ Choices!Init /\ Blank(11)
       \/ part = "photos" /\ Photos!MediaInit /\ Blank(6)
       \/ part = "albums" /\ Albums!MediaInit /\ Blank(6)
       \/ part = "restored albums" /\ Restored!MediaInit /\ Blank(6)
       \/ part = "thread errors" /\ Errors!Init /\ Blank(14)
       \/ part = "links" /\ Links!LinkInit /\ Blank(8)
       \/ part = "links of rows" /\ DbLinks!LinkInit /\ Blank(8)
       \/ part = "translations" /\ Tongues!TongueInit /\ Blank(6)

Next ==
    /\ part' = part
    /\ \/ part = "posts" /\ Posts!Next /\ Still(6)
       \/ part = "media" /\ Media!IgNext /\ Still(6)
       \/ part = "media replies" /\ Replies!IgNext /\ Still(6)
       \/ part = "events" /\ Events!Next /\ Still(10)
       \/ part = "events, no redis" /\ Alone!Next /\ Still(10)
       \/ part = "tokens" /\ Tokens!Next /\ Still(9)
       \/ part = "foreign tokens" /\ Lost!Next /\ Still(9)
       \/ part = "leads" /\ Leads!Next /\ Still(5)
       \/ part = "failed leads" /\ FailedLeads!Next /\ Still(5)
       \/ part = "sapo" /\ Sapo!Next /\ Still(4)
       \/ part = "stock" /\ Stock!Next /\ Still(5)
       \/ part = "orders" /\ Orders!Next /\ Still(6)
       \/ part = "suggestions" /\ Suggestions!Next /\ Still(3)
       \/ part = "hints" /\ Hints!Next /\ Still(7)
       \/ part = "restarts" /\ Restarts!Next /\ Still(7)
       \/ part = "spend" /\ Spend!Next /\ Still(11)
       \/ part = "refused spend" /\ Refused!Next /\ Still(11)
       \/ part = "ad views" /\ Chats!Next /\ Still(9)
       \/ part = "ad refreshes" /\ Refreshes!Next /\ Still(9)
       \/ part = "guessed ads" /\ Guessed!Next /\ Still(9)
       \/ part = "scroll" /\ Scroll!Next /\ Still(8)
       \/ part = "shared list" /\ Shared!Next /\ Still(8)
       \/ part = "counts" /\ Counts!Next /\ Still(8)
       \/ part = "scan" /\ Busy!Next /\ Still(7)
       \/ part = "marked scan" /\ Marked!Next /\ Still(7)
       \/ part = "stored scan" /\ StoredScan!Next /\ Still(7)
       \/ part = "monitor" /\ Monitor!Next /\ Still(4)
       \/ part = "unsaved monitor" /\ Unsaved!Next /\ Still(4)
       \/ part = "backfill queued" /\ QueuedRuns!Next /\ Still(9)
       \/ part = "backfill stopped" /\ StoppedRuns!Next /\ Still(9)
       \/ part = "days" /\ Days!Next /\ Still(12)
       \/ part = "totals" /\ Totals!Next /\ Still(12)
       \/ part = "lists" /\ Lists!Next /\ Still(12)
       \/ part = "rotations" /\ Rotations!Next /\ Still(11)
       \/ part = "catch-up" /\ CatchUp!Next /\ Still(11)
       \/ part = "catch-up choices" /\ Choices!Next /\ Still(11)
       \/ part = "photos" /\ Photos!MediaNext /\ Still(6)
       \/ part = "albums" /\ Albums!MediaNext /\ Still(6)
       \/ part = "restored albums" /\ Restored!MediaNext /\ Still(6)
       \/ part = "thread errors" /\ Errors!Next /\ Still(14)
       \/ part = "links" /\ Links!LinkNext /\ Still(8)
       \/ part = "links of rows" /\ DbLinks!LinkNext /\ Still(8)
       \/ part = "translations" /\ Tongues!TongueNext /\ Still(6)

Spec == Init /\ [][Next]_serviceVars

---------------------------------------------------------------------------
\* Comments (handlers of webhooks, syncs and replies of both platforms): a thread counts at most the
\* comments of customers in it; a comment that was announced is shown in a thread at rest, unless the
\* inbox could not be written, which the code only logs.
CommentsShown ==
    /\ part = "posts" => Posts!CountedOnce /\ Posts!AnnouncedIsShown
    /\ part = "media" => Media!CountedOnce /\ Media!AnnouncedIsShown
    /\ part = "media replies" => Replies!CountedOnce /\ Replies!AnnouncedIsShown

\* Realtime events of messages and analyses (two processes and their echoes): each process emits an
\* event at most once and none after a newer one of its key (without Redis it has only its own); the
\* mark of a background analysis is there while one runs.
EventsOnce ==
    /\ part = "events" => Events!EmittedOnce /\ Events!EmittedInOrder /\ Events!MarkedWhileAnalysed
    /\ part = "events, no redis" => Alone!EmittedInOrder /\ Alone!MarkedWhileAnalysed

\* Pancake: staff see the pages of their own token, or such as a snapshot wrote into the row of a
\* token that somebody connected with meanwhile; no call served by a newer page token leaves an older
\* one stored, but when two were generated before either was stored.  A sync nobody disturbed leaves
\* a lead's stage and labels in agreement, unless its last pass made the row, and a customer stays
\* one until staff say otherwise.
PancakeAgrees ==
    [][/\ part = "tokens" => Tokens!OwnPages' /\ Tokens!ServedIsStored'
       /\ part = "foreign tokens" => Lost!ServedIsStored'
       /\ part = "leads" => Leads!SyncHeals' /\ Leads!StaysCustomer
       /\ part = "failed leads" => FailedLeads!SyncHeals' /\ FailedLeads!StaysCustomer]_serviceVars

\* Sapo: an undisturbed sync of the orders leaves each of them with the shop's lines, whatever
\* earlier syncs left half done, but for lines without a variant whose SKU is not stored; one of the
\* customers has all there were when it started, though it starts at the page its count points to,
\* while the shop lists the oldest first.
SapoCaughtUp == [][part = "sapo" => Sapo!OrderLines /\ Sapo!CustomersCaughtUp]_serviceVars

\* Sales: the stock is what it was less what committed orders took; Meta counts purchases only of
\* orders the warehouse took; a product is suggested only if the transcript names it.
SalesAccounted ==
    /\ part = "stock" => Stock!StockAccounted
    /\ part = "orders" => Orders!CountedIsOrdered
    /\ part = "suggestions" => Suggestions!Suggested

\* Connected pages: the link between a page and its Instagram account is lost only to a writer (a
\* picture, a hint, a sync) that read the row before it had the link, rows from before it included,
\* and every sync at whose repair the page names the account puts it back.
PagesLinked ==
    [][/\ part = "hints" => Hints!LinkKept /\ Hints!LinkRestored
       /\ part = "restarts" => Restarts!LinkKept /\ Restarts!LinkRestored]_serviceVars

\* Ad spend: whoever needs an account searched shares one search and waits only while it runs, and
\* the hint names the account that runs the page's ads; after a refresh nobody is told that an ad
\* spent less than it told, unless another view was loading meanwhile.
SpendShared ==
    /\ part = "spend" => Spend!SearchedOnce /\ Spend!WaitsForOne /\ Spend!HintOwns
    /\ part = "refused spend" => Refused!SearchedOnce /\ Refused!WaitsForOne /\ Refused!HintOwns
    /\ part = "ad views" => Chats!RefreshSeen
    /\ part = "ad refreshes" => Refreshes!RefreshSeen
    /\ part = "guessed ads" => Guessed!RefreshSeen

\* The inbox's lists: who scrolls to the end has seen each conversation at most once and each
\* unmoved one exactly once, but for walks that met a busy or timed-out answer; one COUNT runs at a
\* time, the one at the head of the line.
ListsWhole ==
    /\ part = "scroll" => Scroll!ScrollWhole
    /\ part = "shared list" => Shared!ScrollWhole
    /\ part = "counts" => Counts!OneCount

\* The audit's scan: a conversation is handed on once and none that has a row is; one that ends by
\* itself has found all conversations of the day, or the newest up to the limit, but for those that
\* stood on one page of Graph's list with the first one older than the day.
ScanFinds ==
    /\ part = "scan" => Busy!MatchedOnce /\ Busy!FoundAll
    /\ part = "marked scan" => Marked!MatchedOnce /\ Marked!FoundAll
    /\ part = "stored scan" => StoredScan!MatchedOnce /\ StoredScan!FoundAll

\* Jobs: a monitor that is done, and whose rows could be saved, shows what it counted; a backfill
\* twice on the list of a worker that restarts saves only pages it scanned and completes with all of
\* them; a worker whose run was cancelled or replaced is free for the next.
JobsTellTruth ==
    /\ part = "monitor" => Monitor!DoneIsShown
    /\ part = "backfill queued" => QueuedRuns!SavedWasScanned /\ QueuedRuns!CompletedCoversAll
    /\ part = "backfill stopped" => StoppedRuns!FreeWhenIdle

\* The list of pages: who asks later than the API's memory after a bump is shown a day's count of all
\* that was stored before it, unless the count was being loaded meanwhile; is shown no numbers cached
\* before it, unless a backfill runs; and sees each page there was when the plain list was last
\* cleared, unless that list was being built then.
NumbersFresh ==
    /\ part = "days" => Days!DayFollows
    /\ part = "totals" => Totals!NumbersReload
    /\ part = "lists" => Lists!PagesFollow

\* The inbox's rounds: rotations, overlapping or not, take every page of the tenant in turn; rounds of
\* the catch-up overlap only when one of them took longer than the lock from its test of the flag to
\* its setting, or when such a round has cleared the flag; while Graph refuses no account, each reads
\* one on Instagram.
RoundsTurn ==
    /\ part = "rotations" => Rotations!RoundRobin
    /\ part = "catch-up" => CatchUp!OneRound
    /\ part = "catch-up choices" => Choices!InstagramRead

\* Photos and audits in the inbox.  A photo shows twice only when a task wrote it that had looked
\* before it showed, none shows under another message's id, all show when the tasks are through, and
\* the sweep fills every row: for photos sent one by one while no refresh runs and one task runs at a
\* time; for an album in two messages with URLs in the webhooks and tasks at once; and for messages
\* with URLs more than 5 s apart beside the refresh as well; elsewhere each may be violated.  An
\* audit with an intent has its day in the inbox.  When Graph or the database fails, a message of the
\* customer that nobody saw still leaves the conversation unread.
InboxFilled ==
    /\ part = "photos" => Photos!PhotoOnce /\ Photos!OwnPhoto /\ Photos!AllShown /\ Photos!SweepReaches
    /\ part = "albums" => Albums!PhotoOnce /\ Albums!OwnPhoto /\ Albums!AllShown /\ Albums!SweepReaches
    /\ part = "restored albums" =>
        Restored!PhotoOnce /\ Restored!OwnPhoto /\ Restored!AllShown /\ Restored!SweepReaches
    /\ part = "thread errors" => Errors!UnseenIsUnread
    /\ part = "links" => Links!IntentHasThread
    /\ part = "links of rows" => DbLinks!IntentHasThread

\* Translations: a run undoes a stored translation, and a foreign message is stored as it is, only when
\* the answer of the AI to a request for it left it out.
TranslationsKept ==
    [][part = "translations" => Tongues!TranslationKept /\ Tongues!NothingGivenUp']_serviceVars

---------------------------------------------------------------------------
\* The jobs' parts meet the hypotheses of MonitorProofs and BackfillProofs.
LEMMA MonitorMeets == Monitor!MonitorConstants
<1>1. Monitor!IsFiniteSet({"p", "q"}) /\ {"p", "q"} # {}
  <2>1. Monitor!IsFiniteSet({"p"} \cup {"q"})
    BY Monitor!FS_Singleton, Monitor!FS_Union
  <2>2. {"p"} \cup {"q"} = {"p", "q"}
    OBVIOUS
  <2> QED BY <2>1, <2>2
<1>2. \A x, y : Monitor!IsList(<<>>) /\ Monitor!IsList(<<x>>) /\ Monitor!IsList(<<x, y>>)
  <2> TAKE x, y
  <2>1. <<>> \in Seq({x, y}) /\ <<x>> \in Seq({x, y}) /\ <<x, y>> \in Seq({x, y})
    OBVIOUS
  <2> QED BY <2>1 DEF Monitor!IsList
<1>3. \A b \in Boxes, platform \in {"messenger", "instagram"} : Monitor!IsList(b[platform])
  <2>1. \A cs, ds : Box(cs, ds)["messenger"] = cs /\ Box(cs, ds)["instagram"] = ds
    BY DEF Box
  <2>2. \A cs, ds : Monitor!IsList(cs) /\ Monitor!IsList(ds) =>
          /\ Monitor!IsList(Box(cs, ds)["messenger"])
          /\ Monitor!IsList(Box(cs, ds)["instagram"])
    BY ONLY <2>1
  <2> QED BY ONLY <1>2, <2>2 DEF Boxes
<1>4. \A p \in {"p", "q"} : Platform[p] \in {"messenger", "instagram"}
  BY DEF Platform
<1>5. Monitor!RowsSaved
  BY Zenon DEF Monitor!RowsSaved
<1> QED BY <1>1, <1>3, <1>4, <1>5 DEF Monitor!MonitorConstants

LEMMA RunsMeet == /\ QueuedRuns!BackfillConstants /\ QueuedRuns!NoCancels
                  /\ StoppedRuns!BackfillConstants /\ StoppedRuns!NoRunError
<1>1. /\ {"page error", "push error", "restart"} \subseteq QueuedRuns!FaultKinds
      /\ {} \subseteq StoppedRuns!FaultKinds
  BY Zenon DEF QueuedRuns!FaultKinds
<1>2. QueuedRuns!IsFiniteSet({"p"}) /\ StoppedRuns!IsFiniteSet({"p"})
  <2>1. IsFiniteSet({"p"})
    BY ONLY FS_Singleton, Zenon
  <2> QED BY <2>1, ZenonT(60) DEF IsFiniteSet, QueuedRuns!IsFiniteSet, StoppedRuns!IsFiniteSet
<1>3. StoppedRuns!NoRunError
  BY Zenon DEF StoppedRuns!NoRunError
<1>4. /\ 2 \in Nat /\ TRUE \in BOOLEAN
      /\ [x \in {"x", "y"} |-> "t"] \in [{"x", "y"} -> {"t"}]
      /\ [x \in {"x", "y"} |-> IF x = "x" THEN {"start"} ELSE {"pause"}]
           \in [{"x", "y"} -> SUBSET QueuedRuns!UserOps]
      /\ [x \in {"x"} |-> "t"] \in [{"x"} -> {"t"}]
      /\ [x \in {"x"} |-> {"start", "cancel", "force"}] \in [{"x"} -> SUBSET StoppedRuns!UserOps]
  BY DEF QueuedRuns!UserOps, StoppedRuns!UserOps
<1>5. /\ worker \notin {} /\ {"x", "y"} \cap ({} \cup {worker}) = {}
      /\ {"x"} \cap ({} \cup {worker}) = {}
      /\ noJob \notin {"j"} /\ noPage \notin {"p"} /\ {"t"} # {}
  BY NotTheirs
<1>6. QueuedRuns!BackfillConstants
  BY ONLY <1>1, <1>2, <1>4, <1>5, Zenon DEF QueuedRuns!BackfillConstants
<1>7. StoppedRuns!BackfillConstants
  BY ONLY <1>1, <1>2, <1>4, <1>5, Zenon DEF StoppedRuns!BackfillConstants
<1>8. QueuedRuns!NoCancels
  BY DEF QueuedRuns!NoCancels
<1> QED BY <1>3, <1>6, <1>7, <1>8

\* The invariant: that of each part while it is the one that runs.
JobsInv ==
    /\ part = "monitor" => Monitor!MonitorInv
    /\ part = "backfill queued" => QueuedRuns!ProgressInv
    /\ part = "backfill stopped" => StoppedRuns!Typed /\ StoppedRuns!FreeInv

LEMMA JobsInit == Init => JobsInv
BY MonitorMeets, RunsMeet, Monitor!MonitorInit, QueuedRuns!ProgressInit, StoppedRuns!TypedInit,
   StoppedRuns!FreeInit DEF Init, JobsInv

LEMMA JobsStep == JobsInv /\ [Next]_serviceVars => JobsInv'
<1> SUFFICES ASSUME JobsInv, [Next]_serviceVars PROVE JobsInv'
  OBVIOUS
<1>1. part' = part
  BY DEF Next, serviceVars
<1>2. CASE part = "monitor"
  <2>1. Monitor!MonitorInv /\ [Monitor!Next]_<<s1, s2, s3, s4>>
    BY <1>2 DEF JobsInv, Next, serviceVars
  <2> QED BY <1>1, <1>2, <2>1, MonitorMeets, Monitor!MonitorStep
          DEF JobsInv, Monitor!monitorVars
<1>3. CASE part = "backfill queued"
  <2>1. QueuedRuns!ProgressInv /\ [QueuedRuns!Next]_<<s1, s2, s3, s4, s5, s6, s7, s8, s9>>
    BY <1>3 DEF JobsInv, Next, serviceVars
  <2> QED BY <1>1, <1>3, <2>1, RunsMeet, QueuedRuns!ProgressStep DEF JobsInv, QueuedRuns!vars
<1>4. CASE part = "backfill stopped"
  <2>1. /\ StoppedRuns!Typed /\ StoppedRuns!FreeInv
        /\ [StoppedRuns!Next]_<<s1, s2, s3, s4, s5, s6, s7, s8, s9>>
    BY <1>4 DEF JobsInv, Next, serviceVars
  <2> QED BY <1>1, <1>4, <2>1, RunsMeet, StoppedRuns!TypedStep, StoppedRuns!FreeStep
          DEF JobsInv, StoppedRuns!vars
<1>5. CASE part \notin {"monitor", "backfill queued", "backfill stopped"}
  BY <1>1, <1>5 DEF JobsInv
<1> QED BY <1>2, <1>3, <1>4, <1>5

\* The property of the run follows from the invariants of MonitorProofs and BackfillProofs in each
\* part; it says nothing of "unsaved monitor", where rows that cannot be saved are still counted.
THEOREM JobsAreTrue == Spec => []JobsTellTruth
<1>1. JobsInv => JobsTellTruth
  <2>1. StoppedRuns!FreeInv => StoppedRuns!FreeWhenIdle
    BY DEF StoppedRuns!FreeInv, StoppedRuns!RunOver, StoppedRuns!FreeWhenIdle, StoppedRuns!W,
           StoppedRuns!Memo
  <2>2. QueuedRuns!ProgressInv => QueuedRuns!SavedWasScanned /\ QueuedRuns!CompletedCoversAll
    BY DEF QueuedRuns!ProgressInv
  <2> QED BY <2>1, <2>2, MonitorMeets, Monitor!MonitorHolds DEF JobsInv, JobsTellTruth
<1> QED BY <1>1, JobsInit, JobsStep, PTL DEF Spec
=============================================================================
