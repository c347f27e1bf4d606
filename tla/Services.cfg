SPECIFICATION Spec
CONSTANTS
  u = u
  worker = worker
  noJob = noJob
  noPage = noPage
  Parts = {
    "posts", "media", "media replies", "events", "events, no redis", "tokens", "foreign tokens",
    "leads", "failed leads", "sapo", "stock", "orders", "suggestions", "hints", "restarts",
    "spend", "refused spend", "ad views", "ad refreshes", "guessed ads", "scroll",
    "shared list", "counts", "scan", "marked scan", "stored scan", "monitor", "unsaved monitor",
    "backfill queued", "backfill stopped", "days", "totals", "lists", "rotations", "catch-up",
    "catch-up choices", "photos", "albums", "restored albums", "thread errors", "links",
    "links of rows", "translations"}
INVARIANTS CommentsShown EventsOnce SalesAccounted SpendShared ListsWhole ScanFinds JobsTellTruth NumbersFresh RoundsTurn InboxFilled
PROPERTIES PagesLinked PancakeAgrees SapoCaughtUp TranslationsKept
CHECK_DEADLOCK FALSE
