# Verification of Lux

Lux is Emory's discovery front end for digital collections: a Rails and
Blacklight application (`app/`, `lib/`, `config/`) over a Solr index that
another system, Curate, writes. Lux decides who sees what, signs people in
through Shibboleth, resolves persistent URLs, and lets administrators edit a
few pieces of content. Documents that are PDF files are shown by a viewer that
is kept in the repository (`public/pdfjs/web/viewer.mjs`), by far its largest
program. This directory holds TLA+ models of that logic, TLC
runs that check them on small instances, and proofs that TLAPS checks for every
instance.

## Inventory

| Component | State it keeps | Operations | Meets | What is hard | What makes it correct |
|---|---|---|---|---|---|
| Access control (`lib/blacklight/access_controls/ability.rb`) | groups memoised per request; permissions cache per request | `user_groups`, `test_discover/read/download`, `admin?` | every controller | four deciders in different terms | they agree; download implies read implies discover |
| Catalog requests (`catalog_controller.rb`, `application_controller.rb`, `thumbnail_presenter.rb`) | none between requests but `session[:requested_page]` | `show`, `render404`, `uv_config`, search | Solr, access control, session | two or three reads of an index that changes; errors in error handlers | answers rest on what the index held; refusals are useful |
| Sign-in (`user.rb`, `omniauth_callbacks_controller.rb`) | `users` rows, session cookie, `bearer_token` cookie | `from_omniauth`, `cookie_pot`, `sign_in`, redirect | Shibboleth, MySQL, session | find-then-insert by concurrent threads without a unique index; a callback that half succeeds | one row per person; nobody signs in as another |
| Browser session (Rails cookie store, `requested_page`) | one cookie holding user and `requested_page` | refuse, sign in, sign out, time out | catalog requests, sign-in | responses that overtake each other | the visitor lands on the page that was refused |
| Persistent URLs (`purl`, `emory_persistent_id_search_builder.rb`) | none | direct lookup, then search by persistent id | Solr, show | two reads; a filter on one of them only | a purl leads to its document |
| Administration (`app/controllers/admin`, `content_block.rb`, `explore_collection.rb`, dashboards) | `content_blocks`, `explore_collections` rows | create, update, destroy, index, show | home page | two administrators in one row; a row that vanishes under an update; forms that cannot succeed | the home page shows what is stored |
| Breadcrumbs and related links (`solr_document.rb`, `breadcrumbs_component.rb`, `is_part_of_component.rb`, `this_item_contains_presenter.rb`) | none | link lists from Solr fields | show page | string splitting; two copies of one rule | both copies give the same parent |
| Citations (`lib/emory/citation_formatter.rb`, `citation_string_processor.rb`) | none | format in three styles, sanitise, default | show page | error paths that fall back to defaults; names without a family part | a citation is shown for every document |
| Metadata presenters (`app/presenters`) | `@config`, overwritten by `terms` | `terms` | show page | calling `terms` twice | protocol: once per instance |
| MARC indexing (`app/models/marc_indexer.rb`) | none | field rules | traject | a pattern that always matches | full-text links are told apart |
| Searches, bookmarks, guests (Blacklight, devise-guests, `config/schedule.rb`) | `searches`, `bookmarks`, guest users | save, list, transfer at sign-in, clean up | sign-in | clean-up racing use | gems; only configuration is here |
| HTTP basic authentication, static pages | none | challenge, render | every request | none | trivial |
| PDF viewer: drawing (`viewer.mjs`, 7727–7840, 8524–9029, 10059–12483) | state, task and canvas of each view; the buffer of canvases; timers of zoom and clean-up | draw, pause, resume, cancel, zoom, rotate, scroll, evict, print | worker, scrolling | one thread, but drawing is cut into chunks and everything can happen between two | what is in view is drawn, once; canvases are bounded |
| PDF viewer: find (5192–6179, 9643–9869) | query, matches of each page, selected match, offset, the page waited for | find, again, option, text of a page, close, layer | worker, text layers | the query changes while the pages answer | count, selection and highlights agree |
| PDF viewer: dialogs (4471–4590, 5007–5191) | active dialog, callback of the prompt, field data | ask, submit, cancel, open, close, collect | loading task, worker | close events come later than closing | one dialog; a prompt has an asker |
| PDF viewer: opening and saving (13700–14060, 14318–14325) | loading task, document, URL, edits and their mark, save in progress | open, close, load, save, download | worker, scripts, panels | each step awaits; the next file is opened meanwhile | document, name, panels and file belong together; edits are saved |
| PDF viewer: printing (7464–7726, 14270–14330) | active service, images, dialog, promise of the scripts | print, page, image, cancel, end | scripts, rendering queue | a job called off still gets answers while the next one runs | what is printed is one document |
| PDF viewer: scripts (7842–8206, 3042–3092) | sandbox, capabilities, pages told | set document, open and close a page, destroy | sandbox, pages drawn | creation and destruction both wait | the script hears of pages in turn |
| PDF viewer: history (6180–6646, 929–1274) | destination, uid, position; entries of the browser | link, scroll, hash, back, forward, reload | browser | popstate and hashchange come apart and in the order of the browser | Back stays and loses nothing |
| PDF viewer: modes (4888–5006, 7079–7371, 12000–12483, 14690–14720) | scroll, spread, editor, cursor tool, presentation | choose, present, leave, switch editors | full screen of the browser, pages drawn | modes change each other and have to be put back | the reader's modes come back |
| PDF viewer: sidebar (8207–8523, 4591–4783, 6647–7078) | active view, trees, buttons, current item, stored view | switch, load, click, reset | worker, first view, history | trees arrive in any order, perhaps of the document before | what shows belongs to the document and is stored |

Further parts of `public/pdfjs` (toolbars, preferences, menus of the annotation
editors, the display library and the worker in `build/`) and `config/` beyond
what is named above are listed in PROJECT.json as not modelled. PROJECT.json lists the hazards of each component, at
their lines, with the properties that cover them.

## Modules

| Module | What it is |
|---|---|
| `AccessControl` | the groups of a visitor, the tests of a document and the three deciders that read the visibility instead, as operators; no state |
| `AccessPromise` | the abstract specification: a request is answered in one step by documents the index held since it arrived |
| `CatalogAccess` | the requests as threads that read the index once, twice or three times |
| `CatalogProperties` | what must hold of `CatalogAccess`, with `AccessPromise` instantiated as `Promise` |
| `CatalogAccess_proofs` | its theorems |
| `Users` | the `users` table under concurrent Shibboleth callbacks, sessions and bookmarks |
| `Users_proofs` | its theorems |
| `LoginSession` | one browser, several tabs, one session cookie: refusals, sign-in, sign-out, timeout and where each redirect leads |
| `LoginSession_proofs` | its theorems |
| `Purls` | documents by id and persistent id, what each lookup can return, which purls are printed; operators, no state |
| `PurlPromise` | the abstract specification of a persistent URL: one answer that rests on moments of the index, in order |
| `PersistentUrl` | `purl`, the redirect and the request of `show` that follows, while Curate moves documents |
| `PersistentUrl_proofs` | its theorems |
| `Administration` | content blocks and explore collections under concurrent administrators, and the home page that reads them |
| `Administration_proofs` | its theorems |
| `PdfRendering` | the rendering queue, pages and thumbnails, the buffer of canvases, zooms, the clean-up, a print in between |
| `PdfFind` | the find controller, the find bar and the highlighters of the text layers |
| `PdfDialogs` | the overlay manager, the password prompt and the document properties |
| `PdfOpening` | open, close, load, the panels of a document, edits and saves |
| `PdfPrinting` | the print service with its dialog and the WillPrint of scripts |
| `PdfDocument_proofs` | the theorems of `PdfOpening`, `PdfPrinting` and `PdfScripting`: what becomes of a document |
| `PdfScripting` | the scripting manager and the life of a sandbox |
| `PdfHistory` | the viewer's history and the entries of the browser |
| `PdfReading_proofs` | the theorems of `PdfRendering`, `PdfHistory` and `PdfFind`: what a reader who moves through a document relies on |
| `PdfModes` | scroll, spread, editor and cursor modes under a presentation |
| `PdfSidebar` | the sidebar, its trees and the view that is stored |
| `PdfControls_proofs` | the theorems of `PdfDialogs`, `PdfSidebar` and `PdfModes`: what the reader works the viewer with |
| `Steps` | how a handler of several steps on one record is written, where the steps recur |
| `MCCatalog`, `MCUsers`, `MCLogin`, `MCPurl`, `MCAdministration` | small values for the constants, and symmetry sets |
| `MCPdfRendering`, `MCPdfViewer` | values for the parts of the viewer, and one run for several of them |

`CatalogAccess` and `LoginSession` extend `AccessControl`, so both ask the same
`test_read` and `Refusal` as the code's two callers do. `Users` stands alone: it
shares only the uid with the others, and `PersistentUrl` only the index;
`Administration` shares nothing with them but `admin?`, a group test. The
components meet at three places: where `PersistentUrl` answers `page`, the
request of `CatalogAccess` for that id begins in earnest; a
refusal of `CatalogAccess` (answer `login`) is `RefusePage` in `LoginSession`;
a `Callback` of `LoginSession` is the whole of `Arrive`, `Find`, `Save` and
`SignIn` in `Users`, and `CallbackFails` is `ArriveWithoutUid` or `Fail`.

Definitions that are headed "mutant" are faulty versions of the definition they
stand before. No specification uses them; PROJECT.json pairs each with the
property that has to fail when it replaces the definition, so that every
property is known to depend on the code.

### Catalog requests

A thread of puma is an element of `Requests`; `pc` names its next step:

| Step | Code |
|---|---|
| `Receive` | warden loads the session's user; `current_ability` is memoised |
| `EnforceShowPermissions` | `before_action :enforce_show_permissions`: the first read of Solr, `test_read`, or `RecordNotFound` |
| `Show` | `show`: the second read; nothing tests it again. A NameError of the templates goes on to `Render404` |
| `Render404` | the rescue handler: `visibility_lookup` reads once more; a vanished document makes the handler itself raise |
| `UvConfig` | `GET /uv/config/:id`, `visibility_lookup` without a rescue |
| `Search` | one hit, filtered by the `fq` of the configuration, with the thumbnail that the presenter picks |
| `SolrUnavailable` | any of these reads fails |
| `Reindex` | Curate adds, rewrites or deletes a document |

`asked`, `answer` and the history variable `window` (what the index held for
the id since the request arrived) are shared with `AccessPromise`; the
refinement mapping is the identity on them, `reindexed` and `pc` are hidden.
`renders` stands for records whose metadata make a template raise. A refused
request without an id (a bad range in a search) always ends in `not_found` and
is left out.

The promise is deliberately weak where the code is: a page may be a version of
the document that was not the one tested, and a refusal may be worded by a third
version. While a document holds still the promise leaves no choice, and the
other properties of `CatalogProperties` say what the answer is. Exactness is
claimed of works as Curate indexes them (`CurateIndexed`): a read group that
belongs to the visibility, and nobody named. `Justified` and `ImplementsPromise`
hold of every document.

### Sign-in and users

`Find`, `Save` and `SignIn` are the three statements of a callback that other
threads can interleave with: the SELECT of `find_or_initialize_by`, the INSERT
or UPDATE of `save`, and `sign_in` with the response. A `Find` that meets
several rows may return any (MySQL promises no order). `Save` keeps Rails'
dirty tracking: an UPDATE is sent only if the display name differs from the one
loaded, which by then may not be the one in the row. `Fail` loses the thread at
any point. `overlapped` and `marked` are history variables. Rows have no
unique index on `uid`, so duplicates are possible, and `users_duplicate` shows
one. The other properties say what that costs and what it does not: nobody is
ever signed in as another person, people whose callbacks do not overlap are not
affected, and one person has never more rows than puma has threads, however
often the callbacks fail and are tried again (`DuplicatesStayFew`).

### Browser session

Rails keeps the session in the cookie, so two requests under way each carry
their own copy, and the response that arrives last wins. `jar` is the cookie in
the browser; a waiting tab holds the copy that its request was sent with
(`cookie` in `tabs`); `Answer` installs the changed copy and moves the tab.
Redirects are followed at once with the new cookie, which is what a browser
does: the redirected request is a new `Wait`.

| Action | Code |
|---|---|
| `ShowPage`, `RefusePage` | `show`; `render404` storing `requested_page` and redirecting |
| `SignInPage` | `OmniauthController#new` behind `require_no_authentication` |
| `Authorize`, `ProviderAnswers` | OmniAuth's request phase; Shibboleth |
| `Callback`, `CallbackFails` | `OmniauthCallbacksController#shibboleth`; the same when `from_omniauth` returned no user |
| `SignOut` | `devise/sessions#destroy` |
| `Timeout`, `DayPasses` | Devise's `timeoutable`, 24 hours |
| `Open` | the person types an address or follows a link |

External behaviour, modelled from how the code uses it, of the versions in
`Gemfile.lock`: Devise resets a timed-out session, stores the address and sends
the browser back to it; `require_no_authentication` sends a signed-in visitor to
the stored location, once, or home; OmniAuth keeps the referer as `origin`
through the request phase and hands it to the callback; the callback skips the
timeout. The model is of the production environment: elsewhere `new` renders a
form.

### Persistent URLs

| Action | Code |
|---|---|
| `Follow` | `GET /purl/:id`, any name |
| `DirectLookup` | `safe_document_lookup`: a fetch by id, which has no filter |
| `PurlLookup` | `emory_purl_document_id`: a search with the `fq` of every search and one row; none found renders `static/not_found` |
| `Show` | the browser follows the redirect; the first read of `show`, in which the document may be gone (`missing`) |
| `SolrUnavailable` | any of these reads fails |
| `Reindex` | Curate adds, rewrites, deletes a document; a move is two of these |

Several documents may carry one persistent id; Solr promises no order, so
`PurlLookup` picks any. Names stand for ids and persistent ids alike, `Cor` for
those with `-cor` in them, by which `FindThisItemHelper` chooses the purl to
print. `window` is the history of the index since `Follow`. `PurlPromise` has
no lookups: an answer is promised when the moments of the window allow it, the
id having been looked for not later than the persistent id, and the document
opened not earlier than it was found. The refinement mapping is the identity on
`index`, `asked`, `answer` and `window`; `pc`, `target` and `reindexed` are
hidden.

The filter stands on one lookup only. A file set, or a restricted work, is
reached by its id; by its persistent id it is not, and when `PrintedPurl` falls
back to the persistent id of such a document the printed purl leads nowhere.
`PurlsLeadBack` therefore asks for a `listed` document where it speaks of
printed purls.

### Administration and the home page

Both controllers are Administrate's (0.17) with small changes, and the model
follows that: one set of actions for both tables, and operators for what the
dashboards and models of this repository declare.

| Definition | Code |
|---|---|
| `Columns`, `permitted_attributes`, `Required` | the dashboards' attributes, what a form may set, the validations of the models |
| `Create` | `create`: one INSERT of what the form may set; an invalid row is not saved |
| `FindForUpdate`, `SaveUpdate` | `update`: the row is loaded; later the validations are asked of the loaded row with the form's attributes, and an UPDATE writes those that differ from the loaded ones |
| `FindForDestroy`, `Delete` | `destroy`, for both tables |
| `Fail` | the request is lost between its two statements |
| `ExploreCollections`, `HeaderNavbar` | the home page: three of the active collections, then the layout with the banner |

`TileTexts` is the set of texts of a collection that an instance looks at; they
are treated alike, and the theorems hold for all four. A text that is blank and
a box that is not ticked are both `Blank`. The banner is looked up twice by one
page (to see whether it is blank, and to render it), but Rails answers the
second lookup from the query cache of the request, so it is one read here.

Edits are merged by attribute: `EditsOfOthersSurvive` says so of threads that
have loaded the row. It does not say that a form filled in from an old page
leaves newer edits alone: it sends every attribute, and overwrites them.

### The PDF viewer

Lux puts `public/pdfjs/web/viewer.html` into an iframe for a work whose file is
a PDF (`show_pdf_viewer_component.html.erb`). The viewer is one page in one
thread: nothing runs in the middle of a handler, and everything may run between
two tasks. So an action is one task of the page with the microtasks it leaves:
what runs until the next `await` that really waits, the next event, timer or
answer of the worker. What the handler decided before the wait is in a set of
pending answers (`asked`, `answers`, `awaited`, `jobs`, `saves`), each with
what it was asked for, so that a late answer is met by what the code checks, and
by nothing else. Each module keeps its component in one record, and a handler
is an operator on that record, named as in the source.

* `PdfRendering`. A view is INITIAL, RUNNING, PAUSED or FINISHED, with the
  task, canvas and page it holds; a canvas is current, stale or none. A task
  that paused goes on in a microtask (`ViewCallback`), so no other task comes
  between: `Ready` holds `Task` (a page loads, a chunk ends, the timers of the
  zoom and of the clean-up fire) and `Reader` back until it has run. The buffer of
  canvases is a function from positions, the oldest first, as a Set of JavaScript
  is walked. `forceRendering` is inlined wherever the code calls it. `MaxEvents`
  bounds the reader.
* `PdfFind`. The matches of a page are a number, which the constant `MatchesIn`
  gives for a query and the mind for case; text arrives page by page
  (`ExtractText`), typing is delayed by `FindTimeout`, and `callbacks` counts
  how often `nextMatch` has asked for a page it waits for. `fields` is what the
  input and the boxes of the bar hold, which outlives the bar and the document.
  The loops of the code, over pages, callbacks and requests that wait for the
  first page, are `Repeat`: a function that gives what each turn of the loop
  leaves. `NextPageMatch` picks the first turn at which the code's loop stops.
  `turned` marks a search whose direction was changed while it waited, `undrawn`
  one that turned the highlights on without drawing them.
* `PdfDialogs`. `closeEvents` counts close events that the browser has still to
  deliver; `asks` holds callbacks of the worker that `setUpdateCallback` has
  made to wait. `PDFDocumentProperties.open` waits three times (`Requests`): for a
  document, for its metadata and the page, and for the length of its file, which
  the worker tells when all of it is there (`DataLoaded`). What is collected says
  of which document the title, the page size and the file size are. Closing a
  document calls none of these waits off; they end when its worker has terminated
  (`TaskDestroyed`).
* `PdfOpening`. A document is the number of the call of `open` that loads it.
  `overlapped` marks that a call of `open` found another one still waiting: the
  properties claim nothing more then, but that the panels come to be of one
  document (`WaitsEnd`). A save has a kind, since `saveDocument` falls back to
  the unedited data when it fails.
* `PdfPrinting`. A job is its service and the page it is at; several jobs may
  wait for answers, one is the active service.
* `PdfScripting`. The sandbox is an outside party that answers when it likes.
  `visited` is the map of `pageOpenPending` and visited pages, `shown` what the
  script was told. `odd` marks two races that really leave the script with a
  wrong picture (PROJECT.json, hazards at 7949 and 8119).
* `PdfHistory`. The browser is a list of entries and a position; `popstate` comes
  with the traversal, `hashchange` later, as HTML orders it. A PDFHistory exists
  only in a viewer that has a window of its own (13432), which is how a reader
  sees one opened from the iframe's address. `mixed` marks a window that has shown
  another document, after which uids of entries do not increase any more. `load`
  sets the first view when the document is there, and once more, in whatever
  view the reader is by then, when its pages are (`again`, `FirstViewAgain`); with
  pages of one size the second is left out, and the model allows both. `kept`
  is how many entries there were when a traversal arrived (`FoundAtOnce`), until
  something else happens: an act of the reader, an answer of the worker, a wait for
  `hashchange` that ran out, the first view set again. The push of a document's own
  destination (14201-14207) is for `viewOnLoad` -1, and the viewer's is 0.
* `PdfModes`. Full screen is entered and left by the browser; the timeouts of 0 ms
  that follow run in order. `hurried` marks choices between the request of a
  presentation and its start, which its end undoes; `rearmed` an editor switch whose
  timeout was set twice. `asked` is the editor mode set last, or `passed` when the
  setter returned early, as it does for the mode of the moment, although a switch
  to another was waiting.
* `PdfSidebar`. Trees arrive from the worker, the first view from `load`. `late`
  and `early` mark what a document that was closed does to the next one: its
  `load` goes on and sets the first view, its failed pages let the pages of the
  next count as loaded.

The marks (`turned`, `undrawn`, `overlapped`, `odd`, `crowded`, `mixed`, `hurried`,
`rearmed`, `late`, `early`) are history variables. Each was added because TLC,
or a proof that failed, showed a behaviour of the code in which the property does
not hold; the property is claimed of all others, and the behaviours are described
under "What the checks show".

External, modelled from how the viewer uses it: `build/pdf.mjs` (the worker
answers a request in any order, destroying a task ends its answers), the
sandbox, dialogs, timers, history and full screen of the browser.

## Runs

| Run | Asks | Instance |
|---|---|---|
| `catalog_one` | `RequestInv` (types, `Justified`), `PageExactlyForReaders`, `LoginHelps`, refinement, `EveryRequestIsAnswered` | one thread, one id, every visibility and three odd documents, every visitor (three people by four addresses), two changes |
| `catalog_two` | `ThumbnailTellsWhereItLeads`, `DownloadsOnlyWithPage` | two threads, three visitors, all documents, one change |
| `catalog_uv_missing` | `MissingResourceIsNotFound`, expected to fail | one thread |
| `users_rows` | `RowInv` (types, `Held`, `SignedInAsOneself`, `Shelved`) and four safety properties, among them `DuplicatesStayFew` | three threads, two people, two names, two works, four callbacks |
| `users_duplicate` | `OneRowPerPerson`, expected to fail | two threads, one person |
| `login_tabs` | types, `SessionSettles`, `RefusedPageIsReached` | two tabs, two pages for those signed in; no bound |
| `login_live` | `NoEndlessRedirects` | one tab; a readable, a failing and an open page; no bound |
| `purl_moves` | `RequestInv`, `MovedDocumentsAreFound`, `PurlsLeadBack`, `MissingWasThere`, refinement | one browser, three names of which two contain `-cor`, every index whose documents have the persistent id `old` or none, two changes |
| `admin_edits` | `RowInv` (types, `RowsValid`, `TilesComplete`), `BlocksKeepTheirReference`, `DestroyedStays`, `EditsOfOthersSurvive` | two administrators, the banner and another block id, one collection with one text, two values, a visitor of the home page; no bound |
| `admin_destroy` | `BlocksArePermanent`, expected to fail | one administrator |
| `pdf_rendering` | `RenderingIsSound`, `VisiblePagesAreDrawn`; `FindIsSound`, `CountIsTheRank`; `DialogsAreSound`; `PrintingIsSound`; `ScriptingIsSound`; `WaitsEnd` for all | see below; 0.27 million states |
| `pdf_viewer` | `HistoryIsSound`, `LinksLeaveAWayBack`; `ModesAreSound`, `LastEditorWins`; `SidebarIsSound`; `OpeningIsSound`, `EditsLeaveWithASave` | see below; 1.6 million states |

The parts of the viewer that a run holds do not act together: its behaviours are
those of one part at a time (`subject`), so that one run checks several
machines and its states are the sum of theirs. A property `...IsSound` is the
conjunction of the named parts above it in its module; each part was seen to
fail under a fault of its own while it was written, and PROJECT.json keeps one
fault for each property.

Bounds. `MaxReindex`: a request reads the index at most three times, so two
changes put a different version under each read; with two threads one change
separates any two of their reads. A purl makes three reads, and its two changes
are what a move takes: the new document appears, the old one goes; browsers
following different purls share no state, so one is enough. `Administration` has no counter: two
administrators are enough for a merge and for an update of a destroyed row; the
theorems hold for any number of collections and for every choice of three of them. `MaxLogins`: two callbacks are needed for a
duplicate, a third to find either row, a fourth to write to it with stale
attributes, and three threads hold the overlapping ones; a fourth callback is
also one more than the threads, so `DuplicatesStayFew` is not met by the bound. `LoginSession` has no
counter and is explored completely; two tabs are enough for a response to be
overtaken and for `requested_page` to be displaced. One id suffices because
requests for different ids share no state. `CHECK_DEADLOCK FALSE` stands
in the runs of `Users`, where `MaxLogins` lets a behaviour end, in
`admin_edits`, where all ids may have been used and destroyed, and in those of
the viewer, whose reader is bounded.

The viewer. Drawing: four pages, of which one cannot be loaded and one is too
large for a zoomed canvas, a view of one page and one of two with a hole, a
buffer for two, two acts of the reader: the second finds the first in each
stage. A print waits until all pages are loaded, so with the page that is broken
none starts here; that a print disturbs nobody, and nobody it
(`CleanupDisturbsNobody`), rests on the theorem `RenderingCorrect`. Find: three pages, two queries, three acts, of which one may turn the
search round while it waits for the page that another began with. Dialogs: three
documents that ask twice, two looks at the properties. Printing: two pages, two
calls, of which the second meets all that the first left behind. Scripts: two
pages, two documents, three turns (leave, return, leave again). Opening: three
calls of `open` (two overlap, a third follows), two edits, one late panel, as
the late panels do not differ. History: two pages, one destination, five visits
(forward, back, a hash, a reload and one more); fewer hide the truncation of
forward entries; one document has a view stored by an earlier visit
(`StoredPlaces`), the other has none. Modes: three pages, three of the four scroll modes, two
editors, three choices. Sidebar: two documents, two pages, one tree of each
kind, two clicks. `TreeSets` has no document with several trees in the run, as
trees meet only in which of them is active. Larger instances of each part, also
with several trees in a document, were explored by random simulation without an
error.

Symmetry is used in safety runs only, over values the specification compares
for equality. In `login_tabs` all pages are of one kind, so they may be
exchanged too.

Fairness is assumed in the runs for liveness only. In the viewer it is one weak
fairness condition for each part: the browser runs what is queued, the worker
and the sandbox's module answer, timers fire (`RenderingWorks`, `FindWorks`,
`DialogsWork`, `OpeningWorks`, `PrintingWorks`, `ScriptingWorks`). Not assumed
are acts of the reader, that a document loads, that the actions of a page
arrive, or that a script lets go: `close` waits a second for it, and that
timer is fair. A puma thread goes on with the request it has taken: weak fairness of
`Serve` for each thread or tab, nothing else. Nobody owes the server another
request, and neither failures nor changes of the index are counted on. In
`LoginSession` the identity provider is fair too: `NoEndlessRedirects` is about
redirects without end, and single sign-on that answers by itself is the case in
which they could be endless. A person who leaves the provider's page again and
again (`Leaves`) is excluded by the property, not by the specification.

## What the checks show

* While a work holds still, the four deciders agree for every visitor: group
  comparison, thumbnail, viewer configuration and refusal.
* While the index changes, a page is shown only if a version the visitor may
  read was in the index during the request, though not necessarily the version
  shown. A document deleted in the middle of a refusal ends in an error page.
* A login leads back to the refused page, unless another tab of the browser
  displaced `requested_page`. Since `requested_page` is never cleared, it also
  decides where a later, unrelated login ends: `RefusedPageIsReached` speaks of
  tabs that were refused, and says nothing of a tab that went to the login by
  its own link.
* Who the browser is settles as soon as no request is under way. A response that
  was overtaken by a sign-out does bring the old session back; `settled` is
  `"unknown"` from then on, and the property does not speak of it.
* Redirects end.
* A document that moves to a new id, and is indexed there with its old id as the
  persistent id before the old one is deleted, is found throughout the move.
  The order of the two lookups in `purl` is what makes it so. A redirect leads
  nowhere only if its document was deleted in between.

* What administrators store is valid and what the home page shows complete,
  however their updates overlap. Content blocks are those of the migrations: no
  form makes or renames one.

* In the viewer, what stays in view is drawn in the end, whatever zooms,
  evictions, prints and late pages interleave, and no more pages have a canvas
  than the buffer holds. Searches, prompts, prints and closes come to an end.
* A search keeps no match of an earlier query. Turned round while it waits for
  the text of a page, it may end with "Phrase not found" although there are
  matches on pages it did not come to (`turned`), since the pages left to search
  are counted on.
* Highlights may stay away. `nextMatch` sets `_highlightMatches` (5843), but only
  a search that is dirty, or `onFind` after "again" (5556), draws the text layers
  anew. A reader who types, switches on "highlight all", searches again, closes
  the bar, opens it and types, all before the first page of the document is
  there, gets a timer whose search finds its matches at hand: it highlights the
  page of the selected match, and no other page until the next redrawing
  (`undrawn`). These are more acts than `MaxFinds` allows in the run: the proof
  found the behaviour, and TLC confirmed it on a larger instance.
* A reader who chooses a mode between asking for a presentation and its start
  finds it undone afterwards (`hurried`).
* The editor that was set last is the one that is entered, with one exception. A
  presentation sets NONE as it enters full screen (7186-7190). If a switch to, say,
  INK still waits for its pages then, NONE is still the mode, and the setter
  returns at 12415 without calling the switch off: INK is entered in full screen
  (`passed`).
* The properties that are shown are those of the document that is open, all of
  them, but for the file size. `open` writes it last (5078-5088), into whatever is
  collected by then and without a look at the document: when the length of the
  file is told after `close` has cleared the properties and before the worker has
  terminated, the file size of the closed document stands there alone.
  `setDocument` does not clear it, as there is no document to it; the next `open`
  collects anew. Only the size can be left over, and never beside data of
  another document.
* Two overlapping calls of `open` mix name, document and what is kept alive
  (`overlapped`); a document that is closed while its `load` waits spoils the
  first view of the sidebar of the next (`late`), and its failing pages let the
  next one's count as loaded (`early`).
* The history of the viewer knows which entry it is at, and a link leaves a way
  back. Going back takes no forward entry away if the page arrived at is known.
  Where the destination's page is still to be asked of the worker, the timer of
  the position may write an entry first (`FoundAtOnce`); the same happens after a
  document was opened while a wait for `hashchange` was pending, since
  `initialize` sets `_blockHashChange` to 0 and the wait then takes it to -1. And
  where the pages are not all of a size, `load` sets the first view once more when
  they are there, up to ten seconds later (13974-13991): a reader who has gone back
  in the meantime is moved, without an act of his own, the timer of the position
  writes an entry for the place, and the entries ahead are cut off. In a
  window that holds entries of two documents (`mixed`), `back()` may be asked for
  at the window's first entry.
* A script is told twice of a page that was left and returned to before the
  actions of the page arrived, and the scripting manager keeps a capability of a
  document that was closed while its sandbox was made (`odd`).
* A close event of a print dialog that comes late aborts the next print. It is
  aborted cleanly: `PrintingIsOneThing` holds.
* Edits are marked until they are saved, and a document with marked edits is left
  only by way of a save; but printing takes the mark away, and so does a save that
  began before the last edit.

Three disagreements between code and documents were found (PROJECT.json
"findings"): the viewer configuration of a missing resource is an exception
where a pending test wants a 404 (`catalog_uv_missing`); two overlapping
first sign-ins of a person make two users where the comment on `from_omniauth`
speaks of finding or making one (`users_duplicate`); and an administrator can
destroy a content block where a test says this is not permitted
(`admin_destroy`), after which no form can make it again.

## Proofs

All theorems hold for every value of the constants that satisfies the `ASSUME`s
of the modules: sentinel values are no data, documents and visitors are of their
record types, reading-room addresses are addresses, pages are not endpoints.

* `CatalogAccess_proofs`. `Justified` is inductive together with the types: a
  thread that has passed `EnforceShowPermissions` has seen, in its window, a
  document the visitor may read; one that is about to refuse has seen one it may
  not, or one that fails; an answer is a promised one. The window only grows
  while a thread is busy, and the promised answers grow with it. Refinement
  follows step by step: the first step that answers is `Reply`, all others
  stutter or map to `Arrive` and `Reindex`. The four exact properties follow
  from `Justified` with a window of one document and the lemma `DecidersAgree`.
* `Users_proofs`. `RowInv` (types, `Held`, `SignedInAsOneself`, `Shelved`) is
  inductive by itself: a row a thread holds is its person's because rows only
  grow and keep their uid (`RowsGrow`). `DuplicatesStayFew` is inductive with it:
  an insert turns a thread that counted as inserting into a row, and from the first
  row on a lookup finds one, so no other thread comes to insert. The properties of people whose callbacks
  do not overlap need `AloneInv`: between `Find` and `Save` no other thread of
  the person moves, so what the lookup returned is still true (`LookupHolds`).
* `LoginSession_proofs`. `SettledInv`: while the user is known, the jar and the
  copies under way agree. `SeekersGetOn`: a tab that was refused a page for
  signed-in people is on one of the four stages of the way back, with
  `requested_page` in the copy it carries. Both are inductive.
* `PersistentUrl_proofs`. `Justified` with the types is inductive: before the
  second lookup some moment of the window had no document of that id; before the
  redirected request the target was found at a moment of the window; an answer
  is a promised one. `FoundStays` carries these over a change of the index,
  since the window only grows. `MovesAreHarmless` takes the moment of the second
  lookup and the earlier one of the first: that a document lacks the id there
  and none carries it later is what `NeverLost` excludes. The refinement is as
  in `CatalogAccess`.
* `Administration_proofs`. `RowInv` (types, `RowsValid`, `TilesComplete`) is
  inductive: `WrittenTyped` says that an UPDATE takes each attribute from the
  validated form or leaves that of the row, which was valid. `RowChange` lists
  what any step can make of one row; the three action properties follow from it.
* `PdfDocument_proofs`, opening. `OpeningInv` adds to the types what is true as long as no
  two calls of `open` overlap (`Alone`): at most one call waits, for the closing
  of the document before it; what is kept of a document that closes waits with
  that call; the marks of edits and the saves are of the document that is present
  or of one that was; a save of a closing document ends in its `close`. `Alone`
  is stated of any record, not of the variable, so that each operator a handler
  is composed of has its own lemma; a handler's lemma strings them together.
  `OpeningSound` follows from it directly, `EditsAreSaved` from it and a lemma
  per action that says when `document` may change. Both hold for any number of
  openings, edits and late panels.
* `PdfDocument_proofs`, printing. `PrintingInv` adds to the property what makes it
  inductive: the service has at most one job, which knows how many images the
  container holds (`JobsBelong`), so an answer for a job that was called off finds
  another service, or none; and unless two calls waited at once, the scripts have
  been asked by one call, the one of the capability (`InTurn`). For any number of
  pages and of calls of `window.print`.
* `PdfDocument_proofs`, scripts. `GoodScript`: the document and the sandbox of the
  manager are the last one opened or none, also after the two races of a close
  (`Base`, `Parting`, `Ending`); nothing of a session is left before its script is
  told of the document and after its sandbox is destroyed (`Session`). The core is
  `Heard`: the events that are queued for the script begin with `Open`
  (`Begins`) and open and close each page in turn, from what the script believes
  to what `visited` notes (`Alternates`). `Runs` says the latter without
  recursion, by a function that gives the belief before each event; a message
  lengthens it at one end (`RunsOn`), a step of the sandbox shortens it at
  the other (`RunsFirst`). `Visits` and `Faces` tie `visited` to the calls that
  wait for the actions of a page and to the page that shows. For any number of
  pages and documents.
* `PdfReading_proofs`, drawing. Next to the types, `Inv` says that the buffer holds its
  canvases at 1, 2, ... without a gap (`Numbered`) and that each view is
  `Settled`: what it keeps agrees with its state, a paused view is never the one
  of highest priority, a canvas it shows is in the buffer, and is current unless
  the timer of the zoom is set. `Quiet` says when the timer of the clean-up may
  run. The proof of `CleanupDisturbsNobody` failed at first for a good reason:
  with a larger buffer than TLC had explored, a chunk that goes on in a
  microtask could be overtaken by the timer. `Ready` was added, which gives
  microtasks their turn first, as the event loop does.
* `PdfReading_proofs`, history. `HistoryInv` is made of the parts of `GoodHistory`
  and of `Calm`. What entries lead to was written by a link, a page gone to, a
  hash or a position (`Lasting`, `Written`), and the window's list of them has no
  entry without a state but a first one that is alone (`Arranged`). The internal
  destination is that of the present entry, but for the mark `temporary` and for
  a page that `initialize` has set to null (`Agrees`, `Likens`). In a window of
  one document the first uid is 0 and uids rise (`OneWindow`): so a uid above 0
  proves that there is an entry to go back to. After a traversal that found its
  destination the reader looks at it, and a timer that runs would write what is
  there already (`AtRest`, `Calm`). What `load` keeps to set again is a hash, which
  leads where it leads on any later day (`Stored`, `LinkLeadsBack`). The proof of `TraversalKeepsEntries` failed
  at first for a good reason: the two cases in which a traversal does not arrive
  at once, described above, lie beyond the five visits that TLC explores. So did
  that of `BackStaysInViewer`, which fails after eleven visits in a window of two
  documents. The properties now speak of the others. TLC has checked `HistoryInv`
  itself on three pages, two destinations and two documents, with four visits.
  `WayBackCorrect` rests on the same invariant: `pushCurrentPosition` replaces or
  follows the present entry by one that leads to the pages last seen
  (`PositionLeadsBack`) before `push` writes that of the link.
* `PdfReading_proofs`, finding. `FindInv` is a conjunction of facts about the
  record of the component. `Placed`: the page a search waits for has no matches
  yet and is where the offset is, and what is selected exists. `Awaited`: a page
  has at most one callback, and no matches while it has one. `Pending` and
  `Rest`: between actions the pages that have a callback are those whose text is
  still to come, so an answer for an earlier query finds nobody. `Content`: the
  others hold the matches of the present query, and the total is their sum.
  `AsFields` and `Away` say what the controller's state is when a request waits
  for the first page, or none was made. `Drawn`: each text layer shows what
  `Rendered` computes, but for the page last selected while the search waits.
  `Outcome`: a search that is over shows the right rank and has selected a match
  or seen that there is none; one that waits has passed pages without a match
  only (`Passed`).
  Two arguments carry it. One is about sums: `MatchesBefore` is a function on
  page numbers, and a page that gets its matches moves the sums behind it by just
  as many. The other is about the walk: as many pages as `_pagesToSearch` has
  been counted down have no match, so when it falls below 0 "not found" is true.
  A search that waits while no page has its text has counted at most one page
  (`TurnedAtStart`): therefore a change of direction that goes unnoticed because
  the page is the first, 0 being no page to the test of `_resumePageIdx`, does no
  harm. What climbs from page to page is proved with `Climb`, by the least
  counterexample, as the provers cannot instantiate the library's induction.
  The proof of `LayersShowTheMatches` failed at first for a good reason, the
  missing highlights described above. TLC has checked `FindInv` itself on small
  documents, with longer behaviours than the run has.
* `PdfControls_proofs`, dialogs. `GoodDialogs`: a question of the worker is held
  back only while a prompt is pending, the last one is that of the loading task,
  a prompt that shows has the callback it will call, and the properties on
  display, or collected, are those of the present document but for a size alone
  (`OfDocument`); the present document is the last one that was loaded, so the
  length that its worker tells is its own.
* `PdfControls_proofs`, sidebar. `GoodSide`: every tree is of the document present
  (`Rooted`), a button is disabled exactly when its tree turned out empty, once
  the files' event has come (`OutlineFits`, `FilesFit`, `LayersFit`), the view
  that shows is never that of a disabled button and is what the view history
  stored, and an answer under way that will fill the outline finds it empty
  (`Requested`).
* `PdfControls_proofs`, modes. `GoodModes`: the timeouts that follow entering and
  leaving full screen are at most one of each and in turn, and the viewer's state
  follows the browser's; what `enter` stored is what was chosen, until `exit`
  puts it back; all editor switches that wait are for the mode set last,
  unless that was passed over, and more than one only if `rearmed`; the tools on display fit the editor.

In these proofs about large records each part of the invariant is stated of any
record, not of the variable: every operator a handler is composed of has its own
lemma, a handler strings them together, and an action's lemma follows.

Only model-checked are the liveness properties (`EveryRequestIsAnswered`,
`NoEndlessRedirects`, `VisiblePagesAreDrawn`, `WaitsEnd`), since the prover has
no fairness. Every other property of a run that passes is the statement of a
theorem.

## Not modelled

* Breadcrumbs and related links, citations, metadata presenters, the rules of
  MARC field 856, the choice of a viewer: functions of one record without state
  or order, whose specs enumerate the cases. What a page does whose templates
  raise is in `CatalogAccess`.
* The `bearer_token` cookie, which outlives the session: what it opens is decided
  by another program, the image server.
* Query building and advanced search (Solr decides what a query means), static
  pages and HTTP basic authentication (one stateless check), guests and saved
  searches (code of gems), framework configuration.
* Of the viewer: `build/` (generated), toolbars, preferences, localisation and
  menus (markup that passes events on), what the sandbox asks of the viewer, the
  matching of letters, named actions and the parsing of a hash into a view, the
  view history in localStorage (one window reads and writes it within a step),
  the guards of `setImage`, `disableAutoFetch`.
  The parts are modelled apart from each other: where one calls another, the
  call is an action of both (closing a document is in most of them), with the
  order that `PDFViewerApplication.close` gives them.
* No liveness is claimed of history, modes and sidebar: they wait for the reader
  or for trees that a document need not have.
