\* Two routed sessions, a page and its worker, and one protocol request.
SPECIFICATION Spec
CONSTANTS
  None = None
  Routes = {page, worker}
  Page = page
  Workers = {worker}
  WorkerUrl = urlA
  Requests = {fetch}
  Sockets = {page}
  Urls = {urlA, urlB}
  MaxHop = 1
  MaxRetained = 2
  MaxEvents = 4
INVARIANTS
  ReductionIsExact
  WatcherConverges
CHECK_DEADLOCK FALSE
