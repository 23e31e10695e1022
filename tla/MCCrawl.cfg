SPECIFICATION CrawlSpec
CONSTANTS
  Kinds = {"pagecrawl", "wix", "axner", "ceramicolours", "shopify", "woocommerce", "bigcommerce", "keramik_kraft"}
  Products = {1, 2, 3}
  Drops = {{}, {2}}
  Samples = {0, 1}
  PageCap = 2
  ProductCap = 2
  Concurrency = 2
  ZeroGains = 1
  MaxAttempts = 2
  MaxFaults = 3
INVARIANT CircuitIsExact
PROPERTIES  EveryCrawlEnds
CHECK_DEADLOCK FALSE
