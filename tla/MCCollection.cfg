SPECIFICATION Spec
CONSTANTS
  Products = {1, 2}
  KindsUsed = {"shopify", "woocommerce", "wix", "bigcommerce", "prestashop", "page_engine"}
  Limits = {0, 1}
  PageLimit = 2
  MaxExecutions = 2
  Disturbances = 2
INVARIANTS GaplessManifest SealedChecksumHolds SucceededIsPublished
 
CHECK_DEADLOCK FALSE
