SPECIFICATION FairSpec
CONSTANTS
  Promotion = 2
  Domestic = 2
  Revoke = 2
  Slow = 1
  Bases = {"direct", "proxy"}
  PresetPref = "direct"
  MaxLate = 1
  MaxOutside = 1
PROPERTY UserRuleStands
PROPERTY InferenceYields
PROPERTY AnswersUnbroken
PROPERTY PromotionNeedsEvidence
 
PROPERTY BrokenDirectEscapes
PROPERTY DomesticComesHome
